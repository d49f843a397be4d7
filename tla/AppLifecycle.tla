---------------------------- MODULE AppLifecycle ----------------------------
(***************************************************************************)
(* The server's view of the applications: discovery, the overlay of what   *)
(* the dashboard itself stopped, and the manager that stops, starts and    *)
(* dismisses instances (pkg/discovery, pkg/lifecycle), over the processes  *)
(* and containers themselves.                                              *)
(*                                                                         *)
(* An instance is a `dapr run' (a CLI that supervises the app and its      *)
(* sidecar; listed while its daprd runs) or a pair of compose containers   *)
(* (always listed).  Every start of a run takes fresh pids, written as the *)
(* number of the start.  A listing is scanned and passed through the       *)
(* overlay in two steps; a Get is one step.                                *)
(***************************************************************************)
EXTENDS Naturals, Sequences, FiniteSets, TLC

CONSTANTS Runs, Composes,
          MaxPid, MaxScans, MaxSteps    \* bounds: starts of a run; scans, requests
                                        \* under way; user's, world's steps

\* An instance is a run or a compose pair, not both; runs have been started once.
ASSUME AppsAssumption ==
    /\ Runs \intersect Composes = {} /\ MaxPid \in Nat \ {0}
    /\ IsFiniteSet(Runs \union Composes)

Keys == Runs \union Composes
Halves == {"app", "daprd"}
Targets == Halves \union {"all"}        \* of a run, "all" is its CLI
nobody == [t \in Targets |-> 0]
Actions == {"stop", "start", "restart"}

VARIABLES
    world,          \* pid of each process of an instance, 0 if it does not run
    starts,         \* how often each run has been started
    entries,        \* the registry: stopped run |-> [instance, procs]
    suppressed,     \* the registry: instances the user cleared
    scans,          \* listings under way
    list,           \* the listing the page last received: rows, and the keys it is older for
    ops,            \* requests of the manager under way
    steps,
    \* history, for the properties: runs the dashboard stopped, instances dismissed while
    \* down, instances the page was shown since they were last dismissed, keys an older scan spoke for
    remembered, hidden, seen, late

history == <<remembered, hidden, seen, late>>

Step == steps < MaxSteps /\ steps' = steps + 1

-----------------------------------------------------------------------------
(* Discovery                                                               *)

Status(pid) == IF pid = 0 THEN "stopped" ELSE "running"
Down(k) == \A t \in Targets : world[k][t] = 0

Found == Composes \union {k \in Runs : world[k]["daprd"] # 0}

\* What a scan sees of an instance, its metadata answered or not.
enrich(k, meta) ==
    [pid |-> [t \in Targets |-> IF k \in Composes \/ (t = "app" /\ ~meta) THEN 0 ELSE world[k][t]],
     app |-> IF k \in Runs /\ ~meta THEN "unknown" ELSE Status(world[k]["app"]),
     daprd |-> Status(world[k]["daprd"]),
     orphaned |-> k \in Runs /\ meta /\ world[k]["all"] = 0 /\ world[k]["app"] = 0]

\* The runs whose sidecar does not answer are chosen by mute, at the cost of a step.
Mute(mute) == IF mute = {} THEN UNCHANGED steps ELSE Step
scanned(mute) == [k \in Found |-> enrich(k, k \notin mute)]

-----------------------------------------------------------------------------
(* The overlay                                                             *)

snapshots(k) == IF k \in DOMAIN entries THEN entries[k].procs ELSE <<>>

\* Snapshots dropped as soon as the process is seen at all.
outdated_Eager(k, view) == {t \in DOMAIN snapshots(k) : view.pid[t] # 0}

\* Snapshots of a process that has reappeared under another pid.
outdated(k, view) == {t \in DOMAIN snapshots(k) : view.pid[t] \notin {0, snapshots(k)[t]}}

retained(k, view) == DOMAIN snapshots(k) \ outdated(k, view)

applyEntry(k, view) ==
    IF "app" \in retained(k, view)
    THEN [view EXCEPT !.app = "stopped", !.pid["app"] = 0] ELSE view

\* The registry once the views have been reconciled with it.
reconciled(views) ==
    [k \in {k \in DOMAIN entries : k \notin DOMAIN views \/ retained(k, views[k]) # {}} |->
        IF k \in DOMAIN views
        THEN [entries[k] EXCEPT !.procs = [t \in retained(k, views[k]) |-> entries[k].procs[t]]]
        ELSE entries[k]]

synthesize(k) ==
    LET in == entries[k].instance
        stopped == "app" \in DOMAIN snapshots(k) \/ in.pid["app"] = 0 \/ in.pid["app"] # world[k]["app"]
    IN  [in EXCEPT !.daprd = "stopped",
                   !.app = IF stopped THEN "stopped" ELSE @,
                   !.pid = [t \in Targets |-> IF t = "app" /\ ~stopped THEN @[t] ELSE 0]]

fullyStopped(view) == view.app = "stopped" /\ view.daprd = "stopped"

Listing(views) ==
    [k \in DOMAIN views \union DOMAIN entries |->
        IF k \in DOMAIN views THEN applyEntry(k, views[k]) ELSE synthesize(k)]

Shown(views) ==
    {k \in DOMAIN Listing(views) : ~(k \in suppressed /\ fullyStopped(Listing(views)[k]))}

\* Suppression is lifted from an instance that is listed and not fully stopped.
Unsuppressed_None(views) == suppressed
Unsuppressed(views) ==
    {k \in suppressed : k \in DOMAIN Listing(views) => fullyStopped(Listing(views)[k])}

\* overlay.List: the answer is Listing restricted to Shown.
List(s) ==
    /\ entries' = reconciled(s.views)
    /\ suppressed' = Unsuppressed(s.views)
    /\ late' = late \union (s.older \intersect DOMAIN s.views)

\* overlay.Get: the instance in a sequence, empty if it is not found.
Get(k, mute) ==
    IF k \in Found THEN <<applyEntry(k, enrich(k, k \notin mute))>>
    ELSE IF k \in DOMAIN entries THEN <<synthesize(k)>> ELSE <<>>

afterGet(k, mute) ==
    IF k \in Found THEN reconciled([x \in {k} |-> enrich(x, x \notin mute)]) ELSE entries

-----------------------------------------------------------------------------
(* Listings.  older: the keys started or dismissed since the scan.         *)

Scan(by, live, mute) ==
    [views |-> scanned(mute), by |-> by, live |-> live, older |-> {}]

overtaken(S, K) == {[s EXCEPT !.older = @ \union K] : s \in S}
overtake(S, K) ==
    scans' = overtaken(S, K) /\ list' = [list EXCEPT !.older = @ \union K]

-----------------------------------------------------------------------------
(* The manager                                                             *)

Request(kind, key, target, action, mounted, leaves) ==
    [kind |-> kind, key |-> key, target |-> target, action |-> action, status |-> "sent",
     todo |-> <<>>, pid |-> nobody,
     mounted |-> mounted, leaves |-> leaves, waits |-> {}]

\* The processes a stop signals: the CLI, which reaps the others, if its pid is known.
signalTo(in, t) == IF in.pid[t] = 0 THEN <<>> ELSE <<t>>
signalled(in, target) ==
    IF target = "app" THEN signalTo(in, "app")
    ELSE IF in.pid["all"] # 0 THEN <<"all">>
    ELSE signalTo(in, "app") \o signalTo(in, "daprd")

composeTargets(target, action) ==
    IF target # "all" THEN <<target>>
    ELSE IF action = "stop" THEN <<"app", "daprd">> ELSE <<"daprd", "app">>

RecordStop(E, k, in) ==
    LET old == IF k \in DOMAIN E THEN E[k].procs ELSE <<>>
        procs == [t \in {t \in Targets : in.pid[t] # 0} \union DOMAIN old |->
                     IF in.pid[t] # 0 THEN in.pid[t] ELSE old[t]]
    IN  [x \in DOMAIN E \union {k} |->
            IF x = k THEN [instance |-> in, procs |-> procs] ELSE E[x]]

done(o, status) == [o EXCEPT !.status = status, !.todo = <<>>, !.pid = nobody]

\* Do, up to its first signal or container.
doResolve(o, mute) ==
    LET found == Get(o.key, mute)
        in == found[1]
        run == o.key \in Runs
        todo == IF run THEN signalled(in, o.target) ELSE composeTargets(o.target, o.action)
        refused == found = <<>> \/ todo = <<>> \/ (run /\ o.action # "stop")
        record == ~refused /\ run /\ ~in.orphaned
    IN  /\ entries' = IF record THEN RecordStop(afterGet(o.key, mute), o.key, in)
                      ELSE afterGet(o.key, mute)
        /\ remembered' = IF record THEN remembered \union {o.key} ELSE remembered
        /\ late' = IF record THEN late \ {o.key} ELSE late
        /\ ops' = (ops \ {o}) \union
             {IF refused THEN done(o, "error")
              ELSE [o EXCEPT !.status = "begun", !.todo = todo, !.pid = in.pid]}
        /\ Mute(mute)
        /\ UNCHANGED <<world, starts, suppressed, scans, list, hidden, seen>>

\* The next process or container; after the last one the request has succeeded.
progress(o) ==
    ops' = (ops \ {o}) \union
        {IF Len(o.todo) = 1 THEN done(o, "ok") ELSE [o EXCEPT !.todo = Tail(@)]}
failure(o) == ops' = (ops \ {o}) \union {done(o, "error")}

\* SIGTERM, and SIGKILL after the grace.  A CLI reaps its children unless it is killed.
terminateWithEscalation(o) ==
    LET k == o.key  t == Head(o.todo)  gone == world[k][t] # o.pid[t]
    IN  /\ k \in Runs
        /\ \/ ~gone /\ progress(o)
              /\ \/ /\ world' = [world EXCEPT ![k][t] = 0]
                    /\ IF t = "all" THEN Step ELSE UNCHANGED steps
                 \/ t = "all" /\ world' = [world EXCEPT ![k] = nobody] /\ UNCHANGED steps
           \/ gone /\ failure(o) /\ UNCHANGED <<world, steps>>
           \/ ~gone /\ Step /\ failure(o) /\ UNCHANGED world
        /\ UNCHANGED <<starts, entries, suppressed, scans, list, history>>

\* A container is stopped, started or restarted by the container runtime, which may fail.
doCompose(o) ==
    LET k == o.key  t == Head(o.todo)  up == IF o.action = "stop" THEN 0 ELSE 1
    IN  /\ k \in Composes
        /\ \/ /\ progress(o)
              /\ world' = [world EXCEPT ![k][t] = up]
              /\ hidden' = IF up = 1 THEN hidden \ {k} ELSE hidden
              /\ UNCHANGED steps
           \/ Step /\ failure(o) /\ UNCHANGED <<world, hidden>>
        /\ UNCHANGED <<starts, entries, suppressed, scans, list, remembered, seen, late>>

Perform(o) ==
    /\ o.status = "begun" /\ o.kind = "do"
    /\ terminateWithEscalation(o) \/ doCompose(o)

Suppress_GhostsOnly(K, S) == S \union (K \intersect DOMAIN entries)
Suppress(K, S) == S \union K
Drop(K, E) == [k \in DOMAIN E \ K |-> E[k]]

\* K is dismissed, as the properties see it.
dismissed(K) ==
    /\ remembered' = remembered \ K
    /\ hidden' = hidden \union {k \in K : Down(k)}

\* The registry drops k and suppresses it.
dismiss(k) ==
    /\ entries' = Drop({k}, entries) /\ suppressed' = Suppress({k}, suppressed)
    /\ dismissed({k}) /\ seen' = seen \ {k} /\ late' = late \ {k} /\ overtake(scans, {k})
    /\ UNCHANGED <<world, starts, steps>>

Dismiss(o) ==
    /\ dismiss(o.key)
    /\ ops' = (ops \ {o}) \union {[o EXCEPT !.status = "ok"]}

\* K in every order.
orders(K) ==
    {q \in [1 .. Cardinality(K) -> K] : \A i, j \in DOMAIN q : q[i] = q[j] => i = j}

\* The listing s of ClearInactive goes through the overlay; what is stopped in it is still
\* to be dismissed, one instance after the other.
ClearInactive(s, request) ==
    /\ List(s)
    /\ scans' = scans \ {s}
    /\ \E q \in orders({k \in Shown(s.views) : fullyStopped(Listing(s.views)[k])}) :
          ops' = ops \union {IF q = <<>> THEN done(request, "ok")
                            ELSE [request EXCEPT !.status = "begun", !.todo = q]}
    /\ UNCHANGED <<world, starts, list, steps, remembered, hidden, seen>>

clearNext(o) ==
    /\ o.status = "begun" /\ o.kind = "clear"
    /\ dismiss(Head(o.todo)) /\ progress(o)

-----------------------------------------------------------------------------
(* The world                                                               *)

StartRun(k) ==
    /\ Down(k) /\ starts[k] < MaxPid
    /\ starts' = [starts EXCEPT ![k] = @ + 1]
    /\ world' = [world EXCEPT ![k] = [t \in Targets |-> starts[k] + 1]]
    /\ remembered' = remembered \ {k} /\ hidden' = hidden \ {k}
    /\ overtake(scans, {k})
    /\ UNCHANGED <<entries, suppressed, ops, steps, seen, late>>

\* docker start, outside the dashboard.
StartContainer(k, h) ==
    /\ world[k][h] = 0
    /\ world' = [world EXCEPT ![k][h] = 1]
    /\ hidden' = hidden \ {k}
    /\ Step /\ UNCHANGED <<starts, entries, suppressed, scans, list, ops, remembered, seen, late>>

Die(k, t) ==
    /\ world[k][t] # 0
    /\ world' = [world EXCEPT ![k][t] = 0]
    /\ Step /\ UNCHANGED <<starts, entries, suppressed, scans, list, ops, history>>

\* The CLI tears the instance down when one half is gone.
Reap(k) ==
    /\ world[k]["all"] # 0 /\ \E h \in Halves : world[k][h] = 0
    /\ world' = [world EXCEPT ![k] = [t \in Targets |-> 0]]
    /\ UNCHANGED <<starts, entries, suppressed, scans, list, ops, steps, history>>

World ==
    \/ \E k \in Runs : StartRun(k) \/ Reap(k) \/ \E t \in Targets : Die(k, t)
    \/ \E k \in Composes, h \in Halves : StartContainer(k, h) \/ Die(k, h)

Manage ==
    \E o \in ops :
        \/ o.status = "sent" /\ o.kind = "do" /\ \E mute \in SUBSET Runs : doResolve(o, mute)
        \/ o.status = "sent" /\ o.kind # "do" /\ Dismiss(o)
        \/ Perform(o) \/ clearNext(o)

InitServer ==
    /\ world = [k \in Keys |-> IF k \in Runs THEN [t \in Targets |-> 1]
                               ELSE [t \in Targets |-> IF t = "all" THEN 0 ELSE 1]]
    /\ starts = [k \in Keys |-> IF k \in Runs THEN 1 ELSE 0]
    /\ entries = <<>> /\ suppressed = {}
    /\ scans = {} /\ list = [rows |-> <<>>, older |-> Keys] /\ ops = {} /\ steps = 0
    /\ remembered = {} /\ hidden = {} /\ seen = Keys /\ late = {}

=============================================================================

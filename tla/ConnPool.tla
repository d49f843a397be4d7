------------------------------ MODULE ConnPool ------------------------------
(***************************************************************************)
(* The lazy connection cache of cmd/connpool.go: one slot per store        *)
(* identity, opened once by the first caller and shared by the others,     *)
(* removed by evict, drained by Close.                                     *)
(*                                                                         *)
(* A slot stands for one poolSlot object.  openOrGet releases p.mu around  *)
(* the open, so every critical section, every channel wait and every call  *)
(* on a store is a step of its own and the calls of different goroutines   *)
(* interleave between them.                                                *)
(***************************************************************************)
CONSTANTS
    Callers,  \* goroutines that call openOrGet, evict and Close
    Ids,      \* connection identities, the keys of the pool
    Slots,    \* poolSlot objects, each allocated at most once
    NoSlot    \* nil *poolSlot

ASSUME NoSlotAssumption == NoSlot \notin Slots

VARIABLES
    slots,      \* p.slots: the slot cached under each identity
    closed,     \* p.closed
    draining,   \* the map Close took over and is still working through
    key,        \* the identity a slot was created for; {} before it exists
    done,       \* slots whose done channel is closed
    held,       \* slots with slot.store set (and slot.err nil)
    conn,       \* the connection a slot's open returned
    pc,         \* where each caller stands in its call
    at,         \* the slot a caller works on
    displaced   \* history: slots removed from the map by another slot's open

vars == <<slots, closed, draining, key, done, held, conn, pc, at, displaced>>

SlotOrNone == Slots \cup {NoSlot}

\* The phases of the one caller that opens a slot: inside p.open, p.open failed,
\* slot dropped and about to report the error, p.open succeeded, kept by the
\* re-check, refused by it.
OpenerPhases == {"opening", "failed", "dropped", "opened", "admitted", "refused"}

Phases == OpenerPhases \cup {"idle", "waiting", "using", "evicting", "closing"}

TypeOK ==
    /\ slots \in [Ids -> SlotOrNone]
    /\ closed \in BOOLEAN
    /\ draining \in SUBSET Slots
    /\ key \in [Slots -> SUBSET Ids]
    /\ done \in SUBSET Slots
    /\ held \in SUBSET Slots
    /\ conn \in [Slots -> {"none", "open", "closed", "closedTwice"}]
    /\ pc \in [Callers -> Phases]
    /\ at \in [Callers -> SlotOrNone]
    /\ displaced \in SUBSET Slots

Init ==
    /\ slots = [i \in Ids |-> NoSlot]
    /\ closed = FALSE
    /\ draining = {}
    /\ key = [s \in Slots |-> {}]
    /\ done = {}
    /\ held = {}
    /\ conn = [s \in Slots |-> "none"]
    /\ pc = [c \in Callers |-> "idle"]
    /\ at = [c \in Callers |-> NoSlot]
    /\ displaced = {}

Cached(s) == \E i \in Ids : slots[i] = s

\* Store.Close on the connection of slot s.
Shut(s) ==
    conn' = [conn EXCEPT ![s] = IF @ = "open" THEN "closed" ELSE "closedTwice"]

\* delete(p.slots, id) for the identity of slot s, whatever slot is there now.
DeleteKeyOf(s) ==
    /\ slots' = [i \in Ids |-> IF i \in key[s] THEN NoSlot ELSE slots[i]]
    /\ displaced' = displaced \cup ({slots[i] : i \in key[s]} \ {s, NoSlot})

Goto(c, phase, s) ==
    /\ pc' = [pc EXCEPT ![c] = phase]
    /\ at' = [at EXCEPT ![c] = s]

-----------------------------------------------------------------------------
(* openOrGet                                                               *)

\* A closed pool refuses the call.
RefuseClosed(c) ==
    /\ pc[c] = "idle" /\ closed
    /\ UNCHANGED vars

\* The identity is cached or being opened: wait for its slot.
Join(c, i) ==
    /\ pc[c] = "idle" /\ ~closed
    /\ slots[i] # NoSlot
    /\ Goto(c, "waiting", slots[i])
    /\ UNCHANGED <<slots, closed, draining, key, done, held, conn, displaced>>

\* Mutant: openOrGet does not look at p.closed.
StartOpen_NoClosedCheck(c, i, s) ==
    /\ pc[c] = "idle"
    /\ slots[i] = NoSlot
    /\ key[s] = {}
    /\ slots' = [slots EXCEPT ![i] = s]
    /\ key' = [key EXCEPT ![s] = {i}]
    /\ Goto(c, "opening", s)
    /\ UNCHANGED <<closed, draining, done, held, conn, displaced>>

\* Nobody has the identity: insert a new slot and start the open.
StartOpen(c, i, s) ==
    /\ pc[c] = "idle" /\ ~closed
    /\ slots[i] = NoSlot
    /\ key[s] = {}
    /\ slots' = [slots EXCEPT ![i] = s]
    /\ key' = [key EXCEPT ![s] = {i}]
    /\ Goto(c, "opening", s)
    /\ UNCHANGED <<closed, draining, done, held, conn, displaced>>

OpenFails(c) ==
    /\ pc[c] = "opening"
    /\ Goto(c, "failed", at[c])
    /\ UNCHANGED <<slots, closed, draining, key, done, held, conn, displaced>>

OpenSucceeds(c) ==
    /\ pc[c] = "opening"
    /\ conn' = [conn EXCEPT ![at[c]] = "open"]
    /\ Goto(c, "opened", at[c])
    /\ UNCHANGED <<slots, closed, draining, key, done, held, displaced>>

\* Mutant: a failure is cached.
DropFailed_Caches(c) ==
    /\ pc[c] = "failed"
    /\ Goto(c, "dropped", at[c])
    /\ UNCHANGED <<slots, closed, draining, key, done, held, conn, displaced>>

\* The error path: failures are not cached.
DropFailed(c) ==
    /\ pc[c] = "failed"
    /\ DeleteKeyOf(at[c])
    /\ Goto(c, "dropped", at[c])
    /\ UNCHANGED <<closed, draining, key, done, held, conn>>

\* The re-check after the open found the slot still current.
Admit(c) ==
    /\ pc[c] = "opened"
    /\ ~closed /\ Cached(at[c])
    /\ Goto(c, "admitted", at[c])
    /\ UNCHANGED <<slots, closed, draining, key, done, held, conn, displaced>>

\* The re-check found the pool closed or the slot gone or replaced.
Refuse(c) ==
    /\ pc[c] = "opened"
    /\ closed \/ ~Cached(at[c])
    /\ DeleteKeyOf(at[c])
    /\ Goto(c, "refused", at[c])
    /\ UNCHANGED <<closed, draining, key, done, held, conn>>

\* Mutant: the refused connection is forgotten.
CloseRefused_Forgets(c) ==
    /\ pc[c] = "refused"
    /\ Goto(c, "dropped", at[c])
    /\ UNCHANGED <<slots, closed, draining, key, done, held, conn, displaced>>

CloseRefused(c) ==
    /\ pc[c] = "refused"
    /\ Shut(at[c])
    /\ Goto(c, "dropped", at[c])
    /\ UNCHANGED <<slots, closed, draining, key, done, held, displaced>>

\* Mutant: the error path does not close done.
ReportError_NoDone(c) ==
    /\ pc[c] = "dropped"
    /\ Goto(c, "idle", NoSlot)
    /\ UNCHANGED <<slots, closed, draining, key, done, held, conn, displaced>>

\* slot.err is set and done closed; the opener returns the error.
ReportError(c) ==
    /\ pc[c] = "dropped"
    /\ done' = done \cup {at[c]}
    /\ Goto(c, "idle", NoSlot)
    /\ UNCHANGED <<slots, closed, draining, key, held, conn, displaced>>

\* slot.store and slot.entry are set and done closed; the opener returns the entry.
Publish(c) ==
    /\ pc[c] = "admitted"
    /\ held' = held \cup {at[c]}
    /\ done' = done \cup {at[c]}
    /\ Goto(c, "using", at[c])
    /\ UNCHANGED <<slots, closed, draining, key, conn, displaced>>

\* <-slot.done returns: the waiter gets the entry, or the opener's error.
Wake(c) ==
    /\ pc[c] = "waiting" /\ at[c] \in done
    /\ IF at[c] \in held THEN Goto(c, "using", at[c]) ELSE Goto(c, "idle", NoSlot)
    /\ UNCHANGED <<slots, closed, draining, key, done, held, conn, displaced>>

\* The caller (a request, the pre-warm) is finished with the entry.
Release(c) ==
    /\ pc[c] = "using"
    /\ Goto(c, "idle", NoSlot)
    /\ UNCHANGED <<slots, closed, draining, key, done, held, conn, displaced>>

-----------------------------------------------------------------------------
(* evict                                                                   *)

EvictAbsent(c, i) ==
    /\ pc[c] = "idle" /\ slots[i] = NoSlot
    /\ UNCHANGED vars

\* Mutant: evict leaves the slot in the map while it waits for it.
Evict_KeepsSlot(c, i) ==
    /\ pc[c] = "idle" /\ slots[i] # NoSlot
    /\ Goto(c, "evicting", slots[i])
    /\ UNCHANGED <<slots, closed, draining, key, done, held, conn, displaced>>

Evict(c, i) ==
    /\ pc[c] = "idle" /\ slots[i] # NoSlot
    /\ slots' = [slots EXCEPT ![i] = NoSlot]
    /\ Goto(c, "evicting", slots[i])
    /\ UNCHANGED <<closed, draining, key, done, held, conn, displaced>>

FinishEvict(c) ==
    /\ pc[c] = "evicting" /\ at[c] \in done
    /\ IF at[c] \in held THEN Shut(at[c]) ELSE UNCHANGED conn
    /\ Goto(c, "idle", NoSlot)
    /\ UNCHANGED <<slots, closed, draining, key, done, held, displaced>>

-----------------------------------------------------------------------------
(* Close                                                                   *)

\* A second Close returns at once.
CloseAgain(c) ==
    /\ pc[c] = "idle" /\ closed
    /\ UNCHANGED vars

\* Mutants: Close takes over slots that are not there, leaves the map as it is, or
\* skips what is still being opened.
StartClose_NilSlots(c) ==
    /\ pc[c] = "idle" /\ ~closed
    /\ closed' = TRUE
    /\ draining' = {slots[i] : i \in Ids}
    /\ slots' = [i \in Ids |-> NoSlot]
    /\ Goto(c, "closing", NoSlot)
    /\ UNCHANGED <<key, done, held, conn, displaced>>

StartClose_KeepsMap(c) ==
    /\ pc[c] = "idle" /\ ~closed
    /\ closed' = TRUE
    /\ draining' = {s \in Slots : Cached(s)}
    /\ Goto(c, "closing", NoSlot)
    /\ UNCHANGED <<slots, key, done, held, conn, displaced>>

StartClose_SkipsOpening(c) ==
    /\ pc[c] = "idle" /\ ~closed
    /\ closed' = TRUE
    /\ draining' = {s \in done : Cached(s)}
    /\ slots' = [i \in Ids |-> NoSlot]
    /\ Goto(c, "closing", NoSlot)
    /\ UNCHANGED <<key, done, held, conn, displaced>>

StartClose(c) ==
    /\ pc[c] = "idle" /\ ~closed
    /\ closed' = TRUE
    /\ draining' = {s \in Slots : Cached(s)}
    /\ slots' = [i \in Ids |-> NoSlot]
    /\ Goto(c, "closing", NoSlot)
    /\ UNCHANGED <<key, done, held, conn, displaced>>

\* for _, slot := range slots: the order of a Go map range is arbitrary.
PickToClose(c, s) ==
    /\ pc[c] = "closing" /\ at[c] = NoSlot
    /\ s \in draining
    /\ Goto(c, "closing", s)
    /\ UNCHANGED <<slots, closed, draining, key, done, held, conn, displaced>>

CloseSlot(c) ==
    /\ pc[c] = "closing" /\ at[c] \in done
    /\ IF at[c] \in held THEN Shut(at[c]) ELSE UNCHANGED conn
    /\ draining' = draining \ {at[c]}
    /\ Goto(c, "closing", NoSlot)
    /\ UNCHANGED <<slots, closed, key, done, held, displaced>>

FinishClose(c) ==
    /\ pc[c] = "closing" /\ at[c] = NoSlot /\ draining = {}
    /\ Goto(c, "idle", NoSlot)
    /\ UNCHANGED <<slots, closed, draining, key, done, held, conn, displaced>>

-----------------------------------------------------------------------------
\* The steps a started call takes by itself.
Advance(c) ==
    \/ OpenFails(c) \/ OpenSucceeds(c) \/ DropFailed(c)
    \/ Admit(c) \/ Refuse(c) \/ CloseRefused(c)
    \/ ReportError(c) \/ Publish(c) \/ Wake(c)
    \/ FinishEvict(c)
    \/ \E s \in Slots : PickToClose(c, s)
    \/ CloseSlot(c) \/ FinishClose(c)

\* A caller starts a call, or is finished with an entry.
Request(c) ==
    \/ RefuseClosed(c) \/ CloseAgain(c) \/ StartClose(c) \/ Release(c)
    \/ \E i \in Ids : Join(c, i) \/ Evict(c, i) \/ EvictAbsent(c, i)
    \/ \E i \in Ids, s \in Slots : StartOpen(c, i, s)

Next == \E c \in Callers : Advance(c) \/ Request(c)

Spec == Init /\ [][Next]_vars

\* A goroutine that can run does run: the open is bounded by connectTimeout (every
\* caller passes a context with that deadline), nothing waits with p.mu locked.
Fairness == \A c \in Callers : WF_vars(Advance(c))

FairSpec == Spec /\ Fairness

-----------------------------------------------------------------------------
(* Safety                                                                  *)

InFlight(s) == \E c \in Callers : at[c] = s /\ pc[c] \in {"opened", "admitted", "refused"}

Claimed(s) == s \in draining \/ \E c \in Callers : pc[c] = "evicting" /\ at[c] = s

\* An open connection is reachable: some call will still publish or close it, the
\* map has it for evict and Close, or one of them has already taken it out to
\* close it.  The comments of Fix 1 and Fix 3 promise this ("to avoid a connection
\* leak") and so does Close ("closes every cached connection").
NoLeak ==
    \A s \in Slots : conn[s] = "open" => InFlight(s) \/ Cached(s) \/ Claimed(s)

\* The only way to lose a connection is that another slot's open removed its slot
\* from the map by the unguarded delete(p.slots, id) of openOrGet's error path or
\* of its re-check.
LeakOnlyWhenDisplaced ==
    \A s \in Slots \ displaced :
        conn[s] = "open" => InFlight(s) \/ Cached(s) \/ Claimed(s)

\* openOrGet's fast path never hands out a failed or closed connection: a finished
\* slot that the map still holds has its store, and the store is open.
CachedIsUsable ==
    \A i \in Ids : slots[i] \in done => slots[i] \in held /\ conn[slots[i]] = "open"

\* No Close is called twice on a store, whichever of the opener, evict and Close
\* gets to it.
ClosedOnce == \A s \in Slots : conn[s] # "closedTwice"

\* A closed pool caches nothing, so nothing is left that Close has not seen.
NothingCachedAfterClose == closed => \A i \in Ids : slots[i] = NoSlot

-----------------------------------------------------------------------------
(* Refinement                                                              *)

\* An identity is served by the slot the map has for it once that is published.
Serving(i) == IF slots[i] \in held THEN slots[i] ELSE NoSlot

Stage(s) ==
    IF conn[s] = "open" THEN IF s \in held THEN "published" ELSE "opened" ELSE conn[s]

Promise == INSTANCE ConnPoolSpec WITH
    serving <- [i \in Ids |-> Serving(i)],
    stage   <- [s \in Slots |-> Stage(s)]

\* Whatever the goroutines interleave, callers see the pool ConnPoolSpec describes:
\* one connection at a time per identity, opened, published and closed once each,
\* and never closed by evict, Close or a refused open while it is being served.
KeepsPromise == Promise!Spec

-----------------------------------------------------------------------------
(* Liveness                                                                *)

\* Every openOrGet, evict and Close returns, however they overlap: nobody waits on
\* a done channel that is never closed.
CallsReturn == \A c \in Callers : pc[c] \notin {"idle", "using"} ~> pc[c] \in {"idle", "using"}

\* After Close every connection that was not displaced gets closed, those being
\* opened at that moment included.
CloseDrains == \A s \in Slots : closed ~> (conn[s] # "open" \/ s \in displaced)

=============================================================================

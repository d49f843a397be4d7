---------------------------- MODULE ConnRegistry ----------------------------
(***************************************************************************)
(* The connection registry of cmd/registry.go: entries in memory under     *)
(* r.mu, saved by writing a temporary file and renaming it over            *)
(* connections.yaml.  A mutator changes memory first and holds r.mu until  *)
(* its save is over; the process may be killed at any point and started    *)
(* again.                                                                  *)
(***************************************************************************)
EXTENDS RegistryOps

CONSTANTS OldFiles  \* what an earlier version may have left on disk

\* Every version rejects duplicate names and dismisses detected entries only.
ASSUME OldFilesAssumption ==
    \A file \in OldFiles :
        /\ Backfilled(file) \subseteq ConnEntry
        /\ WellFormed(Backfilled(file))
        /\ \A e \in Backfilled(file) : e.dismissed => e.source = "auto"

VARIABLES
    up,        \* the process is running
    entries,   \* r.entries
    disk,      \* the content of connections.yaml
    save,      \* "none", or how far the save of the running mutator is
    tmp,       \* the content of its temporary file, {} if there is none
    acked,     \* the last call returned nil
    failed,    \* history: a save failed and none succeeded since
    blind,     \* history: the file could not be read at start
    edited,    \* history: ids Update and Delete changed since start
    restored   \* history: ids Undismiss brought back since start

vars == <<up, entries, disk, save, tmp, acked, failed, blind, edited, restored>>

TypeOK ==
    /\ up \in BOOLEAN /\ acked \in BOOLEAN /\ failed \in BOOLEAN /\ blind \in BOOLEAN
    /\ entries \in SUBSET ConnEntry
    /\ disk \in OldFiles \cup SUBSET ConnEntry
    /\ save \in {"none", "started", "written"}
    /\ tmp \in SUBSET ConnEntry
    /\ edited \in SUBSET Ids /\ restored \in SUBSET Ids

Init ==
    /\ up = FALSE /\ entries = {}
    /\ disk \in OldFiles
    /\ save = "none" /\ tmp = {}
    /\ acked = FALSE /\ failed = FALSE /\ blind = FALSE
    /\ edited = {} /\ restored = {}

\* LoadRegistry.  A file that cannot be read or parsed yields an empty registry.
Start ==
    /\ ~up /\ up' = TRUE
    /\ \/ entries' = Backfilled(disk) /\ blind' = FALSE
       \/ entries' = {} /\ blind' = TRUE
    /\ save' = "none" /\ tmp' = {}
    /\ acked' = FALSE /\ failed' = FALSE /\ edited' = {} /\ restored' = {}
    /\ UNCHANGED disk

Crash ==
    /\ up /\ up' = FALSE
    /\ entries' = {} /\ save' = "none" /\ tmp' = {}
    /\ acked' = FALSE /\ failed' = FALSE
    /\ UNCHANGED <<disk, blind, edited, restored>>

Idle == up /\ save = "none"

\* A mutator that goes on to save, and one that returns without saving.
Mutate(E) ==
    /\ entries' = E
    /\ save' = "started"
    /\ acked' = FALSE
    /\ UNCHANGED <<up, disk, tmp, failed, blind>>

Return(ok) ==
    /\ acked' = ok
    /\ UNCHANGED <<up, entries, disk, save, tmp, failed, blind>>

UpsertAuto(p, n, v) ==
    /\ Idle
    /\ LET E == Upserted(entries, p, n, v)
       IN  IF E = entries THEN Return(TRUE) ELSE Mutate(E)
    /\ UNCHANGED <<edited, restored>>

\* AddStore and UpdateStore give no path.
Add(n, v) ==
    /\ Idle
    /\ IF ManualNamed(entries, n) # {} THEN Return(FALSE) ELSE Mutate(Added(entries, n, NoPath, v))
    /\ UNCHANGED <<edited, restored>>

Update(id, n, v) ==
    /\ Idle
    /\ IF Updatable(entries, id) = {} \/ RenameClash(entries, id, n)
       THEN Return(FALSE) /\ UNCHANGED edited
       ELSE Mutate(Updated(entries, id, n, NoPath, v)) /\ edited' = edited \cup {id}
    /\ UNCHANGED restored

\* Mutant: a tombstone is not saved.
Delete_NoSave(id) ==
    /\ Idle
    /\ entries' = Deleted(entries, id) /\ edited' = edited \cup {id}
    /\ acked' = TRUE
    /\ UNCHANGED <<up, disk, save, tmp, failed, blind, restored>>

Delete(id) ==
    /\ Idle
    /\ IF \A e \in entries : e.id # id
       THEN Return(TRUE) /\ UNCHANGED edited
       ELSE Mutate(Deleted(entries, id)) /\ edited' = edited \cup {id}
    /\ UNCHANGED restored

Undismiss(p) ==
    /\ Idle
    /\ IF Dismissed(entries, p) = {}
       THEN Return(TRUE) /\ UNCHANGED restored
       ELSE Mutate(Undismissed(entries, p)) /\ restored' = restored \cup {AutoId(p)}
    /\ UNCHANGED edited

-----------------------------------------------------------------------------
(* save                                                                    *)

WriteTemp ==
    /\ save = "started"
    /\ tmp' = entries /\ save' = "written"
    /\ UNCHANGED <<up, entries, disk, acked, failed, blind, edited, restored>>

Rename ==
    /\ save = "written"
    /\ disk' = tmp /\ tmp' = {} /\ save' = "none"
    /\ acked' = TRUE /\ failed' = FALSE
    /\ UNCHANGED <<up, entries, blind, edited, restored>>

\* MkdirAll, CreateTemp, Chmod, Write, Close or Rename fails: the temporary file is
\* removed and the mutator returns the error.  Memory keeps the change.
SaveFails ==
    /\ save \in {"started", "written"}
    /\ tmp' = {} /\ save' = "none"
    /\ acked' = FALSE /\ failed' = TRUE
    /\ UNCHANGED <<up, entries, disk, blind, edited, restored>>

Next ==
    \/ Start \/ Crash
    \/ \E p \in Paths, n \in Names, v \in Values : UpsertAuto(p, n, v)
    \/ \E n \in Names, v \in Values : Add(n, v)
    \/ \E id \in Ids, n \in Names, v \in Values : Update(id, n, v)
    \/ \E id \in Ids : Delete(id)
    \/ \E p \in Paths : Undismiss(p)
    \/ WriteTemp \/ Rename \/ SaveFails

Spec == Init /\ [][Next]_vars

-----------------------------------------------------------------------------
(* Properties                                                              *)

\* Ids address entries one to one in memory and in the file, ids backfilled into an
\* older file included: ServiceFor, Update and Delete pick the first match.
UniqueIds ==
    /\ WellFormed(entries)
    /\ WellFormed(Backfilled(disk))

\* The file lags behind memory only while a save runs or after one has failed.
DirtyOnlyAfterFailure ==
    Idle /\ ~failed /\ ~blind => Backfilled(disk) = entries

\* A manual connection leaves the file only because the user deleted or edited it,
\* whatever discovery upserts and wherever the process is killed.  (A file that
\* could not be read at start is overwritten by the next save.)
ManualSurvives ==
    [][\A e \in Backfilled(disk) :
          e.source = "manual" /\ e \notin Backfilled(disk') => blind \/ e.id \in edited]_vars

\* A tombstone on disk stays until Undismiss is called for its path, across
\* rediscovery and restarts ("a durable tombstone: UpsertAuto preserves the flag").
TombstoneDurable ==
    [][\A e \in Backfilled(disk) : e.dismissed =>
          \/ \E f \in Backfilled(disk') : f.id = e.id /\ f.dismissed
          \/ blind \/ e.id \in restored]_vars

\* "All mutators persist under a mutex": a call that returned nil left the file
\* equal to memory.
AckedOnDisk == Idle /\ acked /\ ~blind => Backfilled(disk) = entries

=============================================================================

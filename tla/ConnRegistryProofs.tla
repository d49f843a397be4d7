------------------------- MODULE ConnRegistryProofs -------------------------
(***************************************************************************)
(* The theorems of ConnRegistry, for any paths, names, values and files an *)
(* older version may have left.  Inv relates the three copies of the       *)
(* entries: memory, the temporary file and connections.yaml.               *)
(***************************************************************************)
EXTENDS ConnRegistry, RegistryOpsProofs

\* The temporary file, once written, is what memory holds.
TmpIsMemory == save = "written" => tmp = entries

\* A manual connection of the file is in memory unless it was edited or deleted.
ManualKept ==
    up => \A e \in Backfilled(disk) :
        e.source = "manual" /\ e \notin entries => blind \/ e.id \in edited

\* A tombstone of the file is in memory unless it was undismissed.
TombstoneKept ==
    up => \A e \in Backfilled(disk) : e.dismissed =>
        \/ \E f \in entries : f.id = e.id /\ f.dismissed
        \/ blind \/ e.id \in restored

Inv ==
    /\ TypeOK
    /\ Sound(entries) /\ Sound(Backfilled(disk))
    /\ save # "none" => up
    /\ TmpIsMemory /\ DirtyOnlyAfterFailure
    /\ ManualKept /\ TombstoneKept

-----------------------------------------------------------------------------
(* Inv is inductive.                                                       *)

\* Nothing runs yet and the file is one an older version left.
LEMMA InitInv == Init => Inv
<1>. SUFFICES ASSUME Init PROVE Inv
  OBVIOUS
<1>1. Backfilled({}) = {}
  BY DEF Backfilled
<1>. QED BY <1>1, OldFilesAssumption
     DEF Init, Inv, TypeOK, Sound, WellFormed, TmpIsMemory, DirtyOnlyAfterFailure, Idle,
         ManualKept, TombstoneKept

\* A mutator that goes on to save keeps Inv if it accounts for the entries and the
\* tombstones that are gone.
LEMMA MutateKeeps ==
  ASSUME Inv, Idle, NEW F, Mutate(F), Sound(F),
         edited \subseteq edited', edited' \subseteq Ids,
         restored \subseteq restored', restored' \subseteq Ids,
         \A e \in entries : e.source = "manual" => e \in F \/ e.id \in edited',
         \A e \in entries : e.dismissed =>
             e.id \in restored' \/ \E f \in F : f.id = e.id /\ f.dismissed
  PROVE  Inv'
<1>1. /\ entries' = F /\ save' = "started" /\ acked' = FALSE
      /\ UNCHANGED <<up, disk, tmp, failed, blind>>
  BY DEF Mutate
<1>2. TypeOK' /\ Sound(entries)' /\ Sound(Backfilled(disk))'
  BY <1>1 DEF Inv, TypeOK, Sound
<1>3. (save # "none" => up)' /\ TmpIsMemory' /\ DirtyOnlyAfterFailure'
  BY <1>1 DEF Inv, Idle, TmpIsMemory, DirtyOnlyAfterFailure
<1>4. ManualKept'
  BY <1>1 DEF Inv, ManualKept
<1>5. TombstoneKept'
  BY <1>1 DEF Inv, TombstoneKept
<1>. QED BY <1>2, <1>3, <1>4, <1>5 DEF Inv

\* A mutator with nothing to do keeps Inv.
LEMMA ReturnKeeps ==
  ASSUME Inv, NEW ok \in BOOLEAN, Return(ok), UNCHANGED <<edited, restored>>
  PROVE  Inv'
BY DEF Return, Inv, TypeOK, Sound, WellFormed, TmpIsMemory, DirtyOnlyAfterFailure, Idle,
       ManualKept, TombstoneKept

\* Rediscovery keeps manual entries and tombstones.
LEMMA UpsertAutoKeeps ==
  ASSUME Inv, NEW p \in Paths, NEW n \in Names, NEW v \in Values, UpsertAuto(p, n, v)
  PROVE  Inv'
<1>. DEFINE F == Upserted(entries, p, n, v)
<1>1. CASE F = entries
  BY <1>1, ReturnKeeps DEF UpsertAuto
<1>2. CASE F # entries
  <2>1. Idle /\ Mutate(F) /\ UNCHANGED <<edited, restored>>
    BY <1>2 DEF UpsertAuto
  <2>2. /\ Sound(F)
        /\ \A e \in entries : e.source = "manual" => e \in F
        /\ \A e \in entries : e.dismissed => \E f \in F : f.id = e.id /\ f.dismissed
    BY UpsertedSound DEF Inv
  <2>. HIDE DEF F
  <2>. QED BY <2>1, <2>2, MutateKeeps DEF Inv, TypeOK
<1>. QED BY <1>1, <1>2

\* An added entry has a name of its own.
LEMMA AddKeeps ==
  ASSUME Inv, NEW n \in Names, NEW v \in Values, Add(n, v)
  PROVE  Inv'
<1>. DEFINE F == Added(entries, n, NoPath, v)
<1>1. CASE ManualNamed(entries, n) # {}
  BY <1>1, ReturnKeeps DEF Add
<1>2. CASE ManualNamed(entries, n) = {}
  <2>1. Idle /\ Mutate(F) /\ UNCHANGED <<edited, restored>>
    BY <1>2 DEF Add
  <2>2. Sound(F) /\ entries \subseteq F
    BY <1>2, AddedSound DEF Inv
  <2>. HIDE DEF F
  <2>. QED BY <2>1, <2>2, MutateKeeps DEF Inv, TypeOK
<1>. QED BY <1>1, <1>2

\* Update replaces the one entry it edits.
LEMMA UpdateKeeps ==
  ASSUME Inv, NEW id \in Ids, NEW n \in Names, NEW v \in Values, Update(id, n, v)
  PROVE  Inv'
<1>. DEFINE F == Updated(entries, id, n, NoPath, v)
            refused == Updatable(entries, id) = {} \/ RenameClash(entries, id, n)
<1>1. CASE refused
  BY <1>1, ReturnKeeps DEF Update
<1>2. CASE ~refused
  <2>1. Idle /\ Mutate(F) /\ edited' = edited \cup {id} /\ UNCHANGED restored
    BY <1>2 DEF Update
  <2>2. /\ Sound(F)
        /\ \A e \in entries : e \in F \/ (e.source = "manual" /\ e.id = id)
    BY <1>2, UpdatedSound DEF Inv, Updatable
  <2>3. \A e \in entries : e.dismissed => e \in F
    BY <2>2 DEF Inv, Sound
  <2>. HIDE DEF F
  <2>. QED BY <2>1, <2>2, <2>3, MutateKeeps DEF Inv, TypeOK
<1>. QED BY <1>1, <1>2

\* Delete removes manual entries of its id only, and no tombstone.
LEMMA DeleteKeeps ==
  ASSUME Inv, NEW id \in Ids, Delete(id)
  PROVE  Inv'
<1>. DEFINE F == Deleted(entries, id)
<1>1. CASE \A e \in entries : e.id # id
  BY <1>1, ReturnKeeps DEF Delete
<1>2. CASE ~ \A e \in entries : e.id # id
  <2>1. Idle /\ Mutate(F) /\ edited' = edited \cup {id} /\ UNCHANGED restored
    BY <1>2 DEF Delete
  <2>2. /\ Sound(F)
        /\ \A e \in entries : e.source = "manual" => e.id = id \/ e \in F
        /\ \A e \in entries : e.dismissed => \E f \in F : f.id = e.id /\ f.dismissed
    BY DeletedSound DEF Inv
  <2>. HIDE DEF F
  <2>. QED BY <2>1, <2>2, MutateKeeps DEF Inv, TypeOK
<1>. QED BY <1>1, <1>2

\* Undismiss clears the tombstone of its path only.
LEMMA UndismissKeeps ==
  ASSUME Inv, NEW p \in Paths, Undismiss(p)
  PROVE  Inv'
<1>. DEFINE F == Undismissed(entries, p)
<1>1. CASE Dismissed(entries, p) = {}
  BY <1>1, ReturnKeeps DEF Undismiss
<1>2. CASE Dismissed(entries, p) # {}
  <2>1. /\ Idle /\ Mutate(F) /\ UNCHANGED edited
        /\ restored' = restored \cup {AutoId(p)}
    BY <1>2 DEF Undismiss
  <2>2. /\ Sound(F)
        /\ \A e \in entries : e.source = "manual" => e \in F
        /\ \A e \in entries : e.dismissed => e.id = AutoId(p) \/ e \in F
    BY UndismissedSound DEF Inv
  <2>3. AutoId(p) \in Ids
    BY DEF Ids, AllPaths
  <2>. HIDE DEF F
  <2>. QED BY <2>1, <2>2, <2>3, MutateKeeps DEF Inv, TypeOK
<1>. QED BY <1>1, <1>2

\* A start takes over the file as it is, or is blind to it.
LEMMA StartKeeps ==
  ASSUME Inv, Start
  PROVE  Inv'
<1>1. /\ up' = TRUE /\ save' = "none" /\ tmp' = {} /\ acked' = FALSE /\ failed' = FALSE
      /\ edited' = {} /\ restored' = {} /\ disk' = disk
      /\ \/ entries' = Backfilled(disk) /\ blind' = FALSE
         \/ entries' = {} /\ blind' = TRUE
  BY DEF Start
<1>2. Sound({})
  BY DEF Sound, WellFormed
<1>3. Sound(entries)' /\ Sound(Backfilled(disk))'
  BY <1>1, <1>2 DEF Inv, Sound
<1>4. TypeOK'
  BY <1>1, <1>3 DEF Inv, TypeOK, Sound
<1>. QED BY <1>1, <1>3, <1>4
     DEF Inv, TmpIsMemory, DirtyOnlyAfterFailure, Idle, ManualKept, TombstoneKept

\* Kills and the steps of a save other than the rename leave the file alone.
LEMMA CrashKeeps ==
  ASSUME Inv, Crash
  PROVE  Inv'
BY DEF Crash, Inv, TypeOK, Sound, WellFormed, TmpIsMemory, DirtyOnlyAfterFailure, Idle,
       ManualKept, TombstoneKept

\* The temporary file gets what memory holds.
LEMMA WriteTempKeeps ==
  ASSUME Inv, WriteTemp
  PROVE  Inv'
BY DEF WriteTemp, Inv, TypeOK, Sound, WellFormed, TmpIsMemory, DirtyOnlyAfterFailure, Idle,
       ManualKept, TombstoneKept

\* A failed save leaves the file behind memory, and says so.
LEMMA SaveFailsKeeps ==
  ASSUME Inv, SaveFails
  PROVE  Inv'
BY DEF SaveFails, Inv, TypeOK, Sound, WellFormed, TmpIsMemory, DirtyOnlyAfterFailure, Idle,
       ManualKept, TombstoneKept

\* The rename makes the file what memory holds.
LEMMA RenameKeeps ==
  ASSUME Inv, Rename
  PROVE  Inv'
<1>1. /\ disk' = entries /\ tmp' = {} /\ save' = "none" /\ acked' = TRUE /\ failed' = FALSE
      /\ UNCHANGED <<up, entries, blind, edited, restored>>
  BY DEF Inv, Rename, TmpIsMemory
<1>2. Backfilled(entries) = entries
  BY NothingToBackfill DEF Inv, Sound
<1>3. Backfilled(disk)' = entries /\ entries' = entries
  BY <1>1, <1>2
<1>4. Sound(entries)' /\ Sound(Backfilled(disk))'
  BY <1>3 DEF Inv
<1>5. TypeOK'
  BY <1>1 DEF Inv, TypeOK
<1>. QED BY <1>1, <1>3, <1>4, <1>5
     DEF Inv, TmpIsMemory, DirtyOnlyAfterFailure, Idle, ManualKept, TombstoneKept

\* Every step keeps Inv.
LEMMA NextInv == Inv /\ [Next]_vars => Inv'
<1>. SUFFICES ASSUME Inv, [Next]_vars PROVE Inv'
  OBVIOUS
<1>1. CASE UNCHANGED vars
  BY <1>1 DEF vars, Inv, TypeOK, Sound, WellFormed, TmpIsMemory, DirtyOnlyAfterFailure,
              Idle, ManualKept, TombstoneKept
<1>2. CASE Next
  BY <1>2, UpsertAutoKeeps, AddKeeps, UpdateKeeps, DeleteKeeps, UndismissKeeps, StartKeeps,
     CrashKeeps, WriteTempKeeps, SaveFailsKeeps, RenameKeeps DEF Next
<1>. QED BY <1>1, <1>2

-----------------------------------------------------------------------------
(* The theorems                                                            *)

\* Inv holds in every state of the registry.
THEOREM Invariance == Spec => []Inv
<1>. QED BY InitInv, NextInv, PTL DEF Spec

\* Every variable keeps its type, whatever the registry is asked to store.
THEOREM TypeCorrect == Spec => []TypeOK
<1>1. Inv => TypeOK
  BY DEF Inv
<1>. QED BY <1>1, Invariance, PTL

\* Requests that name an entry by its id reach at most one, in memory and after any
\* restart.
THEOREM IdsAddress == Spec => []UniqueIds
<1>1. Inv => UniqueIds
  BY DEF Inv, UniqueIds, Sound
<1>. QED BY <1>1, Invariance, PTL

\* Between two calls the file equals memory unless a save has failed.
THEOREM FileKeepsUp == Spec => []DirtyOnlyAfterFailure
<1>1. Inv => DirtyOnlyAfterFailure
  BY DEF Inv
<1>. QED BY <1>1, Invariance, PTL

\* The file changes in the rename only, which makes it what memory holds.
LEMMA FileChanges ==
  ASSUME Inv, [Next]_vars
  PROVE  \/ disk' = disk
         \/ up /\ Backfilled(disk') = entries
<1>1. CASE Rename
  <2>1. up /\ disk' = entries
    BY <1>1 DEF Inv, Rename, TmpIsMemory
  <2>. QED BY <2>1, NothingToBackfill DEF Inv, Sound
<1>2. CASE ~Rename
  BY <1>2 DEF Next, vars, Start, Crash, UpsertAuto, Add, Update, Delete, Undismiss,
              Mutate, Return, WriteTemp, SaveFails
<1>. QED BY <1>1, <1>2

\* No upsert, failure or kill takes a manual connection out of the file.
THEOREM ManualDurable == Spec => ManualSurvives
<1>1. ASSUME Inv, [Next]_vars, NEW e \in Backfilled(disk),
             e.source = "manual", e \notin Backfilled(disk')
      PROVE  blind \/ e.id \in edited
  BY <1>1, FileChanges DEF Inv, ManualKept
<1>2. Inv /\ [Next]_vars =>
        [\A e \in Backfilled(disk) :
            e.source = "manual" /\ e \notin Backfilled(disk') => blind \/ e.id \in edited]_vars
  BY <1>1
<1>. QED BY <1>2, Invariance, PTL DEF Spec, ManualSurvives

\* No upsert, failure or kill revives a connection the user dismissed.
THEOREM TombstonesDurable == Spec => TombstoneDurable
<1>1. ASSUME Inv, [Next]_vars, NEW e \in Backfilled(disk), e.dismissed
      PROVE  \/ \E f \in Backfilled(disk') : f.id = e.id /\ f.dismissed
             \/ blind \/ e.id \in restored
  BY <1>1, FileChanges DEF Inv, TombstoneKept
<1>2. Inv /\ [Next]_vars =>
        [\A e \in Backfilled(disk) : e.dismissed =>
            \/ \E f \in Backfilled(disk') : f.id = e.id /\ f.dismissed
            \/ blind \/ e.id \in restored]_vars
  BY <1>1
<1>. QED BY <1>2, Invariance, PTL DEF Spec, TombstoneDurable

=============================================================================

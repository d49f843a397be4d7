-------------------------- MODULE RegistryOpsProofs --------------------------
(***************************************************************************)
(* What the mutators of the connection registry keep of its entries, for   *)
(* any paths, names and values.  The proofs about ConnRegistry and about   *)
(* Reconciler both rest on these facts.                                    *)
(***************************************************************************)
EXTENDS RegistryOps, TLAPS

\* What the registry may hold: addressable entries, of which only detected ones
\* are dismissed.
Sound(E) ==
    /\ E \subseteq ConnEntry
    /\ WellFormed(E)
    /\ \A e \in E : e.dismissed => e.source = "auto"

-----------------------------------------------------------------------------
(* What the mutators do to sound entries.                                  *)

\* Entries of today have ids already.
LEMMA NothingToBackfill ==
  ASSUME NEW E \in SUBSET ConnEntry
  PROVE  Backfilled(E) = E
<1>1. \A e \in E : e.id # NoId
  BY NoIdAssumption DEF ConnEntry
<1>. QED BY <1>1 DEF Backfilled

\* The entries UpsertAuto, Add and Update make are sound by themselves.
LEMMA FreshEntries ==
  ASSUME NEW p \in AllPaths, NEW n \in Names, NEW v \in Values
  PROVE  /\ AutoEntry(p, n, v) \in ConnEntry /\ AutoEntry(p, n, v).id = AutoId(p)
         /\ EntryId(AutoEntry(p, n, v)) = AutoId(p) /\ AutoEntry(p, n, v).source = "auto"
         /\ ManualEntry(n, p, v) \in ConnEntry /\ ManualEntry(n, p, v).id = ManualId(n)
         /\ EntryId(ManualEntry(n, p, v)) = ManualId(n) /\ ManualEntry(n, p, v).dismissed = FALSE
BY DEF AutoEntry, ManualEntry, ConnEntry, EntryId, Ids

\* Ids tell the two kinds of entry apart, and their keys.
LEMMA IdsDistinct ==
  /\ \A p, q : AutoId(p) = AutoId(q) <=> Norm[p] = Norm[q]
  /\ \A m, n : ManualId(m) = ManualId(n) <=> m = n
  /\ \A p, n : AutoId(p) # ManualId(n)
BY DEF AutoId, ManualId

\* The id of a sound entry is the one its key gives.
LEMMA IdOfSound ==
  ASSUME NEW E, Sound(E), NEW e \in E
  PROVE  \/ e.source = "manual" /\ e.id = ManualId(e.name)
         \/ e.source = "auto" /\ e.id = AutoId(e.path)
BY DEF Sound, WellFormed, EntryId, ConnEntry

\* A mutator may drop entries.
LEMMA FewerSound ==
  ASSUME NEW E, Sound(E), NEW F \in SUBSET E
  PROVE  Sound(F)
BY DEF Sound, WellFormed

\* A mutator may add an entry of an id that is free.
LEMMA OneMoreSound ==
  ASSUME NEW E, Sound(E), NEW x \in ConnEntry, x.id = EntryId(x),
         x.source = "auto" \/ x.dismissed = FALSE, \A e \in E : e.id # x.id
  PROVE  Sound(E \cup {x})
BY DEF Sound, WellFormed

\* UpsertAuto keeps the entries sound, the manual ones as they are, and every
\* tombstone.
LEMMA UpsertedSound ==
  ASSUME NEW E, Sound(E), NEW p \in Paths, NEW n \in Names, NEW v \in Values
  PROVE  /\ Sound(Upserted(E, p, n, v))
         /\ \A e \in E : e.source = "manual" => e \in Upserted(E, p, n, v)
         /\ \A e \in E : e.dismissed =>
               \E f \in Upserted(E, p, n, v) : f.id = e.id /\ f.dismissed
<1>. DEFINE known == AtPath(E, "auto", p)
            Refresh(e) == [AutoEntry(p, n, v) EXCEPT !.dismissed = e.dismissed]
            U == Upserted(E, p, n, v)
<1>1. CASE AtPath(E, "manual", p) # {}
  BY <1>1 DEF Upserted
<1>2. CASE AtPath(E, "manual", p) = {} /\ known = {}
  <2>1. U = E \cup {AutoEntry(p, n, v)}
    BY <1>2 DEF Upserted
  <2>2. \A e \in E : e.id # AutoId(p)
    BY <1>2, IdOfSound, IdsDistinct DEF AtPath
  <2>3. Sound(U)
    <3>1. PICK x \in ConnEntry : /\ x = AutoEntry(p, n, v) /\ x.id = AutoId(p)
                               /\ x.id = EntryId(x) /\ x.source = "auto"
      BY FreshEntries DEF AllPaths
    <3>2. Sound(E \cup {x})
      BY <2>2, <3>1, OneMoreSound
    <3>. QED BY <2>1, <3>1, <3>2
  <2>. QED BY <2>1, <2>3
<1>3. CASE AtPath(E, "manual", p) = {} /\ known # {}
  <2>0. \A e \in known : e \in E /\ e.source = "auto" /\ e.id = AutoId(p)
    BY IdOfSound, IdsDistinct DEF AtPath
  <2>1. PICK k \in E : known = {k} /\ k.source = "auto" /\ k.id = AutoId(p)
    <3>1. PICK k \in known : TRUE
      BY <1>3
    <3>2. \A e \in known : e = k
      BY <2>0, <3>1 DEF Sound, WellFormed
    <3>. QED BY <2>0, <3>1, <3>2
  <2>2. U = (E \ {k}) \cup {Refresh(k)}
    BY <1>3, <2>1 DEF Upserted
  <2>3. Refresh(k) \in ConnEntry /\ Refresh(k).id = AutoId(p) /\ Refresh(k).source = "auto"
        /\ Refresh(k).dismissed = k.dismissed /\ EntryId(Refresh(k)) = AutoId(p)
    BY <2>1 DEF Sound, ConnEntry, AutoEntry, EntryId, Ids, AllPaths
  <2>4. \A e \in E : e.id = AutoId(p) => e = k
    BY <2>1 DEF Sound, WellFormed
  <2>5. Sound(E \ {k})
    BY FewerSound
  <2>6. PICK x \in ConnEntry : /\ x = Refresh(k) /\ x.id = AutoId(p) /\ x.id = EntryId(x)
                             /\ x.source = "auto" /\ x.dismissed = k.dismissed
    BY <2>3
  <2>7. Sound((E \ {k}) \cup {x})
    BY <2>4, <2>5, <2>6, OneMoreSound
  <2>8. U = (E \ {k}) \cup {x}
    BY <2>2, <2>6
  <2>9. \A e \in E : e.dismissed => \E f \in U : f.id = e.id /\ f.dismissed
    <3>1. SUFFICES ASSUME NEW e \in E, e.dismissed
                   PROVE  \E f \in U : f.id = e.id /\ f.dismissed
      OBVIOUS
    <3>2. CASE e = k
      BY <2>1, <2>6, <2>8, <3>1, <3>2
    <3>3. CASE e # k
      BY <2>8, <3>1, <3>3
    <3>. QED BY <3>2, <3>3
  <2>. QED BY <2>1, <2>7, <2>8, <2>9
<1>. QED BY <1>1, <1>2, <1>3

\* Add keeps the entries sound and all that were there.
LEMMA AddedSound ==
  ASSUME NEW E, Sound(E), NEW n \in Names, NEW v \in Values, ManualNamed(E, n) = {}
  PROVE  /\ Sound(Added(E, n, NoPath, v))
         /\ E \subseteq Added(E, n, NoPath, v)
<1>1. \A e \in E : e.id # ManualId(n)
  BY IdOfSound, IdsDistinct DEF ManualNamed
<1>2. Sound(E \cup {ManualEntry(n, NoPath, v)})
  BY <1>1, FreshEntries, OneMoreSound DEF AllPaths
<1>. QED BY <1>2 DEF Added

\* Update keeps the entries sound, and all of them but the one it is given.
LEMMA UpdatedSound ==
  ASSUME NEW E, Sound(E), NEW id, NEW n \in Names, NEW v \in Values, ~RenameClash(E, id, n)
  PROVE  /\ Sound(Updated(E, id, n, NoPath, v))
         /\ \A e \in E : e \in Updated(E, id, n, NoPath, v) \/ e \in Updatable(E, id)
<1>1. \A e \in E \ Updatable(E, id) : e.id # ManualId(n)
  BY IdOfSound, IdsDistinct DEF RenameClash, ManualNamed
<1>2. Sound(E \ Updatable(E, id))
  BY FewerSound
<1>3. Sound((E \ Updatable(E, id)) \cup {ManualEntry(n, NoPath, v)})
  BY <1>1, <1>2, FreshEntries, OneMoreSound DEF AllPaths
<1>. QED BY <1>3 DEF Updated, Updatable

\* Delete keeps the entries sound, the manual ones of other ids and every tombstone.
LEMMA DeletedSound ==
  ASSUME NEW E, Sound(E), NEW id
  PROVE  /\ Sound(Deleted(E, id))
         /\ \A e \in E : e.source = "manual" => e.id = id \/ e \in Deleted(E, id)
         /\ \A e \in E : e.dismissed => \E f \in Deleted(E, id) : f.id = e.id /\ f.dismissed
<1>. DEFINE G(e) == IF e.id = id THEN [e EXCEPT !.dismissed = TRUE] ELSE e
            K == {x \in E : x.id = id => x.source # "manual"}
<1>1. Deleted(E, id) = {G(e) : e \in K}
  BY DEF Deleted
<1>2. \A e \in K : /\ G(e) \in ConnEntry /\ G(e).id = e.id /\ G(e).source = e.source
                   /\ EntryId(G(e)) = EntryId(e)
                   /\ G(e).dismissed => e.source = "auto"
                   /\ e.dismissed => G(e).dismissed
                   /\ e.id # id => G(e) = e
  BY DEF Sound, ConnEntry, EntryId
<1>3. \A e \in E : e.dismissed => e \in K
  BY DEF Sound
<1>. HIDE DEF G
<1>. QED BY <1>1, <1>2, <1>3 DEF Sound, WellFormed

\* Undismiss keeps the entries sound, the manual ones and all other tombstones.
LEMMA UndismissedSound ==
  ASSUME NEW E, Sound(E), NEW p \in Paths
  PROVE  /\ Sound(Undismissed(E, p))
         /\ \A e \in E : e.source = "manual" => e \in Undismissed(E, p)
         /\ \A e \in E : e.dismissed => e.id = AutoId(p) \/ e \in Undismissed(E, p)
<1>. DEFINE G(e) == [e EXCEPT !.dismissed = FALSE]
            D == Dismissed(E, p)
<1>1. Undismissed(E, p) = (E \ D) \cup {G(e) : e \in D}
  BY DEF Undismissed
<1>2. \A e \in D : /\ e \in E /\ e.source = "auto" /\ e.id = AutoId(p)
                   /\ G(e) \in ConnEntry /\ G(e).id = e.id /\ G(e).source = "auto"
                   /\ EntryId(G(e)) = EntryId(e)
  <2>1. \A e \in D : e \in E /\ e.source = "auto" /\ e.id = AutoId(p)
    BY IdOfSound, IdsDistinct DEF Dismissed, AtPath
  <2>. QED BY <2>1 DEF Sound, ConnEntry, EntryId
<1>3. E \ D \subseteq E /\ Sound(E \ D)
  BY FewerSound
<1>. HIDE DEF G
<1>4. WellFormed(Undismissed(E, p))
  BY <1>1, <1>2 DEF Sound, WellFormed
<1>5. Sound(Undismissed(E, p))
  BY <1>1, <1>2, <1>3, <1>4 DEF Sound
<1>. QED BY <1>1, <1>2, <1>5 DEF Sound

-----------------------------------------------------------------------------
(* What the mutators show and hide of a component's file.                  *)

\* The file q has an entry of its own, no manual entry uses its path, and all entries
\* of the path are dismissed.
Known(E, q) == \E e \in E : e.source = "auto" /\ Norm[e.path] = Norm[q]
Apart(E, q) == \A e \in E : e.source = "manual" => Norm[e.path] # Norm[q]
HiddenIn(E, q) == \A e \in E : Norm[e.path] = Norm[q] => e.dismissed

\* UpsertAuto registers its path and hides nothing.
LEMMA UpsertedShows ==
  ASSUME NEW E, Sound(E), NEW p \in Paths, NEW n \in Names, NEW v \in Values,
         NEW q \in Paths, Apart(E, p), Apart(E, q)
  PROVE  /\ Known(E, q) \/ Norm[p] = Norm[q] => Known(Upserted(E, p, n, v), q)
         /\ HiddenIn(Upserted(E, p, n, v), q) => HiddenIn(E, q)
         /\ Apart(Upserted(E, p, n, v), q)
<1>. DEFINE known == AtPath(E, "auto", p)
            Refresh(e) == [AutoEntry(p, n, v) EXCEPT !.dismissed = e.dismissed]
            U == Upserted(E, p, n, v)
<1>1. AtPath(E, "manual", p) = {}
  BY DEF Apart, AtPath
<1>2. \A e \in E \ known : e \in U
  BY <1>1 DEF Upserted
<1>3. \A e \in known : Refresh(e) \in U
  BY <1>1 DEF Upserted
<1>4. known = {} => AutoEntry(p, n, v) \in U
  BY <1>1 DEF Upserted
<1>5. \A e \in U : \/ e \in E
                   \/ e = AutoEntry(p, n, v)
                   \/ \E f \in known : e = Refresh(f)
  BY <1>1 DEF Upserted
<1>6. AutoEntry(p, n, v).source = "auto" /\ AutoEntry(p, n, v).path = p
  BY DEF AutoEntry
<1>7. \A e : /\ Refresh(e).source = "auto" /\ Refresh(e).path = p
             /\ Refresh(e).dismissed = e.dismissed
  BY DEF AutoEntry
<1>8. \A e \in known : e \in E /\ e.source = "auto" /\ Norm[e.path] = Norm[p]
  BY DEF AtPath
<1>. HIDE DEF known, Refresh, U
<1>9. Norm[p] = Norm[q] => Known(U, q)
  BY <1>3, <1>4, <1>6, <1>7 DEF Known
<1>10. Known(E, q) => Known(U, q)
  BY <1>2, <1>8, <1>9 DEF Known
<1>11. HiddenIn(U, q) => HiddenIn(E, q)
  BY <1>2, <1>3, <1>7, <1>8 DEF HiddenIn
<1>12. Apart(U, q)
  BY <1>5, <1>6, <1>7 DEF Apart
<1>. QED BY <1>9, <1>10, <1>11, <1>12 DEF U

\* Add and Update touch manual entries only.
LEMMA ManualShows ==
  ASSUME NEW E, NEW F, NEW n \in Names, NEW v \in Values, NEW q \in Paths, Apart(E, q),
         F \subseteq E \cup {ManualEntry(n, NoPath, v)},
         \A e \in E : e.source = "auto" => e \in F, Sound(E)
  PROVE  /\ Known(E, q) => Known(F, q)
         /\ HiddenIn(F, q) => HiddenIn(E, q)
         /\ Apart(F, q)
<1>1. /\ ManualEntry(n, NoPath, v).path = NoPath
      /\ ManualEntry(n, NoPath, v).source = "manual"
  BY DEF ManualEntry
<1>2. Norm[NoPath] # Norm[q]
  BY NormAssumption
<1>3. \A e \in E : e.source = "auto" \/ e.source = "manual"
  BY DEF Sound, ConnEntry
<1>. QED BY <1>1, <1>2, <1>3 DEF Known, HiddenIn, Apart

\* Delete hides at most the file its id names.
LEMMA DeletedShows ==
  ASSUME NEW E, Sound(E), NEW id, NEW q \in Paths, Apart(E, q)
  PROVE  /\ Known(E, q) => Known(Deleted(E, id), q)
         /\ HiddenIn(Deleted(E, id), q) =>
               \/ HiddenIn(E, q)
               \/ id = AutoId(q)
                  /\ \E e \in E : e.id = id /\ e.source = "auto" /\ Norm[e.path] = Norm[q]
         /\ Apart(Deleted(E, id), q)
<1>. DEFINE G(e) == IF e.id = id THEN [e EXCEPT !.dismissed = TRUE] ELSE e
            K == {x \in E : x.id = id => x.source # "manual"}
<1>1. Deleted(E, id) = {G(e) : e \in K}
  BY DEF Deleted
<1>2. \A e \in E : /\ G(e).path = e.path /\ G(e).source = e.source
                   /\ e.id # id => G(e) = e
                   /\ e.source = "auto" \/ e.source = "manual"
                   /\ e.source = "auto" => e.id = AutoId(e.path)
  BY IdOfSound DEF Sound, ConnEntry
<1>3. \A e \in E : e.source = "auto" => e \in K
  OBVIOUS
<1>4. K \subseteq E
  OBVIOUS
<1>. HIDE DEF G, K
<1>5. Known(E, q) => Known(Deleted(E, id), q)
  BY <1>1, <1>2, <1>3 DEF Known
<1>6. Apart(Deleted(E, id), q)
  BY <1>1, <1>2, <1>4 DEF Apart
<1>7. ASSUME HiddenIn(Deleted(E, id), q), NEW e \in E, Norm[e.path] = Norm[q], ~e.dismissed
      PROVE  id = AutoId(q) /\ e.id = id /\ e.source = "auto"
  <2>1. e.source = "auto" /\ e \in K /\ e.id = AutoId(q)
    BY <1>2, <1>3, <1>7 DEF Apart, AutoId
  <2>2. G(e) \in Deleted(E, id) /\ Norm[G(e).path] = Norm[q]
    BY <1>1, <1>2, <1>7, <2>1
  <2>3. G(e).dismissed
    BY <1>7, <2>2 DEF HiddenIn
  <2>. QED BY <1>2, <1>7, <2>1, <2>3
<1>. QED BY <1>5, <1>6, <1>7 DEF HiddenIn

\* Undismiss brings back its own path, if that has an entry, and hides nothing.
LEMMA UndismissedShows ==
  ASSUME NEW E, Sound(E), NEW p \in Paths, NEW q \in Paths, Apart(E, q)
  PROVE  /\ Known(E, q) => Known(Undismissed(E, p), q)
         /\ Known(E, q) /\ Norm[p] = Norm[q] => ~HiddenIn(Undismissed(E, p), q)
         /\ HiddenIn(Undismissed(E, p), q) => HiddenIn(E, q)
         /\ Apart(Undismissed(E, p), q)
<1>. DEFINE G(e) == [e EXCEPT !.dismissed = FALSE]
            D == Dismissed(E, p)
            U == Undismissed(E, p)
<1>1. U = (E \ D) \cup {G(e) : e \in D}
  BY DEF Undismissed
<1>2. \A e \in D : e \in E /\ e.source = "auto" /\ Norm[e.path] = Norm[p]
  BY DEF Dismissed, AtPath
<1>3. \A e \in E : /\ G(e).path = e.path /\ G(e).source = e.source /\ ~G(e).dismissed
                   /\ e.source = "auto" /\ Norm[e.path] = Norm[p] /\ e.dismissed => e \in D
  BY DEF Sound, ConnEntry, Dismissed, AtPath
<1>. HIDE DEF G, D, U
<1>4. Known(E, q) => Known(U, q)
  BY <1>1, <1>3 DEF Known
<1>5. Known(E, q) /\ Norm[p] = Norm[q] => ~HiddenIn(U, q)
  BY <1>1, <1>3 DEF Known, HiddenIn
<1>6. HiddenIn(U, q) => HiddenIn(E, q)
  BY <1>1, <1>2, <1>3 DEF HiddenIn
<1>7. Apart(U, q)
  BY <1>1, <1>2, <1>3 DEF Apart
<1>. QED BY <1>4, <1>5, <1>6, <1>7 DEF U

=============================================================================

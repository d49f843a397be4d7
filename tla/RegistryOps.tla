---------------------------- MODULE RegistryOps ----------------------------
(***************************************************************************)
(* What each mutator of the connection registry (cmd/registry.go) does to  *)
(* the list of entries.  The list is a set here: its order only decides    *)
(* how the panel lists equal entries.  A file's type and metadata are one  *)
(* value, and UpdatedAt, which only sorts the panel, is left out.          *)
(***************************************************************************)
CONSTANTS
    Paths,   \* spellings of component file paths
    NoPath,  \* the empty path of a manual entry
    Keys,    \* cleaned and case-folded paths
    Norm,    \* normPath: the comparison key of a spelling
    Names,   \* connection names
    Values,  \* type and metadata of a connection
    NoId     \* the missing id of an entry written before ids existed

AllPaths == Paths \cup {NoPath}

\* Clean("") is ".", which no detected file has.
ASSUME NormAssumption ==
    /\ NoPath \notin Paths
    /\ Norm \in [AllPaths -> Keys]
    /\ \A p \in Paths : Norm[p] # Norm[NoPath]

\* entryID: the two kinds of key never collide.
AutoId(p) == <<"auto", Norm[p]>>
ManualId(n) == <<"manual", n>>

Ids == {AutoId(p) : p \in AllPaths} \cup {ManualId(n) : n \in Names}

ASSUME NoIdAssumption == NoId \notin Ids

ConnEntry ==
    [id : Ids, source : {"auto", "manual"}, name : Names,
     path : AllPaths, value : Values, dismissed : BOOLEAN]

EntryId(e) == IF e.source = "manual" THEN ManualId(e.name) ELSE AutoId(e.path)

AutoEntry(p, n, v) ==
    [id |-> AutoId(p), source |-> "auto", name |-> n,
     path |-> p, value |-> v, dismissed |-> FALSE]

ManualEntry(n, p, v) ==
    [id |-> ManualId(n), source |-> "manual", name |-> n,
     path |-> p, value |-> v, dismissed |-> FALSE]

\* LoadRegistry: entries of older files get the id they would have today.
Backfilled(file) == {IF e.id = NoId THEN [e EXCEPT !.id = EntryId(e)] ELSE e : e \in file}

AtPath(E, source, p) == {e \in E : e.source = source /\ Norm[e.path] = Norm[p]}

ManualNamed(E, n) == {e \in E : e.source = "manual" /\ e.name = n}

\* Mutants: a detected store overrides a manual entry of its path, comes back when
\* it is detected again, or gets no id.
Upserted_OverManual(E, p, n, v) ==
    (E \ (AtPath(E, "auto", p) \cup AtPath(E, "manual", p))) \cup {AutoEntry(p, n, v)}

Upserted_Undismisses(E, p, n, v) ==
    IF AtPath(E, "manual", p) # {} THEN E
    ELSE (E \ AtPath(E, "auto", p)) \cup {AutoEntry(p, n, v)}

Upserted_NoId(E, p, n, v) ==
    IF AtPath(E, "manual", p) # {} THEN E
    ELSE (E \ AtPath(E, "auto", p)) \cup {[AutoEntry(p, n, v) EXCEPT !.id = NoId]}

\* UpsertAuto: a manual entry of the path wins, a known entry is refreshed and
\* keeps its tombstone, a new one is appended.
Upserted(E, p, n, v) ==
    LET known == AtPath(E, "auto", p)
        Refresh(e) == [AutoEntry(p, n, v) EXCEPT !.dismissed = e.dismissed]
    IN  IF AtPath(E, "manual", p) # {} THEN E
        ELSE IF known = {} THEN E \cup {AutoEntry(p, n, v)}
        ELSE (E \ known) \cup {Refresh(e) : e \in known}

\* Mutant: a manual entry gets no id.
Added_NoId(E, n, p, v) == E \cup {[ManualEntry(n, p, v) EXCEPT !.id = NoId]}

Added(E, n, p, v) == E \cup {ManualEntry(n, p, v)}

\* Update: the manual entries with this id, and those a rename would collide with.
Updatable(E, id) == {e \in E : e.source = "manual" /\ e.id = id}

\* Mutant: a rename may take the name of another connection.
RenameClash_Never(E, id, n) == FALSE

RenameClash(E, id, n) == ManualNamed(E, n) \ Updatable(E, id) # {}

Updated(E, id, n, p, v) == (E \ Updatable(E, id)) \cup {ManualEntry(n, p, v)}

\* Delete: a manual entry goes, an auto entry is dismissed.
Deleted(E, id) ==
    {IF e.id = id THEN [e EXCEPT !.dismissed = TRUE] ELSE e :
        e \in {x \in E : x.id = id => x.source # "manual"}}

Dismissed(E, p) == {e \in AtPath(E, "auto", p) : e.dismissed}

Undismissed(E, p) ==
    (E \ Dismissed(E, p)) \cup {[e EXCEPT !.dismissed = FALSE] : e \in Dismissed(E, p)}

\* Ids address entries: no two share one, and each is the id its key gives.
WellFormed(E) ==
    /\ \A e \in E : e.id = EntryId(e)
    /\ \A e, f \in E : e.id = f.id => e = f

=============================================================================

-------------------------- MODULE WorkflowService --------------------------
(***************************************************************************)
(* The workflow service of pkg/workflow as the web client sees it: paged,  *)
(* filtered listing over the metadata keys of a store, and the removal of  *)
(* an instance.                                                            *)
(*                                                                         *)
(* A store's data D maps the instances it has to their status.  A page     *)
(* token is the position of the last key scanned.  An instance whose       *)
(* history is gone but whose metadata key is left decodes to "Pending".    *)
(***************************************************************************)
EXTENDS Naturals, FiniteSets

CONSTANTS
    Instances,
    Place,      \* the order of the metadata keys
    AppOf,      \* the app of an instance
    Children,   \* instances with a parent
    Found,      \* the instances a search text matches
    NoApp, NoStatus, NoSearch,
    PageSize,
    MaxScan     \* keys a filtered listing scans at most

ASSUME ServiceAssumption ==
    /\ IsFiniteSet(Instances)
    /\ Place \in [Instances -> Nat \ {0}]
    /\ \A i, j \in Instances : Place[i] = Place[j] => i = j
    /\ Children \subseteq Instances
    /\ NoSearch \in DOMAIN Found /\ Found[NoSearch] = Instances
    /\ PageSize \in Nat \ {0} /\ MaxScan \in Nat \ {0}

Terminal == {"Completed", "Failed", "Terminated"}
Status == Terminal \cup {"Running", "Suspended", "Pending"}

FirstPage == 0

-----------------------------------------------------------------------------
(* List                                                                    *)

\* A query f has the fields app, status, search and children.
matches(D, i, f) ==
    /\ f.children \/ i \notin Children
    /\ f.status \in {NoStatus, D[i]}
    /\ i \in Found[f.search]

Filtered(f) == f.status # NoStatus \/ f.search # NoSearch \/ ~f.children

\* The metadata keys after a token, of one app or of all.
metaKeys(D, f, token) ==
    {i \in DOMAIN D : Place[i] > token /\ f.app \in {NoApp, AppOf[i]}}

Lowest(S, n) == {i \in S : Cardinality({j \in S : Place[j] < Place[i]}) < n}

\* What k key pages from the token have scanned, and the matches among it.
Scanned(D, f, token, k) == Lowest(metaKeys(D, f, token), k * PageSize)
Matched(D, f, token, k) == {i \in Scanned(D, f, token, k) : matches(D, i, f)}

\* An unfiltered listing is one key page; a filtered one goes on until the page is
\* full, the keys are exhausted or the scan cap is reached.
Enough(D, f, token, k) ==
    \/ ~Filtered(f)
    \/ Cardinality(Matched(D, f, token, k)) >= PageSize
    \/ Scanned(D, f, token, k) = metaKeys(D, f, token)
    \/ Cardinality(Scanned(D, f, token, k)) >= MaxScan

\* A page: its items and the token of the next one, FirstPage if there is none.
Page(D, f, token, k) ==
    LET scanned == Scanned(D, f, token, k)
        last    == CHOOSE i \in scanned : \A j \in scanned : Place[j] <= Place[i]
    IN  [items |-> [i \in Matched(D, f, token, k) |-> D[i]],
         next  |-> IF scanned = metaKeys(D, f, token) THEN FirstPage ELSE Place[last]]

\* Mutant: a filtered page is cut to its size although the token is past the rest.
List_Truncates(D, f, token) ==
    LET k == CHOOSE k \in 1..(Cardinality(Instances) + 1) :
                 Enough(D, f, token, k) /\ \A j \in 1..(k - 1) : ~Enough(D, f, token, j)
        p == Page(D, f, token, k)
    IN  [p EXCEPT !.items = [i \in Lowest(DOMAIN p.items, PageSize) |-> p.items[i]]]

List(D, f, token) ==
    LET k == CHOOSE k \in 1..(Cardinality(Instances) + 1) :
                 Enough(D, f, token, k) /\ \A j \in 1..(k - 1) : ~Enough(D, f, token, j)
    IN  Page(D, f, token, k)

\* Every instance a walk through the pages is to show.
Matching(D, f) ==
    {i \in DOMAIN D : matches(D, i, f) /\ f.app \in {NoApp, AppOf[i]}}

-----------------------------------------------------------------------------
(* Removal                                                                 *)

Without(D, i) == [j \in DOMAIN D \ {i} |-> D[j]]
With(D, i, s) == [j \in DOMAIN D \cup {i} |-> IF j = i THEN s ELSE D[j]]
As(D, i, s) == [D EXCEPT ![i] = s]

\* Get finds an instance that has a history.
Resolves(D, i) == i \in DOMAIN D /\ D[i] # "Pending"

SelectMechanism(status, healthy, force) ==
    IF force \/ ~healthy THEN "force"
    ELSE IF status \in Terminal THEN "purge" ELSE "terminate_then_purge"

\* What Remove may leave of D, and whether it reports success: a sidecar may refuse the
\* purge, or accept the terminate and refuse the purge; a force delete goes key by key
\* and stops at the first error.
Removals(D, i, mech) ==
    {[db |-> Without(D, i), ok |-> TRUE], [db |-> D, ok |-> FALSE]}
    \cup (IF i \in DOMAIN D /\ mech = "terminate_then_purge"
          THEN {[db |-> As(D, i, "Terminated"), ok |-> FALSE]} ELSE {})
    \cup (IF i \in DOMAIN D /\ mech = "force"
          THEN {[db |-> As(D, i, "Pending"), ok |-> FALSE],
                [db |-> Without(D, i), ok |-> FALSE]} ELSE {})

=============================================================================

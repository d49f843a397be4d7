------------------------------ MODULE Election ------------------------------
(***************************************************************************)
(* The active-store election of cmd/workflow.go and what cmd/derive.go     *)
(* derives for it from the list of apps.                                   *)
(*                                                                         *)
(* A component is one state-store document of a YAML file.  The file is    *)
(* found under the dashboard's home directory or under the resource paths  *)
(* of an app.                                                              *)
(***************************************************************************)
EXTENDS Naturals, FiniteSets

CONSTANTS
    Apps,
    Comps,     \* state-store components
    NoComp,    \* no component elected
    Pos,       \* the order Detect finds them in
    NameOf,    \* a component's name
    Actor,     \* the components with actorStateStore "true"
    Home,      \* the components under ~/.dapr/components
    Provides,  \* the components under an app's resource paths
    Loads      \* the state-store names an app's sidecar reports as loaded

ASSUME ElectionAssumption ==
    /\ IsFiniteSet(Apps)
    /\ NoComp \notin Comps
    /\ Pos \in [Comps -> Nat]
    /\ \A c, d \in Comps : Pos[c] = Pos[d] => c = d
    /\ Actor \subseteq Comps /\ Home \subseteq Comps
    /\ DOMAIN NameOf = Comps
    /\ Provides \in [Apps -> SUBSET Comps]
    /\ DOMAIN Loads = Apps

\* What discovery reports of an app: not listed, listed while its sidecar does not
\* answer yet (no components), running, or stopped (listed, no components).
Statuses == {"absent", "starting", "running", "stopped"}

World == [Apps -> Statuses]

Listed(w) == {a \in Apps : w[a] # "absent"}

\* appRunning: anything that is not reported stopped counts.
Running(w) == {a \in Listed(w) : w[a] # "stopped"}

ReportedStores(w, a) == IF w[a] = "running" THEN Loads[a] ELSE {}

\* derivePaths
Loaded(w) == UNION {ReportedStores(w, a) : a \in Running(w)}
UnderAppPaths(w) == UNION {Provides[a] : a \in Running(w)}
Detected(w) == Home \cup UNION {Provides[a] : a \in Listed(w)}

\* Mutant: what the apps have loaded is not part of the fingerprint.
Fingerprint_NoStores ==
    [w \in World |-> [ids |-> Listed(w), stores |-> {}, running |-> Running(w)]]

\* appsFingerprint: app ids (their paths go with them), the multiset of the names
\* of the stores they loaded, running ids.
Fingerprint ==
    [w \in World |->
        [ids     |-> Listed(w),
         stores  |-> [n \in UNION {Loads[a] : a \in Apps} |->
                         Cardinality({a \in Listed(w) : n \in ReportedStores(w, a)})],
         running |-> Running(w)]]

AppProvided(S, loaded, under) == {c \in S : NameOf[c] \in loaded /\ c \in under}

\* The six levels of precedence of newStoreRegistry, as sets of candidates.
Level(S, loaded, under) ==
    LET provided == AppProvided(S, loaded, under)
        named    == {c \in S : NameOf[c] \in loaded}
    IN  <<provided \cap Actor, provided, named \cap Actor, named, S \cap Actor, S>>

First(S) == CHOOSE c \in S : \A d \in S : Pos[c] <= Pos[d]

\* newStoreRegistry and active: the first component of the first level that has one.
Elect(S, loaded, under) ==
    LET L == Level(S, loaded, under)
        k == CHOOSE k \in 1..6 : L[k] # {} /\ \A j \in 1..(k - 1) : L[j] = {}
    IN  IF S = {} THEN NoComp ELSE First(L[k])

ElectedIn == [w \in World |-> Elect(Detected(w), Loaded(w), UnderAppPaths(w))]
ProvidedIn == [w \in World |-> AppProvided(Detected(w), Loaded(w), UnderAppPaths(w))]

=============================================================================

---------------------------- MODULE MCReconciler ----------------------------
(***************************************************************************)
(* Reconciler with two apps that load a store of the same name from files  *)
(* of their own beside the default of the home directory.                  *)
(***************************************************************************)
EXTENDS Reconciler, TLC

CONSTANTS a1, a2, k1, p1, p2, boot

AppsMC == {a1, a2}
CompsMC == {"home", "one", "two"}
PosMC == [home |-> 1, one |-> 2, two |-> 3]
NameOfMC == [home |-> "statestore", one |-> "statestore", two |-> "orders"]
ActorMC == {"two"}
HomeMC == {"home"}
ProvidesMC == (a1 :> {"one"}) @@ (a2 :> {"two"})
LoadsMC == (a1 :> {"statestore"}) @@ (a2 :> {"orders"})
PathsMC == {"/home.yaml", "/one.yaml", "/two.yaml"}
NormMC == [p \in PathsMC \cup {NoPath} |-> IF p = NoPath THEN "." ELSE p]
KeysMC == PathsMC \cup {"."}
PathOfMC == [home |-> "/home.yaml", one |-> "/one.yaml", two |-> "/two.yaml"]
NamesMC == {"statestore", "orders"}
TypeOfMC == [c \in CompsMC |-> "redis"]
ValuesMC == {"redis"}
\* All of them are the local redis; what tells them apart is the name.
ConnOfMC == [c \in CompsMC \cup ValuesMC |-> "localhost:6379"]

\* Only the app without an actor store runs at start.
OldWorldsMC == {[a \in AppsMC |-> IF a = a1 THEN "running" ELSE "absent"]}

\* The user disconnected two stores before the last restart.
OldEntriesMC ==
    {{[AutoEntry("/one.yaml", "statestore", "redis") EXCEPT !.dismissed = TRUE],
      [AutoEntry("/two.yaml", "orders", "redis") EXCEPT !.dismissed = TRUE]}}

=============================================================================

----------------------------- MODULE MCRequests -----------------------------
(***************************************************************************)
(* Reconciler without apps: the component of the home directory is active, *)
(* and requests add, update, delete and select manual connections.  The    *)
(* metadata v1 and v2 differ only in a secret, v3 names another host.      *)
(***************************************************************************)
EXTENDS Reconciler, TLC

CONSTANTS k1, k2, k3, boot, v1, v2, v3

AppsMC == {}
CompsMC == {"home"}
PosMC == [home |-> 1]
NameOfMC == [home |-> "statestore"]
ActorMC == {}
HomeMC == {"home"}
NoApps == <<>>
PathsMC == {"/home.yaml"}
NormMC == ("/home.yaml" :> "/home.yaml") @@ (NoPath :> ".")
KeysMC == {"/home.yaml", "."}
PathOfMC == [home |-> "/home.yaml"]
NamesMC == {"statestore", "mine"}
TypeOfMC == [home |-> v1]
ValuesMC == {v1, v2, v3}
ConnOfMC == [x \in {"home", v1, v2, v3} |->
                CASE x = "home" -> "home" [] x = v3 -> "far" [] OTHER -> "near"]
OldWorldsMC == {<<>>}

\* A first start, and one that finds a manual connection.
OldEntriesMC == {{}, {ManualEntry("mine", NoPath, v1)}}

=============================================================================

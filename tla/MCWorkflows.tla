---------------------------- MODULE MCWorkflows ----------------------------
(***************************************************************************)
(* Five instances of two apps in one store, one in another, pages of two   *)
(* rows, a scan of at most four keys; a group reached through two files.  *)
(***************************************************************************)
EXTENDS Workflows

MCPlace == [i \in Instances |-> CASE i = "a" -> 1 [] i = "b" -> 2 [] i = "c" -> 3 [] i = "d" -> 4 [] i = "e" -> 5]
MCAppOf == [i \in Instances |-> IF i \in {"a", "b", "d", "e"} THEN "shop" ELSE "mail"]
MCFound == ("any" :> Instances) @@ ("text" :> {"a", "c", "e"})
MCGroup == [s \in {"s1", "s1b", "s2"} |-> IF s = "s2" THEN "g2" ELSE "g1"]
MCLoaderOf == [s \in {"s1", "s1b", "s2"} |-> IF s = "s2" THEN "none" ELSE "shop"]
Listed(s, active) == [id |-> s, active |-> active]
MCInitStores == <<Listed("s1", FALSE), Listed("s1b", TRUE), Listed("s2", FALSE)>>
MCStoreLists == {MCInitStores, <<Listed("s1b", TRUE)>>}
MCInitDb == ("g1" :> [i \in Instances |-> IF i = "a" THEN "Completed" ELSE "Running"])
            @@ ("g2" :> [i \in {"a"} |-> "Running"])
=============================================================================

--------------------------- MODULE MCStateRecords ---------------------------
(***************************************************************************)
(* Seven keys of two prefixes, one of them the runtime's, in two stores    *)
(* that can vanish from the list; pages of two keys.                       *)
(***************************************************************************)
EXTENDS StateRecords

MCAppOf == [k \in Keys |-> IF k >= 4 THEN "mail" ELSE "shop"]
MCHits == ("any" :> Keys) @@ ("text" :> {1, 3})
MCInitList == [shown |-> {"s1", "s2"}, active |-> "s1"]
MCStoreLists == {MCInitList, [shown |-> {"s2"}, active |-> "s2"],
                 [shown |-> {}, active |-> "none"]}
MCInitDb == ("s1" :> [k \in Keys |-> "v"]) @@ ("s2" :> [k \in Keys |-> IF k = 1 THEN "v" ELSE "absent"])
=============================================================================

---------------------------- MODULE ConnPoolSpec ----------------------------
(***************************************************************************)
(* What the connection pool promises its callers, without callers, locks   *)
(* or channels: at any time an identity is served by at most one           *)
(* connection, each connection is opened once, published once, closed      *)
(* once, and never closed while it is being served.                        *)
(***************************************************************************)
CONSTANTS Ids, Slots, NoSlot

VARIABLES
    serving,  \* the connection a new caller is given, per identity
    stage,    \* how far each connection has come
    closed    \* the pool serves nothing any more

vars == <<serving, stage, closed>>

Init ==
    /\ serving = [i \in Ids |-> NoSlot]
    /\ stage = [s \in Slots |-> "none"]
    /\ closed = FALSE

Open(s) ==
    /\ stage[s] = "none"
    /\ stage' = [stage EXCEPT ![s] = "opened"]
    /\ UNCHANGED <<serving, closed>>

\* The callers that asked for it get the connection; later ones do as well unless
\* it was withdrawn in the meantime.
Publish(s) ==
    /\ stage[s] = "opened"
    /\ stage' = [stage EXCEPT ![s] = "published"]
    /\ \/ UNCHANGED serving
       \/ \E i \in Ids :
             /\ serving[i] = NoSlot /\ ~closed
             /\ serving' = [serving EXCEPT ![i] = s]
    /\ UNCHANGED closed

Withdraw(i) ==
    /\ serving' = [serving EXCEPT ![i] = NoSlot]
    /\ UNCHANGED <<stage, closed>>

Shut(s) ==
    /\ stage[s] \in {"opened", "published"}
    /\ \A i \in Ids : serving[i] # s
    /\ stage' = [stage EXCEPT ![s] = "closed"]
    /\ UNCHANGED <<serving, closed>>

Close ==
    /\ closed' = TRUE
    /\ serving' = [i \in Ids |-> NoSlot]
    /\ UNCHANGED stage

Next ==
    \/ \E s \in Slots : Open(s) \/ Publish(s) \/ Shut(s)
    \/ \E i \in Ids : Withdraw(i)
    \/ Close

Spec == Init /\ [][Next]_vars

=============================================================================

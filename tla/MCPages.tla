------------------------------ MODULE MCPages ------------------------------
(***************************************************************************)
(* Four sessions of one page each: the applications, with a `dapr run' and *)
(* a compose pair of which one stays as it is, the logs, and the           *)
(* resiliency builder.  The session is chosen at the start; what belongs   *)
(* to the other pages, which share no state with it, stays as it is.       *)
(***************************************************************************)
EXTENDS ResiliencyBuilder, LogView, AppPages

CONSTANT MaxEdits       \* bound: saves and removals in the builder

VARIABLES session, edits

pagesVars == <<session, vars, edits, logVars, appVars>>

\* One app logs both halves, the other its sidecar only; of the control plane's services
\* one is known before the list is read.  The clock of the app's own log goes back.
LoggedMC == {<<"a", "daprd">>, <<"a", "app">>, <<"b", "daprd">>, <<"s", "cp">>, <<"k", "cp">>}
StampMC == [p \in Paths |-> CASE p = <<"a", "daprd">> -> <<0, 1, 2>>
                              [] p = <<"a", "app">> -> <<2, 0, 1>>
                              [] OTHER -> <<1, 0>>]
LevelMC == [p \in Paths |-> <<"info", "error", "info">>]
\* The log of the first app ends in the middle of a line.
WrittenMC == [p \in Paths |-> CASE p = <<"a", "daprd">> -> 4
                                [] p = <<"a", "app">> -> 3
                                [] OTHER -> 2]

PagesInit ==
    /\ session \in {"run", "compose", "logs", "builder"}
    /\ AppsInit
    /\ LogsInit /\ (session # "logs" => url = [app |-> NoTarget, cp |-> NoTarget, source |-> "both"])
    /\ Init /\ edits = 0

Builder ==
    \/ Edit /\ edits < MaxEdits /\ edits' = edits + 1
    \/ Wizard /\ UNCHANGED edits

\* Nothing happens to k.
LeftAlone(k) ==
    /\ world'[k] = world[k] /\ page' # k
    /\ \A i \in DOMAIN dialog' : dialog'[i].key # k

PagesNext ==
    \/ /\ session \in {"run", "compose"} /\ AppsNext
       /\ \A k \in IF session = "run" THEN Composes ELSE Runs : LeftAlone(k)
       /\ UNCHANGED <<session, vars, edits, logVars>>
    \/ session = "logs" /\ LogsNext /\ UNCHANGED <<session, vars, edits, appVars>>
    \/ session = "builder" /\ Builder /\ UNCHANGED <<session, logVars, appVars>>

PagesSpec == PagesInit /\ [][PagesNext]_pagesVars

-----------------------------------------------------------------------------
\* The state of every page has its type.  The other properties are those of AppPages, of
\* LogView and of ResiliencyBuilder.
PagesTypeOK == AppsTypeOK /\ LogsTypeOK /\ TypeOK

=============================================================================

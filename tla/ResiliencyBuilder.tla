-------------------------- MODULE ResiliencyBuilder --------------------------
(***************************************************************************)
(* The wizard that builds a resiliency policy (pages/resiliency-builder).  *)
(* Its state is one configuration: named policies of three kinds and       *)
(* targets that refer to them BY NAME.  Nothing but the reducer keeps the  *)
(* names in step: removing or renaming a policy must reach every target.   *)
(*                                                                         *)
(* A dialog is modal and copies the record it edits when it opens, and     *)
(* nothing else changes the configuration meanwhile: opening, editing and  *)
(* saving it are one action.  Durations, counts and codes are abstracted   *)
(* (a dialog that is saved holds valid ones); the name of the whole policy *)
(* is abstracted to its validity.                                          *)
(***************************************************************************)
EXTENDS Naturals

CONSTANTS Names,      \* names a policy can be given
          Reserved,   \* those of the built-in retries ("DaprBuiltIn...")
          TargetNames,
          None        \* no policy picked, or no record edited

ASSUME NoneAssumption == None \notin Names \union TargetNames
ASSUME ReservedAssumption == Reserved \subseteq Names

VARIABLES activeStep, \* the page of the wizard
          named,      \* metadata.name passes validateResourceName
          policies,   \* per kind, the names in use
          apps, actors, components

vars == <<activeStep, named, policies, apps, actors, components>>
targets == <<apps, actors, components>>

Fields == {"timeout", "retry", "circuitBreaker"}
Directions == {"outbound", "inbound"}
PolicyRefs == [Fields -> Names \union {None}]
NoRefs == [f \in Fields |-> None]

\* A target of an app, of an actor (with or without the two circuit-breaker
\* settings) and of a component (its legs).
AppTarget(t) == t \in PolicyRefs
ActorTarget(t) == t \in [refs : PolicyRefs, scoped : BOOLEAN]
ComponentTarget(t) ==
    /\ t \in [DOMAIN t -> PolicyRefs]
    /\ DOMAIN t \in (SUBSET Directions) \ {{}}

TargetMap(map) == map = [n \in DOMAIN map |-> map[n]] /\ DOMAIN map \subseteq TargetNames

withoutKey(map, key) == [n \in DOMAIN map \ {key} |-> map[n]]
upserted(map, key, v) ==
    [n \in DOMAIN map \union {key} |-> IF n = key THEN v ELSE map[n]]

---------------------------------------------------------------------------
(* The cascade of a renamed policy, or of a removed one (to = None).       *)

remapRef(leg, f, from, to) ==
    IF leg[f] # from THEN leg ELSE [leg EXCEPT ![f] = to]

remapActor(a, f, from, to) ==
    [refs |-> remapRef(a.refs, f, from, to),
     scoped |-> a.scoped /\ ~(f = "circuitBreaker" /\ a.refs[f] = from /\ to = None)]

\* A cascade that looks at the first leg of a component only.
remapComponent_OneLeg(c, f, from, to) ==
    [d \in DOMAIN c |-> IF d = "inbound" /\ "outbound" \in DOMAIN c THEN c[d]
                        ELSE remapRef(c[d], f, from, to)]

remapComponent(c, f, from, to) ==
    [d \in DOMAIN c |-> remapRef(c[d], f, from, to)]

remapPolicyRefs(f, from, to) ==
    /\ apps' = [n \in DOMAIN apps |-> remapRef(apps[n], f, from, to)]
    /\ actors' = [n \in DOMAIN actors |-> remapActor(actors[n], f, from, to)]
    /\ components' =
         [n \in DOMAIN components |-> remapComponent(components[n], f, from, to)]

---------------------------------------------------------------------------
(* Step 1, the policies.                                                   *)

\* The names the lists of the page offer to edit or remove.
Listed(f) == IF f = "retry" THEN policies[f] \ Reserved ELSE policies[f]

\* A name is refused when another record has it (saving would replace it).
duplicate(n, existing, edit) == n \in existing /\ n # edit

\* The previous name's references follow a renaming.
upsertWithRename(f, edit, n) ==
    /\ activeStep = 1
    /\ edit \in Listed(f) \union {None}
    /\ ~duplicate(n, policies[f], edit)
    /\ IF edit \notin {None, n}
       THEN /\ policies' = [policies EXCEPT ![f] = (@ \ {edit}) \union {n}]
            /\ remapPolicyRefs(f, edit, n)
       ELSE /\ policies' = [policies EXCEPT ![f] = @ \union {n}]
            /\ UNCHANGED targets
    /\ UNCHANGED <<activeStep, named>>

TimeoutDialog(edit, n) == upsertWithRename("timeout", edit, n)
RetryDialog(edit, n) == n \notin Reserved /\ upsertWithRename("retry", edit, n)
CircuitBreakerDialog(edit, n) == upsertWithRename("circuitBreaker", edit, n)

\* The override of a built-in retry: its name is fixed.
SaveOverride(n) ==
    /\ activeStep = 1
    /\ policies' = [policies EXCEPT !["retry"] = @ \union {n}]
    /\ UNCHANGED <<activeStep, named, targets>>

RemovePolicy(f, n) ==
    /\ activeStep = 1
    /\ n \in policies[f]
    /\ policies' = [policies EXCEPT ![f] = @ \ {n}]
    /\ remapPolicyRefs(f, n, None)
    /\ UNCHANGED <<activeStep, named>>

---------------------------------------------------------------------------
(* Step 2, the targets.                                                    *)

\* What the three pickers can hold: an offered name, nothing, or the value
\* the edited record came with.
Options(f, initial) == policies[f] \union {None, initial[f]}

Pick(t, r, c) ==
    [f \in Fields |-> IF f = "timeout" THEN t ELSE IF f = "retry" THEN r ELSE c]

PolicyPickers(initial) ==
    {Pick(t, r, c) : t \in Options("timeout", initial), r \in Options("retry", initial),
                     c \in Options("circuitBreaker", initial)}

anyPolicy(leg) == leg # NoRefs

\* A renamed target is removed under its old name: nothing refers to it.
saved(map, edit, n, t) ==
    upserted(IF edit \in {None, n} THEN map ELSE withoutKey(map, edit), n, t)

CanSave(map, edit, n) ==
    /\ activeStep = 2
    /\ edit \in DOMAIN map \union {None}
    /\ ~duplicate(n, DOMAIN map, edit)

SaveApp(edit, n) ==
    /\ CanSave(apps, edit, n)
    /\ \E leg \in PolicyPickers(IF edit = None THEN NoRefs ELSE apps[edit]) :
         /\ anyPolicy(leg)
         /\ apps' = saved(apps, edit, n, leg)
    /\ UNCHANGED <<activeStep, named, policies, actors, components>>

\* The settings of the circuit breaker are saved with a circuit breaker only.
SaveActor(edit, n, scope) ==
    /\ CanSave(actors, edit, n)
    /\ \E leg \in PolicyPickers(IF edit = None THEN NoRefs ELSE actors[edit].refs) :
         /\ anyPolicy(leg)
         /\ actors' = saved(actors, edit, n,
                        [refs |-> leg, scoped |-> scope /\ leg["circuitBreaker"] # None])
    /\ UNCHANGED <<activeStep, named, policies, apps, components>>

\* One set of pickers for both legs: it starts from the outbound leg, if any,
\* and is written to each leg of the direction.
initialLeg(c) == IF "outbound" \in DOMAIN c THEN c["outbound"] ELSE c["inbound"]

SaveComponent(edit, n, direction) ==
    /\ CanSave(components, edit, n)
    /\ \E leg \in PolicyPickers(IF edit = None THEN NoRefs ELSE initialLeg(components[edit])) :
         /\ anyPolicy(leg)
         /\ components' = saved(components, edit, n, [d \in direction |-> leg])
    /\ UNCHANGED <<activeStep, named, policies, apps, actors>>

RemoveTarget(n) ==
    /\ activeStep = 2
    /\ \/ n \in DOMAIN apps /\ apps' = withoutKey(apps, n)
          /\ UNCHANGED <<actors, components>>
       \/ n \in DOMAIN actors /\ actors' = withoutKey(actors, n)
          /\ UNCHANGED <<apps, components>>
       \/ n \in DOMAIN components /\ components' = withoutKey(components, n)
          /\ UNCHANGED <<apps, actors>>
    /\ UNCHANGED <<activeStep, named, policies>>

---------------------------------------------------------------------------
(* The wizard.                                                             *)

hasTarget == DOMAIN apps \union DOMAIN actors \union DOMAIN components # {}

canContinue ==
    CASE activeStep = 0 -> named
      [] activeStep = 1 -> \E f \in Fields : policies[f] # {}
      [] activeStep = 2 -> hasTarget \/ policies["retry"] \intersect Reserved # {}
      [] OTHER -> TRUE

SetName ==
    /\ activeStep = 0
    /\ named' \in BOOLEAN
    /\ UNCHANGED <<activeStep, policies, targets>>

Continue ==
    /\ activeStep < 3 /\ canContinue
    /\ activeStep' = activeStep + 1
    /\ UNCHANGED <<named, policies, targets>>

Back ==
    /\ activeStep > 0
    /\ activeStep' = activeStep - 1
    /\ UNCHANGED <<named, policies, targets>>

initialState ==
    /\ activeStep = 0
    /\ named = FALSE
    /\ policies = [f \in Fields |-> {}]
    /\ apps = [n \in {} |-> NoRefs]
    /\ actors = [n \in {} |-> NoRefs]
    /\ components = [n \in {} |-> NoRefs]

Init == initialState

Edit ==
    \/ \E edit \in Names \union {None}, n \in Names :
          TimeoutDialog(edit, n) \/ RetryDialog(edit, n) \/ CircuitBreakerDialog(edit, n)
    \/ \E n \in Reserved : SaveOverride(n)
    \/ \E f \in Fields, n \in Names : RemovePolicy(f, n)
    \/ \E edit \in TargetNames \union {None}, n \in TargetNames :
          \/ SaveApp(edit, n)
          \/ \E scope \in BOOLEAN : SaveActor(edit, n, scope)
          \/ \E direction \in (SUBSET Directions) \ {{}} : SaveComponent(edit, n, direction)
    \/ \E n \in TargetNames : RemoveTarget(n)

Wizard == SetName \/ Continue \/ Back

Next == Edit \/ Wizard

Spec == Init /\ [][Next]_vars

---------------------------------------------------------------------------
(* Properties.                                                             *)

TypeOK ==
    /\ activeStep \in 0..3
    /\ named \in BOOLEAN
    /\ policies \in [Fields -> SUBSET Names]
    /\ TargetMap(apps) /\ \A n \in DOMAIN apps : AppTarget(apps[n])
    /\ TargetMap(actors) /\ \A n \in DOMAIN actors : ActorTarget(actors[n])
    /\ TargetMap(components) /\ \A n \in DOMAIN components : ComponentTarget(components[n])

Exists(leg) == \A f \in Fields : leg[f] \in policies[f] \union {None}

\* Every policy a target names exists: Dapr would refuse, or ignore, a
\* reference that a removal or a renaming left behind.
RefsExist ==
    /\ \A n \in DOMAIN apps : Exists(apps[n])
    /\ \A n \in DOMAIN actors : Exists(actors[n].refs)
    /\ \A n \in DOMAIN components :
         \A d \in DOMAIN components[n] : Exists(components[n][d])

\* The legs of a component agree, so the dialog, which shows one of them and
\* writes both, loses nothing.
LegsAgree ==
    \A n \in DOMAIN components :
       \A d, e \in DOMAIN components[n] : components[n][d] = components[n][e]

\* Circuit-breaker settings never outlive the circuit breaker of an actor.
ScopeNeedsBreaker ==
    \A n \in DOMAIN actors :
       actors[n].scoped => actors[n].refs["circuitBreaker"] # None

\* The targets are sound, however policies were renamed and removed between
\* edits of the targets.
TargetsSound == RefsExist /\ LegsAgree /\ ScopeNeedsBreaker
=============================================================================

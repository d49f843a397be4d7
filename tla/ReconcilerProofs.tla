-------------------------- MODULE ReconcilerProofs --------------------------
(***************************************************************************)
(* Invariants of Reconciler for any apps, components, pollers and callers: *)
(* one reconcile at a time, a published election that agrees with the      *)
(* published fingerprint, tombstones that a reconcile clears or a request  *)
(* of this session has set, and pooled connections that are current.       *)
(***************************************************************************)
EXTENDS Reconciler, RegistryOpsProofs, FiniteSetTheorems, WellFoundedInduction, TLAPS

-----------------------------------------------------------------------------
(* Election, for every set of apps and components: what the fingerprint gate of the *)
(* reconciler rests on, and that the elected store is a detected one.       *)

\* The apps that report a store named n.
Reporters(w, n) == {a \in Listed(w) : n \in ReportedStores(w, a)}

LEMMA FingerprintFields ==
    ASSUME NEW w \in World
    PROVE  /\ Fingerprint[w].ids = Listed(w)
           /\ Fingerprint[w].running = Running(w)
           /\ Fingerprint[w].stores = [n \in UNION {Loads[a] : a \in Apps} |->
                                          Cardinality(Reporters(w, n))]
  BY DEF Fingerprint, Reporters

LEMMA LoadedByReporters ==
    ASSUME NEW w \in World, NEW n
    PROVE  n \in Loaded(w) <=> Reporters(w, n) # {}
  <1>1. ASSUME NEW a \in Listed(w), n \in ReportedStores(w, a)
        PROVE  a \in Running(w)
    BY <1>1 DEF ReportedStores, Running
  <1>2. Running(w) \subseteq Listed(w)
    BY DEF Running
  <1> QED
    BY <1>1, <1>2 DEF Loaded, Reporters

LEMMA ReportersCounted ==
    ASSUME NEW w \in World, NEW n
    PROVE  Reporters(w, n) # {} <=> Cardinality(Reporters(w, n)) # 0
  <1>1. Reporters(w, n) \subseteq Apps
    BY DEF Reporters, Listed
  <1>2. IsFiniteSet(Reporters(w, n))
    BY <1>1, ElectionAssumption, FS_Subset
  <1> QED
    BY <1>2, FS_EmptySet

LEMMA LoadedIsKnown ==
    ASSUME NEW w \in World
    PROVE  Loaded(w) \subseteq UNION {Loads[a] : a \in Apps}
  <1>1. Running(w) \subseteq Apps
    BY DEF Running, Listed
  <1>2. \A a \in Running(w) : ReportedStores(w, a) \subseteq Loads[a]
    BY DEF ReportedStores
  <1> QED
    BY <1>1, <1>2 DEF Loaded

LEMMA SameLoaded ==
    ASSUME NEW w1 \in World, NEW w2 \in World, Fingerprint[w1] = Fingerprint[w2]
    PROVE  Loaded(w1) = Loaded(w2)
  <1> DEFINE names == UNION {Loads[a] : a \in Apps}
  <1>1. \A n \in names : Cardinality(Reporters(w1, n)) = Cardinality(Reporters(w2, n))
    <2>1. [n \in names |-> Cardinality(Reporters(w1, n))]
            = [n \in names |-> Cardinality(Reporters(w2, n))]
      BY FingerprintFields
    <2> QED
      BY <2>1
  <1>2. \A n \in names : n \in Loaded(w1) <=> n \in Loaded(w2)
    BY <1>1, LoadedByReporters, ReportersCounted
  <1> QED
    BY <1>2, LoadedIsKnown

\* Two lists of apps with one fingerprint elect the same store and provide the same
\* stores: maybeReconcile may skip a reconcile whose fingerprint is the published one
\* (as long as apps keep their resource paths and component files do not change).
THEOREM FingerprintDecides ==
    \A w1, w2 \in World :
        Fingerprint[w1] = Fingerprint[w2] =>
            /\ ElectedIn[w1] = ElectedIn[w2]
            /\ ProvidedIn[w1] = ProvidedIn[w2]
  <1> SUFFICES ASSUME NEW w1 \in World, NEW w2 \in World,
                      Fingerprint[w1] = Fingerprint[w2]
               PROVE  /\ ElectedIn[w1] = ElectedIn[w2]
                      /\ ProvidedIn[w1] = ProvidedIn[w2]
    OBVIOUS
  <1>1. Loaded(w1) = Loaded(w2)
    BY SameLoaded
  <1>2. Listed(w1) = Listed(w2) /\ Running(w1) = Running(w2)
    BY FingerprintFields
  <1>3. Detected(w1) = Detected(w2)
    BY <1>2 DEF Detected
  <1>4. UnderAppPaths(w1) = UnderAppPaths(w2)
    BY <1>2 DEF UnderAppPaths
  <1> QED
    BY <1>1, <1>3, <1>4 DEF ElectedIn, ProvidedIn

-----------------------------------------------------------------------------
(* What is elected                                                         *)

LEMMA SmallestOfNat ==
    ASSUME NEW T \in SUBSET Nat, T # {}
    PROVE  \E m \in T : \A n \in T : m <= n
  <1>1. PICK m \in T : \A n \in T : <<n, m>> \notin OpToRel(<, Nat)
    BY NatLessThanWellFounded, WFMin
  <1>2. ASSUME NEW n \in T
        PROVE  m <= n
    <2>1. m \in Nat /\ n \in Nat
      OBVIOUS
    <2>2. ~(n < m)
      BY <1>1, <2>1 DEF OpToRel
    <2> QED
      BY <2>1, <2>2
  <1> QED
    BY <1>2

LEMMA FirstOf ==
    ASSUME NEW S \in SUBSET Comps, S # {}
    PROVE  First(S) \in S /\ \A d \in S : Pos[First(S)] <= Pos[d]
  <1> DEFINE P == {Pos[c] : c \in S}
  <1>1. P \in SUBSET Nat /\ P # {}
    BY ElectionAssumption
  <1>2. \E m \in P : \A n \in P : m <= n
    BY <1>1, SmallestOfNat
  <1>3. \E c \in S : \A d \in S : Pos[c] <= Pos[d]
    BY <1>2
  <1> QED
    BY <1>3 DEF First

\* The level the elected component is the first of.
LEMMA LevelElected ==
    ASSUME NEW S \in SUBSET Comps, S # {}, NEW loaded, NEW under
    PROVE  \E k \in 1..6 :
              /\ Level(S, loaded, under)[k] # {}
              /\ \A j \in 1..(k - 1) : Level(S, loaded, under)[j] = {}
              /\ Elect(S, loaded, under) = First(Level(S, loaded, under)[k])
  <1> DEFINE L == Level(S, loaded, under)
  <1>1. L[6] = S
    BY DEF Level
  <1>2. \E k \in 1..6 : L[k] # {} /\ \A j \in 1..(k - 1) : L[j] = {}
    <2> HIDE DEF L
    <2> DEFINE K == {k \in 1..6 : L[k] # {}}
    <2>1. K \in SUBSET Nat /\ K # {}
      BY <1>1
    <2>2. PICK k \in K : \A j \in K : k <= j
      BY <2>1, SmallestOfNat
    <2>3. \A j \in 1..(k - 1) : j \in 1..6 /\ ~(k <= j)
      BY <2>2
    <2> QED
      BY <2>2, <2>3
  <1> QED
    BY <1>2 DEF Elect

LEMMA LevelWithin ==
    ASSUME NEW S, NEW loaded, NEW under, NEW k \in 1..6
    PROVE  Level(S, loaded, under)[k] \subseteq S
  <1>1. k = 1 \/ k = 2 \/ k = 3 \/ k = 4 \/ k = 5 \/ k = 6
    OBVIOUS
  <1> QED
    BY <1>1 DEF Level, AppProvided

LEMMA DetectedComps ==
    ASSUME NEW w \in World
    PROVE  Detected(w) \in SUBSET Comps
  BY ElectionAssumption DEF Detected, Listed

\* The elected store is one Detect found, and there is none only if it found none.
THEOREM ElectsDetected ==
    \A w \in World :
        IF Detected(w) = {} THEN ElectedIn[w] = NoComp ELSE ElectedIn[w] \in Detected(w)
  <1> SUFFICES ASSUME NEW w \in World
               PROVE  IF Detected(w) = {} THEN ElectedIn[w] = NoComp
                                          ELSE ElectedIn[w] \in Detected(w)
    OBVIOUS
  <1>1. CASE Detected(w) = {}
    BY <1>1 DEF ElectedIn, Elect
  <1>2. CASE Detected(w) # {}
    <2> DEFINE L == Level(Detected(w), Loaded(w), UnderAppPaths(w))
    <2>1. PICK k \in 1..6 : L[k] # {} /\ ElectedIn[w] = First(L[k])
      BY <1>2, DetectedComps, LevelElected DEF ElectedIn
    <2>2. L[k] \subseteq Detected(w)
      BY LevelWithin
    <2> QED
      BY <1>2, <2>1, <2>2, DetectedComps, FirstOf
  <1> QED
    BY <1>1, <1>2

\* When running apps have loaded a store from their own resource paths, such a store is
\* elected, and one with actor state if there is one: what the first two levels of
\* newStoreRegistry are for.
THEOREM ProvidedFirst ==
    \A w \in World :
        /\ ProvidedIn[w] # {} => ElectedIn[w] \in ProvidedIn[w]
        /\ ProvidedIn[w] \cap Actor # {} => ElectedIn[w] \in Actor
  <1> SUFFICES ASSUME NEW w \in World, ProvidedIn[w] # {}
               PROVE  /\ ElectedIn[w] \in ProvidedIn[w]
                      /\ ProvidedIn[w] \cap Actor # {} => ElectedIn[w] \in Actor
    OBVIOUS
  <1> DEFINE L == Level(Detected(w), Loaded(w), UnderAppPaths(w))
  <1>1. L[1] = ProvidedIn[w] \cap Actor /\ L[2] = ProvidedIn[w]
    BY DEF Level, ProvidedIn
  <1>2. ProvidedIn[w] \subseteq Detected(w)
    BY DEF ProvidedIn, AppProvided
  <1>3. ProvidedIn[w] \in SUBSET Comps /\ Detected(w) # {}
    BY <1>2, DetectedComps
  <1>4. PICK k \in 1..6 : /\ L[k] # {}
                          /\ \A j \in 1..(k - 1) : L[j] = {}
                          /\ ElectedIn[w] = First(L[k])
    BY <1>3, DetectedComps, LevelElected DEF ElectedIn
  <1> HIDE DEF L
  <1>5. k = 1 \/ (k = 2 /\ L[1] = {})
    <2>1. ~(2 \in 1..(k - 1))
      BY <1>1, <1>4
    <2>2. k = 1 \/ k = 2
      BY <2>1
    <2> QED
      BY <1>4, <2>2
  <1>6. ElectedIn[w] \in L[k]
    <2>1. L[k] \in SUBSET Comps
      BY <1>1, <1>3, <1>5
    <2> QED
      BY <2>1, <1>4, FirstOf
  <1> QED
    BY <1>1, <1>5, <1>6

-----------------------------------------------------------------------------
(* The reconciler *)

Reconcilers == Pollers \cup {Boot}

\* The boot reconcile runs alone, before anybody polls; after it the flag
\* rc.reconciling is set as long as a poller's reconcile runs.
Exclusive ==
    /\ DOMAIN poll = Pollers
    /\ DOMAIN job = Reconcilers
    /\ job[Boot].phase # "none" =>
          \A p \in Pollers : poll[p].phase = "idle" /\ job[p].phase = "none"
    /\ \A p \in Pollers : job[p].phase # "none" => reconciling = TRUE
    /\ \A p, q \in Pollers : job[p].phase # "none" /\ job[q].phase # "none" => p = q

\* Every list of apps in use is one that discovery has reported, and a reconcile
\* elects for the list it was started with.
Lists ==
    /\ world \in World
    /\ \A p \in Pollers : poll[p].phase # "idle" => poll[p].apps \in World
    /\ \A j \in Reconcilers : job[j].phase # "none" =>
          job[j].apps \in World /\ job[j].reg = ElectedIn[job[j].apps]

\* What is published was elected for a list with the published fingerprint.
Published ==
    fp = NoFp \/ \E w \in World : fp = Fingerprint[w] /\ elected = ElectedIn[w]

Inv == Exclusive /\ Lists /\ Published

-----------------------------------------------------------------------------
(* The steps                                                               *)

LEMMA StartFields ==
    ASSUME NEW w \in World
    PROVE  Start(w).phase = "upsert" /\ Start(w).apps = w /\ Start(w).reg = ElectedIn[w]
  BY DEF Start

LEMMA InitInv == Init => Inv
  <1> SUFFICES ASSUME Init PROVE Inv
    OBVIOUS
  <1> DEFINE None == [a \in Apps |-> "absent"]
  <1>1. world \in World /\ None \in World
    BY ReconcilerAssumption DEF Init, World, Statuses
  <1>2. PICK w \in World :
            job = [j \in Reconcilers |-> IF j = Boot THEN Start(w) ELSE NoJob]
    BY <1>1 DEF Init, Reconcilers
  <1>3. DOMAIN job = Reconcilers /\ job[Boot] = Start(w)
    BY <1>2 DEF Reconcilers
  <1>4. \A p \in Pollers : job[p].phase = "none" /\ poll[p].phase = "idle"
    BY <1>2, ReconcilerAssumption DEF Init, Reconcilers, NoJob, IdlePoll
  <1>5. Exclusive
    BY <1>3, <1>4 DEF Exclusive, Init
  <1>6. Lists
    BY <1>1, <1>3, <1>4, StartFields DEF Lists, Reconcilers
  <1> QED
    BY <1>5, <1>6 DEF Inv, Published, Init

\* Requests, Close and changes of the apps do not reconcile.
LEMMA OthersKeep ==
    ASSUME Inv, world' \in World, UNCHANGED <<elected, fp, reconciling, poll, job>>
    PROVE  Inv'
  BY DEF Inv, Exclusive, Lists, Published, Reconcilers

LEMMA SetPollKeeps ==
    ASSUME Inv, NEW p \in Pollers, NEW r, SetPoll(p, r), UNCHANGED <<job, reconciling>>,
           r.phase # "idle" => r.apps \in World,
           job[Boot].phase # "none" => r.phase = "idle"
    PROVE  Inv'
  <1>1. /\ DOMAIN poll' = Pollers
        /\ poll'[p] = r /\ \A q \in Pollers \ {p} : poll'[q] = poll[q]
    BY DEF SetPoll, Inv, Exclusive
  <1>2. UNCHANGED <<job, reconciling, world, elected, fp>>
    BY DEF SetPoll, env, state
  <1>3. Exclusive'
    BY <1>1, <1>2 DEF Inv, Exclusive, Reconcilers
  <1>4. Lists'
    BY <1>1, <1>2 DEF Inv, Lists, Reconcilers
  <1> QED
    BY <1>2, <1>3, <1>4 DEF Inv, Published

LEMMA PollIdleWhileBooting ==
    ASSUME Inv, NEW p \in Pollers, poll[p].phase # "idle"
    PROVE  job[Boot].phase = "none"
  BY DEF Inv, Exclusive

LEMMA ListKeeps ==
    ASSUME Inv, NEW p \in Pollers, List(p)
    PROVE  Inv'
  <1> DEFINE r == [phase |-> "listed", apps |-> world]
  <1>1. SetPoll(p, r) /\ UNCHANGED <<job, reconciling>> /\ job[Boot].phase = "none"
    BY DEF List, Serving
  <1>2. r.apps \in World
    BY DEF Inv, Lists
  <1> QED
    BY <1>1, <1>2, SetPollKeeps

LEMMA CompareKeeps ==
    ASSUME Inv, NEW p \in Pollers, CompareFingerprint(p)
    PROVE  Inv'
  <1>1. poll[p].phase = "listed" /\ poll[p].apps \in World
    BY DEF CompareFingerprint, Inv, Lists
  <1>2. job[Boot].phase = "none"
    BY <1>1, PollIdleWhileBooting
  <1>3. CASE Fingerprint[poll[p].apps] = fp
    <2>1. SetPoll(p, IdlePoll) /\ UNCHANGED <<job, reconciling>>
      BY <1>3 DEF CompareFingerprint
    <2>2. IdlePoll.phase = "idle"
      BY DEF IdlePoll
    <2> QED
      BY <2>1, <2>2, SetPollKeeps
  <1>4. CASE Fingerprint[poll[p].apps] # fp
    <2> DEFINE r == [poll[p] EXCEPT !.phase = "differs"]
    <2>1. SetPoll(p, r) /\ UNCHANGED <<job, reconciling>>
      BY <1>4 DEF CompareFingerprint
    <2>2. r.apps = poll[p].apps
      OBVIOUS
    <2> HIDE DEF r
    <2> QED
      BY <1>1, <1>2, <2>1, <2>2, SetPollKeeps
  <1> QED
    BY <1>3, <1>4

LEMMA GiveUpKeeps ==
    ASSUME Inv, NEW p \in Pollers, GiveUp(p)
    PROVE  Inv'
  <1>1. SetPoll(p, IdlePoll) /\ UNCHANGED <<job, reconciling>>
    BY DEF GiveUp
  <1>2. IdlePoll.phase = "idle"
    BY DEF IdlePoll
  <1> QED
    BY <1>1, <1>2, SetPollKeeps

\* CompareAndSwap finds the flag down: no poller's reconcile runs, and the boot
\* reconcile is over because p has polled.
LEMMA ClaimKeeps ==
    ASSUME Inv, NEW p \in Pollers, Claim(p)
    PROVE  Inv'
  <1> DEFINE w == poll[p].apps
  <1>1. w \in World /\ poll[p].phase # "idle"
    BY DEF Claim, Inv, Lists
  <1>2. job[Boot].phase = "none"
    BY <1>1, PollIdleWhileBooting
  <1>3. \A q \in Pollers : job[q].phase = "none"
    BY DEF Claim, Inv, Exclusive
  <1>4. /\ DOMAIN job' = Reconcilers /\ job'[p] = Start(w)
        /\ \A j \in Reconcilers \ {p} : job'[j] = job[j]
    BY DEF Claim, Inv, Exclusive, Reconcilers
  <1>5. /\ DOMAIN poll' = Pollers
        /\ poll'[p] = IdlePoll /\ \A q \in Pollers \ {p} : poll'[q] = poll[q]
    BY DEF Claim, SetPoll, Inv, Exclusive
  <1>6. reconciling' = TRUE /\ UNCHANGED <<world, elected, fp>>
    BY DEF Claim, SetPoll, env, state
  <1> HIDE DEF w
  <1>7. Exclusive'
    <2>1. job'[Boot].phase = "none"
      BY <1>2, <1>4, ReconcilerAssumption DEF Reconcilers
    <2>2. \A q \in Pollers : job'[q].phase # "none" => q = p
      BY <1>3, <1>4 DEF Reconcilers
    <2> QED
      BY <1>4, <1>5, <1>6, <2>1, <2>2 DEF Exclusive, Reconcilers
  <1>8. Lists'
    <2>1. \A q \in Pollers : poll'[q].phase # "idle" => poll'[q].apps \in World
      BY <1>5 DEF Inv, Lists, IdlePoll
    <2>2. \A j \in Reconcilers : job'[j].phase # "none" =>
              job'[j].apps \in World /\ job'[j].reg = ElectedIn[job'[j].apps]
      BY <1>1, <1>4, StartFields DEF Inv, Lists
    <2> QED
      BY <1>6, <2>1, <2>2 DEF Inv, Lists
  <1> QED
    BY <1>6, <1>7, <1>8 DEF Inv, Published

\* A step of a running reconcile that stays within it.
LEMMA RunningKeeps ==
    ASSUME Inv, NEW j \in Reconcilers, NEW r, SetJob(j, r), job[j].phase # "none",
           r.phase # "none", r.apps = job[j].apps, r.reg = job[j].reg,
           UNCHANGED <<world, reconciling, poll>>, Published'
    PROVE  Inv'
  <1>1. /\ DOMAIN job' = Reconcilers
        /\ job'[j] = r /\ \A i \in Reconcilers \ {j} : job'[i] = job[i]
    BY DEF SetJob, Inv, Exclusive
  <1>2. \A i \in Reconcilers : job'[i].phase = "none" <=> job[i].phase = "none"
    BY <1>1
  <1>3. Exclusive'
    BY <1>1, <1>2 DEF Inv, Exclusive, Reconcilers
  <1>4. Lists'
    BY <1>1 DEF Inv, Lists
  <1> QED
    BY <1>3, <1>4 DEF Inv

\* The end of a reconcile resets the flag.
LEMMA EndKeeps ==
    ASSUME Inv, NEW j \in Reconcilers, SetJob(j, NoJob), job[j].phase # "none",
           reconciling' = FALSE, UNCHANGED <<world, poll, elected, fp>>
    PROVE  Inv'
  <1>1. /\ DOMAIN job' = Reconcilers
        /\ job'[j].phase = "none" /\ \A i \in Reconcilers \ {j} : job'[i] = job[i]
    BY DEF SetJob, Inv, Exclusive, NoJob
  <1>2. \A p \in Pollers : job'[p].phase = "none"
    <2>1. CASE j = Boot
      BY <1>1, <2>1, ReconcilerAssumption DEF Inv, Exclusive, Reconcilers
    <2>2. CASE j \in Pollers
      BY <1>1, <2>2 DEF Inv, Exclusive, Reconcilers
    <2> QED
      BY <2>1, <2>2 DEF Reconcilers
  <1>3. Exclusive'
    BY <1>1, <1>2 DEF Inv, Exclusive, Reconcilers
  <1>4. Lists'
    BY <1>1 DEF Inv, Lists
  <1> QED
    BY <1>3, <1>4 DEF Inv, Published

LEMMA UpsertKeeps ==
    ASSUME Inv, NEW j \in Reconcilers, UpsertDetected(j)
    PROVE  Inv'
  <1> DEFINE r == [job[j] EXCEPT !.todo = @ \ {First(job[j].todo)}]
  <1>1. SetJob(j, r) /\ job[j].phase = "upsert"
    BY DEF UpsertDetected
  <1>2. UNCHANGED <<world, reconciling, poll, elected, fp>>
    BY DEF UpsertDetected, env, state
  <1>3. r.phase = job[j].phase /\ r.apps = job[j].apps /\ r.reg = job[j].reg
    OBVIOUS
  <1>4. Published'
    BY <1>2 DEF Inv, Published
  <1> HIDE DEF r
  <1> QED
    BY <1>1, <1>2, <1>3, <1>4, RunningKeeps

LEMMA UndismissActiveKeeps ==
    ASSUME Inv, NEW j \in Reconcilers, UndismissActive(j)
    PROVE  Inv'
  <1> DEFINE r == [job[j] EXCEPT !.phase = "undismiss", !.todo = ProvidedIn[job[j].apps]]
  <1>1. SetJob(j, r) /\ job[j].phase = "upsert"
    BY DEF UndismissActive
  <1>2. UNCHANGED <<world, reconciling, poll, elected, fp>>
    BY DEF UndismissActive, env, state
  <1>3. r.apps = job[j].apps /\ r.reg = job[j].reg
    OBVIOUS
  <1>4. r.phase # "none"
    <2>1. r.phase \in {"undismiss", job[j].phase}
      OBVIOUS
    <2> QED
      BY <1>1, <2>1
  <1>5. Published'
    BY <1>2 DEF Inv, Published
  <1> HIDE DEF r
  <1> QED
    BY <1>1, <1>2, <1>3, <1>4, <1>5, RunningKeeps

LEMMA UndismissAppProvidedKeeps ==
    ASSUME Inv, NEW j \in Reconcilers, UndismissAppProvided(j)
    PROVE  Inv'
  <1> DEFINE r == [job[j] EXCEPT !.todo = @ \ {First(job[j].todo)}]
  <1>1. SetJob(j, r) /\ job[j].phase = "undismiss"
    BY DEF UndismissAppProvided
  <1>2. UNCHANGED <<world, reconciling, poll, elected, fp>>
    BY DEF UndismissAppProvided, env, state
  <1>3. r.phase = job[j].phase /\ r.apps = job[j].apps /\ r.reg = job[j].reg
    OBVIOUS
  <1>4. Published'
    BY <1>2 DEF Inv, Published
  <1> HIDE DEF r
  <1> QED
    BY <1>1, <1>2, <1>3, <1>4, RunningKeeps

\* A closed reconciler publishes nothing; an open one publishes the election together
\* with the fingerprint of the list it is for.
LEMMA PublishKeeps ==
    ASSUME Inv, NEW j \in Reconcilers, Publish(j)
    PROVE  Inv'
  <1>1. job[j].phase = "undismiss" /\ UNCHANGED <<world, poll>>
    BY DEF Publish, env
  <1>2. CASE closed
    <2>1. SetJob(j, NoJob) /\ reconciling' = FALSE /\ UNCHANGED <<elected, fp>>
      BY <1>2 DEF Publish
    <2> QED
      BY <1>1, <2>1, EndKeeps
  <1>3. CASE ~closed
    <2> DEFINE r == [job[j] EXCEPT !.phase = "prewarm"]
    <2>1. /\ elected' = job[j].reg
          /\ fp' = Fingerprint[job[j].apps]
          /\ SetJob(j, r)
          /\ UNCHANGED reconciling
      BY <1>3 DEF Publish
    <2>2. job[j].apps \in World /\ job[j].reg = ElectedIn[job[j].apps]
      BY <1>1 DEF Inv, Lists
    <2>3. Published'
      BY <2>1, <2>2 DEF Published, Fingerprint, ElectedIn
    <2>4. r.apps = job[j].apps /\ r.reg = job[j].reg
      OBVIOUS
    <2>5. r.phase # "none"
      <3>1. r.phase \in {"prewarm", job[j].phase}
        OBVIOUS
      <3> QED
        BY <1>1, <3>1
    <2> HIDE DEF r
    <2> QED
      BY <1>1, <2>1, <2>3, <2>4, <2>5, RunningKeeps
  <1> QED
    BY <1>2, <1>3

LEMMA PreWarmKeeps ==
    ASSUME Inv, NEW j \in Reconcilers, PreWarm(j)
    PROVE  Inv'
  <1>1. /\ SetJob(j, NoJob) /\ job[j].phase = "prewarm" /\ reconciling' = FALSE
        /\ UNCHANGED <<world, poll, elected, fp>>
    BY DEF PreWarm, env, state
  <1> QED
    BY <1>1, EndKeeps

LEMMA SetCallKeeps ==
    ASSUME Inv, NEW k, NEW r, SetCall(k, r)
    PROVE  Inv'
  <1>1. world' \in World /\ UNCHANGED <<elected, fp, reconciling, poll, job>>
    BY DEF SetCall, env, state, Inv, Lists
  <1> QED
    BY <1>1, OthersKeep

LEMMA RequestsKeep ==
    ASSUME Inv, NEW k \in Callers, Handle(k) \/ Edit(k) \/ Read(k)
    PROVE  Inv'
  <1>1. ASSUME NEW op, NEW e, LookUp(k, op, e) PROVE Inv'
    BY <1>1, SetCallKeeps DEF LookUp
  <1>2. ASSUME NEW changed, Evicting(k, changed) PROVE Inv'
    BY <1>2, SetCallKeeps DEF Evicting
  <1>3. CASE Open(k)
    BY <1>3, SetCallKeeps DEF Open
  <1>4. CASE CheckActive(k)
    BY <1>4, SetCallKeeps DEF CheckActive
  <1>5. CASE RegistryDelete(k)
    BY <1>5, <1>2 DEF RegistryDelete
  <1>6. CASE EvictOld(k)
    BY <1>6, SetCallKeeps DEF EvictOld
  <1>7. ASSUME NEW n \in Names, NEW v \in Values, RegistryUpdate(k, n, v) PROVE Inv'
    BY <1>7, <1>2, SetCallKeeps DEF RegistryUpdate
  <1>8. ASSUME NEW n \in Names, NEW v \in Values, AddStore(k, n, v) PROVE Inv'
    BY <1>8, SetCallKeeps DEF AddStore
  <1>9. ASSUME NEW e \in entries, StartDelete(k, e) \/ StartUpdate(k, e) \/ Select(k, e)
        PROVE  Inv'
    BY <1>9, <1>1 DEF StartDelete, StartUpdate, Select
  <1>10. CASE SelectActive(k)
    BY <1>10, SetCallKeeps DEF SelectActive
  <1> QED
    BY <1>3, <1>4, <1>5, <1>6, <1>7, <1>8, <1>9, <1>10 DEF Handle, Edit, Read

LEMMA NextKeeps == Inv /\ [Next]_vars => Inv'
  <1> SUFFICES ASSUME Inv, [Next]_vars PROVE Inv'
    OBVIOUS
  <1>1. ASSUME NEW a \in Apps, NEW s \in Statuses, AppsChange(a, s) PROVE Inv'
    <2>1. UNCHANGED <<elected, fp, reconciling, poll, job>>
      BY <1>1 DEF AppsChange
    <2>2. world' \in World
      BY <1>1 DEF AppsChange, Inv, Lists, World
    <2> QED
      BY <2>1, <2>2, OthersKeep
  <1>2. ASSUME NEW p \in Pollers, List(p) \/ Poll(p) PROVE Inv'
    BY <1>2, ListKeeps, CompareKeeps, ClaimKeeps, GiveUpKeeps DEF Poll
  <1>3. ASSUME NEW j \in Reconcilers, Reconcile(j) PROVE Inv'
    BY <1>3, UpsertKeeps, UndismissActiveKeeps, UndismissAppProvidedKeeps, PublishKeeps,
       PreWarmKeeps DEF Reconcile
  <1>4. ASSUME NEW k \in Callers, Handle(k) \/ Edit(k) \/ Read(k) PROVE Inv'
    BY <1>4, RequestsKeep
  <1>5. CASE Close \/ ClosePool
    <2>1. UNCHANGED <<world, elected, fp, reconciling, poll, job>>
      BY <1>5 DEF Close, ClosePool, env, state
    <2> QED
      BY <2>1, OthersKeep DEF Inv, Lists
  <1>6. CASE UNCHANGED vars
    <2>1. UNCHANGED <<world, elected, fp, reconciling, poll, job>>
      BY <1>6 DEF vars
    <2> QED
      BY <2>1, OthersKeep DEF Inv, Lists
  <1> QED
    BY <1>1, <1>2, <1>3, <1>4, <1>5, <1>6 DEF Next, Reconcilers, Callers

-----------------------------------------------------------------------------
(* The theorems                                                            *)

\* Inv holds of every state the reconciler reaches.
THEOREM Invariance == Spec => []Inv
  <1> QED
    BY InitInv, NextKeeps, PTL DEF Spec

\* The boot reconcile and those of maybeReconcile's goroutines never overlap.
THEOREM OneReconcile == Spec => []SingleFlight
  <1>1. Inv => SingleFlight
    BY DEF Inv, Exclusive, SingleFlight
  <1> QED
    BY <1>1, Invariance, PTL

\* The gate of maybeReconcile only lets a poll pass whose election is the published
\* one.
THEOREM GateSound == Spec => []ElectedForFingerprint
  <1>1. Inv => ElectedForFingerprint
    <2> SUFFICES ASSUME Inv, NEW w \in World, Fingerprint[w] = fp
                 PROVE  elected = ElectedIn[w]
      BY DEF ElectedForFingerprint
    <2>1. PICK w0 \in World : fp = Fingerprint[w0] /\ elected = ElectedIn[w0]
      BY ReconcilerAssumption DEF Inv, Published
    <2> QED
      BY <2>1, FingerprintDecides
  <1> QED
    BY <1>1, Invariance, PTL

-----------------------------------------------------------------------------
(* Who changes what                                                        *)

\* The registry and its history change in six places.
LEMMA StoreSteps ==
    ASSUME [Next]_vars
    PROVE  \/ UNCHANGED store
           \/ \E j \in Reconcilers :
                 UpsertDetected(j) \/ UndismissActive(j) \/ UndismissAppProvided(j)
           \/ \E k \in Callers, n \in Names, v \in Values :
                 AddStore(k, n, v) \/ RegistryUpdate(k, n, v)
           \/ \E k \in Callers : RegistryDelete(k)
  <1>1. ASSUME NEW p \in Pollers, List(p) \/ Poll(p) PROVE UNCHANGED store
    BY <1>1 DEF List, Poll, CompareFingerprint, Claim, GiveUp, SetPoll, store
  <1>2. ASSUME NEW j \in Reconcilers, Publish(j) \/ PreWarm(j) PROVE UNCHANGED store
    BY <1>2 DEF Publish, PreWarm, store
  <1>3. ASSUME NEW k \in Callers, Open(k) \/ CheckActive(k) \/ EvictOld(k) \/ Read(k)
        PROVE  UNCHANGED store
    BY <1>3 DEF Open, CheckActive, EvictOld, Read, SelectActive, Select, LookUp, store
  <1>4. ASSUME NEW k \in Callers, NEW e, StartDelete(k, e) \/ StartUpdate(k, e)
        PROVE  UNCHANGED store
    BY <1>4 DEF StartDelete, StartUpdate, LookUp, store
  <1>5. Close \/ ClosePool \/ UNCHANGED vars => UNCHANGED store
    BY DEF Close, ClosePool, store, vars
  <1>6. \A a, s : AppsChange(a, s) => UNCHANGED store
    BY DEF AppsChange, store
  <1> QED
    BY <1>1, <1>2, <1>3, <1>4, <1>5, <1>6
    DEF Next, Reconcile, Handle, Edit, Callers, Reconcilers

\* A reconcile is started, goes on or ends.
LEMMA JobSteps ==
    ASSUME [Next]_vars
    PROVE  \/ UNCHANGED job
           \/ \E p \in Pollers : Claim(p)
           \/ \E j \in Reconcilers : Reconcile(j)
  <1>1. ASSUME NEW p \in Pollers, List(p) \/ CompareFingerprint(p) \/ GiveUp(p)
        PROVE  UNCHANGED job
    BY <1>1 DEF List, CompareFingerprint, GiveUp
  <1>2. ASSUME NEW k \in Callers, Handle(k) \/ Edit(k) \/ Read(k) PROVE UNCHANGED job
    BY <1>2 DEF Handle, Open, CheckActive, RegistryDelete, RegistryUpdate, Evicting, EvictOld,
                Edit, AddStore, StartDelete, StartUpdate, Read, SelectActive, Select, LookUp,
                SetCall
  <1>3. Close \/ ClosePool \/ UNCHANGED vars => UNCHANGED job
    BY DEF Close, ClosePool, vars
  <1>4. \A a, s : AppsChange(a, s) => UNCHANGED job
    BY DEF AppsChange
  <1> QED
    BY <1>1, <1>2, <1>3, <1>4 DEF Next, Poll, Callers, Reconcilers

\* Only Publish changes what is published.
LEMMA PublishedSteps ==
    ASSUME [Next]_vars
    PROVE  UNCHANGED <<elected, fp>> \/ \E j \in Reconcilers : Publish(j) /\ ~closed
  <1>1. ASSUME NEW p \in Pollers, List(p) \/ Poll(p) PROVE UNCHANGED <<elected, fp>>
    BY <1>1 DEF List, Poll, CompareFingerprint, Claim, GiveUp, SetPoll, state
  <1>2. ASSUME NEW j \in Reconcilers, Reconcile(j), ~Publish(j)
        PROVE  UNCHANGED <<elected, fp>>
    BY <1>2 DEF Reconcile, UpsertDetected, UndismissActive, UndismissAppProvided, PreWarm, state
  <1>3. ASSUME NEW j \in Reconcilers, Publish(j), closed PROVE UNCHANGED <<elected, fp>>
    BY <1>3 DEF Publish
  <1>4. ASSUME NEW k \in Callers, Handle(k) \/ Edit(k) \/ Read(k)
        PROVE  UNCHANGED <<elected, fp>>
    BY <1>4 DEF Handle, Open, CheckActive, RegistryDelete, RegistryUpdate, Evicting, EvictOld,
                Edit, AddStore, StartDelete, StartUpdate, Read, SelectActive, Select, LookUp,
                SetCall, state
  <1>5. Close \/ ClosePool \/ UNCHANGED vars => UNCHANGED <<elected, fp>>
    BY DEF Close, ClosePool, vars, state
  <1>6. \A a, s : AppsChange(a, s) => UNCHANGED <<elected, fp>>
    BY DEF AppsChange
  <1> QED
    BY <1>1, <1>2, <1>3, <1>4, <1>5, <1>6 DEF Next, Callers, Reconcilers

\* What a request has looked up is kept until it ends; then it may evict it.
LEMMA CallSteps ==
    ASSUME [Next]_vars
    PROVE  \/ UNCHANGED call
           \/ \E k \in Callers :
                 \/ call' = [call EXCEPT ![k] = NoCall]
                 \/ /\ call[k].phase \in {"deleting", "update"}
                    /\ call' = [call EXCEPT ![k] = [call[k] EXCEPT !.phase = "evict"]]
                 \/ CheckActive(k) \/ SelectActive(k)
                 \/ \E e \in entries, op \in {"delete", "update", "open"} : LookUp(k, op, e)
  <1>1. ASSUME NEW p \in Pollers, List(p) \/ Poll(p) PROVE UNCHANGED call
    BY <1>1 DEF List, Poll, CompareFingerprint, Claim, GiveUp, SetPoll
  <1>2. ASSUME NEW j \in Reconcilers, Reconcile(j) PROVE UNCHANGED call
    BY <1>2 DEF Reconcile, UpsertDetected, UndismissActive, UndismissAppProvided, Publish,
                PreWarm
  <1>3. ASSUME NEW k \in Callers, NEW n, NEW v,
               Open(k) \/ EvictOld(k) \/ AddStore(k, n, v)
        PROVE  call' = [call EXCEPT ![k] = NoCall]
    BY <1>3 DEF Open, EvictOld, AddStore, SetCall
  <1>4. ASSUME NEW k \in Callers, NEW n, NEW v, RegistryDelete(k) \/ RegistryUpdate(k, n, v)
        PROVE  \/ call' = [call EXCEPT ![k] = NoCall]
               \/ /\ call[k].phase \in {"deleting", "update"}
                  /\ call' = [call EXCEPT ![k] = [call[k] EXCEPT !.phase = "evict"]]
    BY <1>4 DEF RegistryDelete, RegistryUpdate, Evicting, SetCall
  <1>5. ASSUME NEW k \in Callers, Edit(k) \/ Read(k)
        PROVE  \/ \E n \in Names, v \in Values : AddStore(k, n, v)
               \/ SelectActive(k)
               \/ \E e \in entries, op \in {"delete", "update", "open"} : LookUp(k, op, e)
    BY <1>5 DEF Edit, Read, StartDelete, StartUpdate, Select
  <1>6. Close \/ ClosePool \/ UNCHANGED vars => UNCHANGED call
    BY DEF Close, ClosePool, vars
  <1>7. \A a, s : AppsChange(a, s) => UNCHANGED call
    BY DEF AppsChange
  <1> QED
    BY <1>1, <1>2, <1>3, <1>4, <1>5, <1>6, <1>7 DEF Next, Handle, Callers, Reconcilers

-----------------------------------------------------------------------------
(* Types                                                                   *)

\* What a caller gets from componentFor, and what a pool holds.
IsComponent(k) == Identity(k) \in Identities /\ k.secret \in Values \cup {NotPooled}

\* The registry's entries are sound, and no manual entry stands in the way of a file.
EntriesOK ==
    /\ Sound(entries)
    /\ \A c \in Comps : Apart(entries, PathOf[c])
    /\ userHid \subseteq Keys /\ raced \subseteq Keys

JobsOK ==
    \A j \in Reconcilers :
        \/ job[j].phase = "none"
        \/ /\ job[j].phase \in {"upsert", "undismiss", "prewarm"}
           /\ DOMAIN job[j] = {"phase", "apps", "todo", "reg"}
           /\ job[j].todo \subseteq Comps

CallsOK ==
    /\ DOMAIN call = Callers
    /\ \A k \in Callers :
          \/ call[k].phase = "idle"
          \/ /\ call[k].phase \in {"open", "delete", "deleting", "update", "evict"}
             /\ DOMAIN call[k] = {"phase", "id", "comp", "active"}
             /\ IsComponent(call[k].comp)

ElectedOK == elected \in Comps \cup {NoComp}

PoolOK ==
    /\ pool \in [Identities -> Values \cup {NotPooled}]
    /\ overtaken \subseteq Identities

FlagsOK ==
    /\ poolClosed \in BOOLEAN /\ closed \in BOOLEAN /\ reconciling \in BOOLEAN
    /\ \A p \in Pollers : poll[p].phase \in {"idle", "listed", "differs"}

Types == EntriesOK /\ JobsOK /\ CallsOK /\ ElectedOK /\ PoolOK /\ FlagsOK

\* A reconcile elects a component or none.
LEMMA ElectedInComps ==
    ASSUME NEW w \in World
    PROVE  /\ ElectedIn[w] \in Comps \cup {NoComp}
           /\ ElectedIn[w] # NoComp => ElectedIn[w] \in Detected(w)
  <1>1. Detected(w) \in SUBSET Comps
    BY DetectedComps
  <1> QED
    BY <1>1, ElectsDetected

LEMMA ProvidedDetected ==
    ASSUME NEW w \in World
    PROVE  ProvidedIn[w] \subseteq Detected(w)
  BY DEF ProvidedIn, AppProvided

\* First of what is left to do.
LEMMA FirstTodo ==
    ASSUME JobsOK, NEW j \in Reconcilers, job[j].phase # "none", job[j].todo # {}
    PROVE  /\ First(job[j].todo) \in job[j].todo
           /\ First(job[j].todo) \in Comps
           /\ PathOf[First(job[j].todo)] \in Paths
           /\ TypeOf[First(job[j].todo)] \in Values
           /\ NameOf[First(job[j].todo)] \in Names
  <1>1. job[j].todo \in SUBSET Comps
    BY DEF JobsOK
  <1>2. First(job[j].todo) \in job[j].todo
    BY <1>1, FirstOf
  <1> QED
    BY <1>1, <1>2, ReconcilerAssumption

LEMMA DocComponent ==
    ASSUME NEW c \in Comps
    PROVE  IsComponent(CompOfDoc(c))
  BY ReconcilerAssumption DEF IsComponent, Identities, CompOfDoc

\* componentForEntry returns a component of a file, of an entry, or a bare one.
LEMMA EntryComponent ==
    ASSUME NEW e \in ConnEntry
    PROVE  IsComponent(CompOf(e))
  <1>1. e.name \in Names /\ e.value \in Values
    BY DEF ConnEntry
  <1>2. CASE e.source = "manual"
    <2>1. CompOf(e) = CompOfManual(e)
      BY <1>2 DEF CompOf
    <2>2. Identity(CompOfManual(e)) = <<e.name, ConnOf[e.value]>>
          /\ CompOfManual(e).secret = e.value
      BY DEF CompOfManual, Identity
    <2> QED
      BY <1>1, <2>1, <2>2 DEF IsComponent, Identities
  <1>3. CASE e.source # "manual" /\ InFile(Norm[e.path]) = {}
    <2>1. CompOf(e) = Bare(e)
      BY <1>3 DEF CompOf
    <2>2. Identity(Bare(e)) = <<e.name, NoConn>> /\ Bare(e).secret = NotPooled
      BY DEF Bare, Identity
    <2> QED
      BY <1>1, <2>1, <2>2 DEF IsComponent, Identities
  <1>4. CASE e.source # "manual" /\ InFile(Norm[e.path]) # {}
    <2>1. CompOf(e) = CompOfDoc(First(InFile(Norm[e.path])))
      BY <1>4 DEF CompOf
    <2>2. InFile(Norm[e.path]) \in SUBSET Comps
      BY DEF InFile
    <2>3. First(InFile(Norm[e.path])) \in Comps
      BY <1>4, <2>2, FirstOf
    <2> QED
      BY <2>1, <2>3, DocComponent
  <1> QED
    BY <1>2, <1>3, <1>4

-----------------------------------------------------------------------------
(* What a step shows and hides                                             *)

Key(c) == Norm[PathOf[c]]

\* The file of a component is in the registry, and its entry is dismissed.
Registered(c) == Known(entries, PathOf[c])

LEMMA HiddenEntries == \A c : Hidden(c) <=> HiddenIn(entries, PathOf[c])
  BY DEF Hidden, HiddenIn

\* The registered component c is hidden after the step only if it was before and the
\* history still tells why, or DeleteStore hides it now.
StaysOrDeleted(c) ==
    \/ /\ Hidden(c)
       /\ Key(c) \in userHid => Key(c) \in userHid'
       /\ Key(c) \in raced => Key(c) \in raced'
    \/ \E k \in Callers :
          /\ call[k].phase = "deleting" /\ call[k].id = AutoId(PathOf[c])
          /\ Key(c) \in userHid'
          /\ ElectionOverlaps(k, Key(c)) => Key(c) \in raced'

Effect ==
    /\ EntriesOK'
    /\ \A c \in Comps : Registered(c) =>
          Registered(c)' /\ (Hidden(c)' => StaysOrDeleted(c))

LEMMA KeyType == \A c \in Comps : PathOf[c] \in Paths /\ Key(c) \in Keys
  BY ReconcilerAssumption, NormAssumption DEF Key, AllPaths

LEMMA UpsertEffect ==
    ASSUME Types, NEW j \in Reconcilers, UpsertDetected(j), NEW d, d = First(job[j].todo)
    PROVE  Effect /\ Registered(d)'
  <1> DEFINE U == Upserted(entries, PathOf[d], NameOf[d], TypeOf[d])
  <1>1. /\ d \in Comps /\ PathOf[d] \in Paths /\ NameOf[d] \in Names /\ TypeOf[d] \in Values
        /\ entries' = U /\ UNCHANGED <<userHid, raced>>
    BY FirstTodo DEF UpsertDetected, Types
  <1>2. Sound(entries) /\ \A c \in Comps : Apart(entries, PathOf[c])
    BY DEF Types, EntriesOK
  <1> HIDE DEF U
  <1>3. ASSUME NEW c \in Comps
        PROVE  /\ Known(entries, PathOf[c]) \/ Norm[PathOf[d]] = Norm[PathOf[c]] =>
                     Known(U, PathOf[c])
               /\ HiddenIn(U, PathOf[c]) => HiddenIn(entries, PathOf[c])
               /\ Apart(U, PathOf[c])
    <2>1. PathOf[c] \in Paths
      BY KeyType
    <2> QED
      BY <1>1, <1>2, <2>1, UpsertedShows DEF U
  <1>4. Sound(U)
    BY <1>1, <1>2, UpsertedSound DEF U
  <1>5. Registered(d)'
    BY <1>1, <1>3 DEF Registered
  <1>6. EntriesOK'
    BY <1>1, <1>3, <1>4 DEF EntriesOK, Types
  <1>7. \A c \in Comps : (Hidden(c))' => HiddenIn(U, PathOf[c])
    BY <1>1 DEF Hidden, HiddenIn
  <1>8. \A c \in Comps : Registered(c) => Registered(c)' /\ (Hidden(c)' => StaysOrDeleted(c))
    BY <1>1, <1>3, <1>7, HiddenEntries DEF Registered, StaysOrDeleted
  <1> QED
    BY <1>5, <1>6, <1>8 DEF Effect

LEMMA UndismissFileEffect ==
    ASSUME Types, NEW d \in Comps, UndismissFile(PathOf[d])
    PROVE  /\ Effect
           /\ Registered(d) => ~Hidden(d)'
  <1> DEFINE U == Undismissed(entries, PathOf[d])
  <1>1. /\ entries' = U
        /\ userHid' = userHid \ {Key(d)} /\ raced' = raced \ {Key(d)}
    BY DEF UndismissFile, Key
  <1>2. Sound(entries) /\ \A c \in Comps : Apart(entries, PathOf[c])
    BY DEF Types, EntriesOK
  <1> HIDE DEF U
  <1>3. ASSUME NEW c \in Comps
        PROVE  /\ Known(entries, PathOf[c]) => Known(U, PathOf[c])
               /\ Known(entries, PathOf[c]) /\ Key(d) = Key(c) => ~HiddenIn(U, PathOf[c])
               /\ HiddenIn(U, PathOf[c]) => HiddenIn(entries, PathOf[c])
               /\ Apart(U, PathOf[c])
    <2>1. PathOf[c] \in Paths /\ PathOf[d] \in Paths
      BY KeyType
    <2> QED
      BY <1>1, <1>2, <2>1, UndismissedShows DEF U, Key
  <1>4. Sound(U)
    BY <1>2, UndismissedSound, KeyType DEF U
  <1>5. EntriesOK'
    BY <1>1, <1>3, <1>4 DEF EntriesOK, Types
  <1>6. \A c \in Comps : (Hidden(c))' => HiddenIn(U, PathOf[c])
    BY <1>1 DEF Hidden, HiddenIn
  <1>7. ASSUME NEW c \in Comps, Registered(c)
        PROVE  Registered(c)' /\ (Hidden(c)' => StaysOrDeleted(c)) /\ (c = d => ~Hidden(c)')
    <2>1. Registered(c)'
      BY <1>1, <1>3, <1>7 DEF Registered
    <2>2. Hidden(c)' => Hidden(c) /\ Key(c) # Key(d)
      BY <1>3, <1>6, <1>7, HiddenEntries DEF Registered
    <2> QED
      BY <1>1, <2>1, <2>2 DEF StaysOrDeleted
  <1> QED
    BY <1>5, <1>7 DEF Effect

\* AddStore and UpdateStore leave the entries of files as they are.
LEMMA ManualEffect ==
    ASSUME Types, NEW F, Sound(F), entries' = F, UNCHANGED <<userHid, raced>>,
           NEW n \in Names, NEW v \in Values, F \subseteq entries \cup {ManualEntry(n, NoPath, v)},
           \A e \in entries : e.source = "auto" => e \in F
    PROVE  Effect
  <1>2. Sound(entries) /\ \A c \in Comps : Apart(entries, PathOf[c])
    BY DEF Types, EntriesOK
  <1>3. ASSUME NEW c \in Comps
        PROVE  /\ Known(entries, PathOf[c]) => Known(F, PathOf[c])
               /\ HiddenIn(F, PathOf[c]) => HiddenIn(entries, PathOf[c])
               /\ Apart(F, PathOf[c])
    <2>1. PathOf[c] \in Paths
      BY KeyType
    <2> QED
      BY <1>2, <2>1, ManualShows
  <1>4. EntriesOK'
    BY <1>3 DEF EntriesOK, Types
  <1>5. \A c \in Comps : (Hidden(c))' => HiddenIn(F, PathOf[c])
    BY DEF Hidden, HiddenIn
  <1>6. \A c \in Comps : Registered(c) => Registered(c)' /\ (Hidden(c)' => StaysOrDeleted(c))
    BY <1>3, <1>5, HiddenEntries DEF Registered, StaysOrDeleted
  <1> QED
    BY <1>4, <1>6 DEF Effect

\* DeleteStore hides the file its id names, and the history says so.
LEMMA DeleteEffect ==
    ASSUME Types, NEW k \in Callers, RegistryDelete(k)
    PROVE  Effect
  <1> DEFINE D == Deleted(entries, call[k].id)
             gone == {e \in entries : e.id = call[k].id}
             hidden == {Norm[e.path] : e \in {e \in gone : e.source = "auto"}}
  <1>1. /\ entries' = D
        /\ userHid' = userHid \cup hidden
        /\ raced' = raced \cup {f \in hidden : ElectionOverlaps(k, f)}
        /\ call[k].phase = "deleting"
    BY DEF RegistryDelete
  <1>2. Sound(entries) /\ \A c \in Comps : Apart(entries, PathOf[c])
    BY DEF Types, EntriesOK
  <1>3. hidden \subseteq Keys
    BY <1>2, NormAssumption DEF Sound, ConnEntry
  <1> HIDE DEF D, hidden
  <1>4. ASSUME NEW c \in Comps
        PROVE  /\ Known(entries, PathOf[c]) => Known(D, PathOf[c])
               /\ HiddenIn(D, PathOf[c]) =>
                     HiddenIn(entries, PathOf[c])
                     \/ (call[k].id = AutoId(PathOf[c]) /\ Key(c) \in hidden)
               /\ Apart(D, PathOf[c])
    <2>1. PathOf[c] \in Paths
      BY KeyType
    <2>2. (\E e \in entries : /\ e.id = call[k].id /\ e.source = "auto"
                              /\ Norm[e.path] = Norm[PathOf[c]])
          => Key(c) \in hidden
      BY DEF hidden, Key
    <2> QED
      BY <1>2, <2>1, <2>2, DeletedShows DEF D
  <1>5. Sound(D)
    BY <1>2, DeletedSound DEF D
  <1>6. EntriesOK'
    BY <1>1, <1>3, <1>4, <1>5 DEF EntriesOK, Types
  <1>7. \A c \in Comps : (Hidden(c))' => HiddenIn(D, PathOf[c])
    BY <1>1 DEF Hidden, HiddenIn
  <1>8. \A c \in Comps : Registered(c) => Registered(c)' /\ (Hidden(c)' => StaysOrDeleted(c))
    BY <1>1, <1>4, <1>7, HiddenEntries DEF Registered, StaysOrDeleted
  <1> QED
    BY <1>6, <1>8 DEF Effect

LEMMA UnchangedEffect ==
    ASSUME Types, UNCHANGED store
    PROVE  Effect
  <1>1. UNCHANGED <<entries, userHid, raced>>
    BY DEF store
  <1>2. EntriesOK'
    BY <1>1 DEF Types, EntriesOK
  <1>3. \A c : (Registered(c) => Registered(c)') /\ (Hidden(c)' => Hidden(c))
    BY <1>1 DEF Registered, Hidden
  <1> QED
    BY <1>1, <1>2, <1>3 DEF Effect, StaysOrDeleted

\* The component a running reconcile elects.
LEMMA RegInComps ==
    ASSUME Inv, NEW j \in Reconcilers, job[j].phase # "none"
    PROVE  /\ job[j].apps \in World
           /\ job[j].reg = ElectedIn[job[j].apps]
           /\ job[j].reg \in Comps \cup {NoComp}
           /\ job[j].reg # NoComp => job[j].reg \in Detected(job[j].apps)
  <1>1. job[j].apps \in World /\ job[j].reg = ElectedIn[job[j].apps]
    BY DEF Inv, Lists
  <1> QED
    BY <1>1, ElectedInComps

LEMMA StepEffect ==
    ASSUME Inv, Types, [Next]_vars
    PROVE  Effect
  <1>1. ASSUME NEW j \in Reconcilers, UndismissActive(j)
        PROVE  Effect
    <2>1. job[j].reg \in Comps \cup {NoComp}
      BY <1>1, RegInComps DEF UndismissActive
    <2>2. \/ UNCHANGED store
          \/ job[j].reg # NoComp /\ UndismissFile(PathOf[job[j].reg])
      BY <1>1 DEF UndismissActive
    <2> QED
      BY <2>1, <2>2, UnchangedEffect, UndismissFileEffect
  <1>2. ASSUME NEW j \in Reconcilers, UndismissAppProvided(j)
        PROVE  Effect
    <2>1. First(job[j].todo) \in Comps /\ UndismissFile(PathOf[First(job[j].todo)])
      BY <1>2, FirstTodo DEF UndismissAppProvided, Types
    <2> QED
      BY <2>1, UndismissFileEffect
  <1>3. ASSUME NEW k \in Callers, NEW n \in Names, NEW v \in Values, AddStore(k, n, v)
        PROVE  Effect
    <2> DEFINE F == Added(entries, n, NoPath, v)
    <2>1. entries' = F /\ UNCHANGED <<userHid, raced>> /\ ManualNamed(entries, n) = {}
      BY <1>3 DEF AddStore
    <2>2. Sound(F)
      BY <2>1, AddedSound DEF Types, EntriesOK
    <2>3. F = entries \cup {ManualEntry(n, NoPath, v)}
      BY DEF Added
    <2> HIDE DEF F
    <2> QED
      BY <2>1, <2>2, <2>3, ManualEffect
  <1>4. ASSUME NEW k \in Callers, NEW n \in Names, NEW v \in Values, RegistryUpdate(k, n, v)
        PROVE  Effect
    <2> DEFINE id == call[k].id
               F == Updated(entries, id, n, NoPath, v)
    <2>1. CASE Updatable(entries, id) = {} \/ RenameClash(entries, id, n)
      <3>1. UNCHANGED store
        BY <1>4, <2>1 DEF RegistryUpdate, store
      <3> QED
        BY <3>1, UnchangedEffect
    <2>2. CASE ~(Updatable(entries, id) = {} \/ RenameClash(entries, id, n))
      <3>1. entries' = F /\ UNCHANGED <<userHid, raced>>
        BY <1>4, <2>2 DEF RegistryUpdate
      <3>2. Sound(F)
        BY <2>2, UpdatedSound DEF Types, EntriesOK
      <3>3. /\ F \subseteq entries \cup {ManualEntry(n, NoPath, v)}
            /\ \A e \in entries : e.source = "auto" => e \in F
        BY DEF Updated, Updatable
      <3> HIDE DEF F
      <3> QED
        BY <3>1, <3>2, <3>3, ManualEffect
    <2> QED
      BY <2>1, <2>2
  <1> QED
    BY <1>1, <1>2, <1>3, <1>4, StoreSteps, UnchangedEffect, UpsertEffect, DeleteEffect

-----------------------------------------------------------------------------
(* Types are kept                                                          *)

LEMMA JobsKept ==
    ASSUME Inv, Types, [Next]_vars
    PROVE  JobsOK'
  <1>1. ASSUME NEW j \in Reconcilers, NEW r, SetJob(j, r),
               \/ r.phase = "none"
               \/ /\ r.phase \in {"upsert", "undismiss", "prewarm"}
                  /\ DOMAIN r = {"phase", "apps", "todo", "reg"}
                  /\ r.todo \subseteq Comps
        PROVE  JobsOK'
    <2>1. job'[j] = r /\ \A i \in Reconcilers \ {j} : job'[i] = job[i]
      BY <1>1 DEF SetJob, Inv, Exclusive
    <2> QED
      BY <1>1, <2>1 DEF JobsOK, Types
  <1>2. CASE UNCHANGED job
    BY <1>2 DEF JobsOK, Types
  <1>3. ASSUME NEW p \in Pollers, Claim(p)
        PROVE  JobsOK'
    <2>1. poll[p].apps \in World
      BY <1>3 DEF Claim, Inv, Lists
    <2>2. Detected(poll[p].apps) \subseteq Comps
      BY <2>1, DetectedComps
    <2> DEFINE r == Start(poll[p].apps)
    <2>3. /\ r.phase = "upsert" /\ DOMAIN r = {"phase", "apps", "todo", "reg"}
          /\ r.todo = Detected(poll[p].apps)
      BY DEF Start
    <2>4. SetJob(p, r) /\ p \in Reconcilers
      BY <1>3 DEF Claim, SetJob, Reconcilers
    <2> HIDE DEF r
    <2> QED
      BY <1>1, <2>2, <2>3, <2>4
  <1>4. ASSUME NEW j \in Reconcilers, UpsertDetected(j) \/ UndismissAppProvided(j)
        PROVE  JobsOK'
    <2> DEFINE r == [job[j] EXCEPT !.todo = @ \ {First(job[j].todo)}]
    <2>1. SetJob(j, r) /\ job[j].phase \in {"upsert", "undismiss"}
      BY <1>4 DEF UpsertDetected, UndismissAppProvided
    <2>2. DOMAIN job[j] = {"phase", "apps", "todo", "reg"} /\ job[j].todo \subseteq Comps
      BY <2>1 DEF Types, JobsOK
    <2>3. /\ r.phase = job[j].phase /\ DOMAIN r = DOMAIN job[j]
          /\ r.todo = job[j].todo \ {First(job[j].todo)}
      BY <2>2
    <2> HIDE DEF r
    <2> QED
      BY <1>1, <2>1, <2>2, <2>3
  <1>5. ASSUME NEW j \in Reconcilers, UndismissActive(j)
        PROVE  JobsOK'
    <2> DEFINE r == [job[j] EXCEPT !.phase = "undismiss", !.todo = ProvidedIn[job[j].apps]]
    <2>1. SetJob(j, r) /\ job[j].phase = "upsert"
      BY <1>5 DEF UndismissActive
    <2>2. DOMAIN job[j] = {"phase", "apps", "todo", "reg"}
      BY <2>1 DEF Types, JobsOK
    <2>3. ProvidedIn[job[j].apps] \subseteq Comps
      BY <2>1, RegInComps, ProvidedDetected, DetectedComps
    <2>4. /\ r.phase = "undismiss" /\ DOMAIN r = DOMAIN job[j]
          /\ r.todo = ProvidedIn[job[j].apps]
      BY <2>2
    <2> HIDE DEF r
    <2> QED
      BY <1>1, <2>1, <2>2, <2>3, <2>4
  <1>6. ASSUME NEW j \in Reconcilers, Publish(j) \/ PreWarm(j)
        PROVE  JobsOK'
    <2> DEFINE r == [job[j] EXCEPT !.phase = "prewarm"]
    <2>1. \/ SetJob(j, NoJob)
          \/ SetJob(j, r) /\ job[j].phase = "undismiss"
      BY <1>6 DEF Publish, PreWarm
    <2>2. CASE SetJob(j, NoJob)
      <3>1. NoJob.phase = "none"
        BY DEF NoJob
      <3> QED
        BY <1>1, <2>2, <3>1
    <2>3. CASE SetJob(j, r) /\ job[j].phase = "undismiss"
      <3>1. DOMAIN job[j] = {"phase", "apps", "todo", "reg"} /\ job[j].todo \subseteq Comps
        BY <2>3 DEF Types, JobsOK
      <3>2. r.phase = "prewarm" /\ DOMAIN r = DOMAIN job[j] /\ r.todo = job[j].todo
        BY <3>1
      <3> HIDE DEF r
      <3> QED
        BY <1>1, <2>3, <3>1, <3>2
    <2> QED
      BY <2>1, <2>2, <2>3
  <1> QED
    BY <1>2, <1>3, <1>4, <1>5, <1>6, JobSteps DEF Reconcile

\* One call changes.
LEMMA OneCall ==
    ASSUME CallsOK, NEW k \in Callers, NEW r, call' = [call EXCEPT ![k] = r]
    PROVE  /\ DOMAIN call' = Callers
           /\ call'[k] = r /\ \A i \in Callers \ {k} : call'[i] = call[i]
  BY DEF CallsOK

LEMMA CallsKept ==
    ASSUME Types, [Next]_vars
    PROVE  CallsOK'
  <1>1. ASSUME NEW k \in Callers, NEW r, call' = [call EXCEPT ![k] = r],
               \/ r.phase = "idle"
               \/ /\ r.phase \in {"open", "delete", "deleting", "update", "evict"}
                  /\ DOMAIN r = {"phase", "id", "comp", "active"}
                  /\ IsComponent(r.comp)
        PROVE  CallsOK'
    <2>1. CallsOK
      BY DEF Types
    <2>2. /\ DOMAIN call' = Callers
          /\ call'[k] = r /\ \A i \in Callers \ {k} : call'[i] = call[i]
      BY <1>1, <2>1, OneCall
    <2>3. \A c : IsComponent(c)' <=> IsComponent(c)
      BY DEF IsComponent
    <2> QED
      BY <1>1, <2>1, <2>2, <2>3 DEF CallsOK
  <1>2. CASE UNCHANGED call
    BY <1>2 DEF CallsOK, Types, IsComponent
  <1>3. ASSUME NEW k \in Callers, call' = [call EXCEPT ![k] = NoCall]
        PROVE  CallsOK'
    BY <1>1, <1>3 DEF NoCall
  <1>4. ASSUME NEW k \in Callers, NEW r, call[k].phase # "idle",
               r.phase \in {"deleting", "evict"}, r.comp = call[k].comp, DOMAIN r = DOMAIN call[k],
               call' = [call EXCEPT ![k] = r]
        PROVE  CallsOK'
    <2>1. DOMAIN call[k] = {"phase", "id", "comp", "active"} /\ IsComponent(call[k].comp)
      BY <1>4 DEF Types, CallsOK
    <2> QED
      BY <1>1, <1>4, <2>1
  <1>5. ASSUME NEW k \in Callers, CheckActive(k)
        PROVE  CallsOK'
    <2> DEFINE r == [call[k] EXCEPT !.phase = "deleting", !.active = elected]
    <2>1. \/ call' = [call EXCEPT ![k] = NoCall]
          \/ call' = [call EXCEPT ![k] = r]
      BY <1>5 DEF CheckActive, SetCall
    <2>2. call[k].phase = "delete"
      BY <1>5 DEF CheckActive
    <2>3. DOMAIN call[k] = {"phase", "id", "comp", "active"}
      BY <2>2 DEF Types, CallsOK
    <2>4. r.phase = "deleting" /\ r.comp = call[k].comp /\ DOMAIN r = DOMAIN call[k]
      BY <2>3
    <2> HIDE DEF r
    <2> QED
      BY <1>3, <1>4, <2>1, <2>2, <2>4
  <1>6. ASSUME NEW k \in Callers, call[k].phase \in {"deleting", "update"},
               call' = [call EXCEPT ![k] = [call[k] EXCEPT !.phase = "evict"]]
        PROVE  CallsOK'
    <2> DEFINE r == [call[k] EXCEPT !.phase = "evict"]
    <2>1. DOMAIN call[k] = {"phase", "id", "comp", "active"}
      BY <1>6 DEF Types, CallsOK
    <2>2. r.phase = "evict" /\ r.comp = call[k].comp /\ DOMAIN r = DOMAIN call[k]
      BY <2>1
    <2>3. call' = [call EXCEPT ![k] = r]
      BY <1>6
    <2>4. call[k].phase # "idle"
      BY <1>6
    <2> HIDE DEF r
    <2> QED
      BY <1>4, <2>2, <2>3, <2>4
  <1>7. ASSUME NEW k \in Callers, SelectActive(k)
        PROVE  CallsOK'
    <2> DEFINE r == [phase |-> "open", id |-> NoId, comp |-> CompOfDoc(elected),
                     active |-> elected]
    <2>1. elected \in Comps /\ call' = [call EXCEPT ![k] = r]
      BY <1>7 DEF SelectActive, SetCall, Types, ElectedOK
    <2>2. r.phase = "open" /\ DOMAIN r = {"phase", "id", "comp", "active"}
          /\ r.comp = CompOfDoc(elected)
      OBVIOUS
    <2> HIDE DEF r
    <2> QED
      BY <1>1, <2>1, <2>2, DocComponent
  <1>8. ASSUME NEW k \in Callers, NEW e \in entries, NEW op \in {"delete", "update", "open"},
               LookUp(k, op, e)
        PROVE  CallsOK'
    <2> DEFINE r == [phase |-> op, id |-> e.id, comp |-> CompOf(e), active |-> NoComp]
    <2>1. call' = [call EXCEPT ![k] = r] /\ e \in ConnEntry
      BY <1>8 DEF LookUp, SetCall, Types, EntriesOK, Sound
    <2>2. r.phase = op /\ DOMAIN r = {"phase", "id", "comp", "active"} /\ r.comp = CompOf(e)
      OBVIOUS
    <2> HIDE DEF r
    <2> QED
      BY <1>1, <2>1, <2>2, EntryComponent
  <1> QED
    BY <1>2, <1>3, <1>5, <1>6, <1>7, <1>8, CallSteps

LEMMA ElectedKept ==
    ASSUME Inv, Types, [Next]_vars
    PROVE  ElectedOK'
  <1>1. CASE UNCHANGED <<elected, fp>>
    BY <1>1 DEF Types, ElectedOK
  <1>2. ASSUME NEW j \in Reconcilers, Publish(j), ~closed
        PROVE  ElectedOK'
    <2>1. elected' = job[j].reg /\ job[j].phase # "none"
      BY <1>2 DEF Publish
    <2> QED
      BY <2>1, RegInComps DEF ElectedOK
  <1> QED
    BY <1>1, <1>2, PublishedSteps

LEMMA FlagsKept ==
    ASSUME Types, [Next]_vars
    PROVE  FlagsOK'
  <1> USE DEF Types, FlagsOK
  <1>1. ASSUME NEW p \in Pollers, List(p) \/ Poll(p)
        PROVE  FlagsOK'
    <2>1. UNCHANGED <<poolClosed, closed>> /\ reconciling' \in BOOLEAN
      BY <1>1 DEF List, Poll, CompareFingerprint, Claim, GiveUp, SetPoll, conns, state
    <2>2. PICK r : /\ poll' = [poll EXCEPT ![p] = r]
                   /\ r.phase \in {"idle", "listed", "differs"}
      <3>1. CASE Claim(p) \/ GiveUp(p)
        BY <3>1 DEF Claim, GiveUp, SetPoll, IdlePoll
      <3>2. CASE List(p)
        <4> DEFINE r == [phase |-> "listed", apps |-> world]
        <4>1. poll' = [poll EXCEPT ![p] = r] /\ r.phase = "listed"
          BY <3>2 DEF List, SetPoll
        <4> HIDE DEF r
        <4> QED
          BY <4>1
      <3>3. CASE CompareFingerprint(p)
        <4> DEFINE r == [poll[p] EXCEPT !.phase = "differs"]
        <4>1. poll' = [poll EXCEPT ![p] = IdlePoll] \/ poll' = [poll EXCEPT ![p] = r]
          BY <3>3 DEF CompareFingerprint, SetPoll
        <4>2. r.phase \in {"differs", poll[p].phase} /\ IdlePoll.phase = "idle"
          BY DEF IdlePoll
        <4> HIDE DEF r
        <4> QED
          BY <4>1, <4>2
      <3> QED
        BY <1>1, <3>1, <3>2, <3>3 DEF Poll
    <2>3. \A q \in Pollers : poll'[q] = r \/ poll'[q] = poll[q]
      BY <2>2
    <2> QED
      BY <2>1, <2>2, <2>3
  <1>2. ASSUME NEW j \in Reconcilers, Reconcile(j)
        PROVE  FlagsOK'
    BY <1>2 DEF Reconcile, UpsertDetected, UndismissActive, UndismissAppProvided, Publish,
                PreWarm, conns, state
  <1>3. ASSUME NEW k \in Callers, Handle(k) \/ Edit(k) \/ Read(k)
        PROVE  UNCHANGED <<poolClosed, closed, reconciling, poll>>
    BY <1>3 DEF Handle, Open, CheckActive, RegistryDelete, RegistryUpdate, Evicting, EvictOld,
                Edit, AddStore, StartDelete, StartUpdate, Read, SelectActive, Select, LookUp,
                SetCall, state, conns
  <1>4. CASE Close \/ ClosePool \/ UNCHANGED vars
    BY <1>4 DEF Close, ClosePool, vars, conns, state
  <1>5. \A a, s : AppsChange(a, s) => UNCHANGED <<poolClosed, closed, reconciling, poll>>
    BY DEF AppsChange
  <1> QED
    BY <1>1, <1>2, <1>3, <1>4, <1>5 DEF Next, Callers, Reconcilers

-----------------------------------------------------------------------------
(* The pool                                                                *)

ManualStay == \A e \in entries : e.source = "manual" => e \in entries'
EvictStay  == \A k \in Callers : call[k].phase = "evict" => call'[k] = call[k]

\* Five places change the pool or what accounts for it.
LEMMA PoolSteps ==
    ASSUME Inv, Types, [Next]_vars
    PROVE  \/ UNCHANGED <<pool, overtaken>> /\ ManualStay /\ EvictStay
           \/ \E j \in Reconcilers : PreWarm(j)
           \/ \E k \in Callers : Open(k) \/ EvictOld(k) \/ RegistryDelete(k)
           \/ \E k \in Callers, n \in Names, v \in Values : RegistryUpdate(k, n, v)
           \/ ClosePool
  <1> DEFINE Quiet == UNCHANGED <<pool, overtaken>> /\ ManualStay /\ EvictStay
  <1>1. UNCHANGED <<entries, call, pool, overtaken>> => Quiet
    BY DEF ManualStay, EvictStay
  <1>2. ASSUME NEW p \in Pollers, List(p) \/ Poll(p)
        PROVE  Quiet
    BY <1>1, <1>2
    DEF List, Poll, CompareFingerprint, Claim, GiveUp, SetPoll, conns, store
  <1>3. ASSUME NEW j \in Reconcilers, Publish(j)
        PROVE  Quiet
    BY <1>1, <1>3 DEF Publish, conns, store
  <1>4. ASSUME NEW j \in Reconcilers,
               UpsertDetected(j) \/ UndismissActive(j) \/ UndismissAppProvided(j)
        PROVE  Quiet
    <2>1. UNCHANGED <<call, pool, overtaken>>
      BY <1>4 DEF UpsertDetected, UndismissActive, UndismissAppProvided, conns
    <2>2. Sound(entries)
      BY DEF Types, EntriesOK
    <2>3. CASE UpsertDetected(j)
      <3> DEFINE d == First(job[j].todo)
      <3>1. /\ entries' = Upserted(entries, PathOf[d], NameOf[d], TypeOf[d])
            /\ PathOf[d] \in Paths /\ NameOf[d] \in Names /\ TypeOf[d] \in Values
        BY <2>3, FirstTodo DEF UpsertDetected, Types
      <3> QED
        BY <2>1, <2>2, <3>1, UpsertedSound DEF ManualStay, EvictStay
    <2>4. ASSUME NEW d \in Comps, UndismissFile(PathOf[d])
          PROVE  ManualStay
      <3>1. entries' = Undismissed(entries, PathOf[d]) /\ PathOf[d] \in Paths
        BY <2>4, KeyType DEF UndismissFile
      <3> QED
        BY <2>2, <3>1, UndismissedSound DEF ManualStay
    <2>5. CASE UndismissActive(j)
      <3>1. job[j].reg \in Comps \cup {NoComp}
        BY <2>5, RegInComps DEF UndismissActive
      <3>2. UNCHANGED store \/ (job[j].reg # NoComp /\ UndismissFile(PathOf[job[j].reg]))
        BY <2>5 DEF UndismissActive
      <3>3. ManualStay
        BY <2>4, <3>1, <3>2 DEF ManualStay, store
      <3> QED
        BY <2>1, <3>3 DEF EvictStay
    <2>6. CASE UndismissAppProvided(j)
      <3>1. First(job[j].todo) \in Comps /\ UndismissFile(PathOf[First(job[j].todo)])
        BY <2>6, FirstTodo DEF UndismissAppProvided, Types
      <3>2. ManualStay
        BY <2>4, <3>1
      <3> QED
        BY <2>1, <3>2 DEF EvictStay
    <2> QED
      BY <1>4, <2>3, <2>5, <2>6
  <1>5. ASSUME NEW k \in Callers, NEW r, SetCall(k, r), call[k].phase # "evict",
               UNCHANGED <<pool, overtaken>>, ManualStay
        PROVE  Quiet
    <2>1. \A i \in Callers \ {k} : call'[i] = call[i]
      BY <1>5 DEF SetCall, Types, CallsOK
    <2> QED
      BY <1>5, <2>1 DEF EvictStay
  <1>6. ASSUME NEW k \in Callers, NEW n \in Names, NEW v \in Values, AddStore(k, n, v)
        PROVE  Quiet
    <2>1. /\ SetCall(k, NoCall) /\ call[k].phase # "evict" /\ UNCHANGED <<pool, overtaken>>
          /\ entries' = Added(entries, n, NoPath, v)
      BY <1>6 DEF AddStore, conns
    <2>2. ManualStay
      BY <2>1 DEF ManualStay, Added
    <2> QED
      BY <1>5, <2>1, <2>2
  <1>7. ASSUME NEW k \in Callers, NEW r, SetCall(k, r), call[k].phase # "evict",
               UNCHANGED <<store, conns>>
        PROVE  Quiet
    <2>1. UNCHANGED <<pool, overtaken, entries>>
      BY <1>7 DEF store, conns
    <2> QED
      BY <1>5, <1>7, <2>1 DEF ManualStay
  <1>8. ASSUME NEW k \in Callers, CheckActive(k) \/ SelectActive(k)
        PROVE  Quiet
    BY <1>7, <1>8 DEF CheckActive, SelectActive
  <1>9. ASSUME NEW k \in Callers, NEW e, NEW op, LookUp(k, op, e)
        PROVE  Quiet
    BY <1>7, <1>9 DEF LookUp
  <1>10. Close \/ UNCHANGED vars => Quiet
    BY <1>1 DEF Close, vars, store, conns
  <1>11. \A a, s : AppsChange(a, s) => Quiet
    BY <1>1 DEF AppsChange
  <1> HIDE DEF Quiet
  <1>12. ASSUME NEW k \in Callers, Edit(k) \/ Read(k)
         PROVE  Quiet
    BY <1>6, <1>8, <1>9, <1>12 DEF Edit, Read, StartDelete, StartUpdate, Select
  <1> QED
    BY <1>2, <1>3, <1>4, <1>8, <1>10, <1>11, <1>12
    DEF Next, Reconcile, Handle, Callers, Reconcilers, Quiet

LEMMA OpenKeepsPool ==
    ASSUME PoolOK, NEW k, IsComponent(k), OpenOrGet(k)
    PROVE  PoolOK'
  BY DEF PoolOK, OpenOrGet, IsComponent

\* The registry accounts for identities of its entries.
LEMMA EvictingKeepsPool ==
    ASSUME Types, NEW k, NEW changed \in SUBSET entries, Evicting(k, changed), UNCHANGED pool
    PROVE  PoolOK'
  <1>1. \A e \in changed : Identity(CompOf(e)) \in Identities
    BY EntryComponent DEF Types, EntriesOK, Sound, IsComponent
  <1>2. /\ overtaken' \subseteq overtaken \cup {Identity(CompOf(e)) : e \in changed}
    BY DEF Evicting
  <1> QED
    BY <1>1, <1>2 DEF Types, PoolOK

LEMMA PoolKept ==
    ASSUME Inv, Types, [Next]_vars
    PROVE  PoolOK'
  <1>1. PoolOK
    BY DEF Types
  <1>2. UNCHANGED <<pool, overtaken>> => PoolOK'
    BY <1>1 DEF PoolOK
  <1>3. ASSUME NEW j \in Reconcilers, PreWarm(j)
        PROVE  PoolOK'
    <2>1. job[j].reg \in Comps \cup {NoComp}
      BY <1>3, RegInComps DEF PreWarm
    <2>2. UNCHANGED <<pool, overtaken>> \/
          (job[j].reg # NoComp /\ OpenOrGet(CompOfDoc(job[j].reg)))
      BY <1>3 DEF PreWarm
    <2> QED
      BY <1>1, <1>2, <2>1, <2>2, DocComponent, OpenKeepsPool
  <1>4. ASSUME NEW k \in Callers, Open(k) \/ EvictOld(k)
        PROVE  PoolOK'
    <2>1. IsComponent(call[k].comp)
      BY <1>4 DEF Open, EvictOld, Types, CallsOK
    <2>2. OpenOrGet(call[k].comp) \/ Evict(call[k].comp)
      BY <1>4 DEF Open, EvictOld
    <2>3. Evict(call[k].comp) => PoolOK'
      BY <1>1 DEF Evict, PoolOK
    <2> QED
      BY <1>1, <2>1, <2>2, <2>3, OpenKeepsPool
  <1>5. ASSUME NEW k \in Callers, RegistryDelete(k)
        PROVE  PoolOK'
    <2>1. Evicting(k, {e \in entries : e.id = call[k].id}) /\ UNCHANGED pool
      BY <1>5 DEF RegistryDelete
    <2> QED
      BY <2>1, EvictingKeepsPool
  <1>6. ASSUME NEW k \in Callers, NEW n \in Names, NEW v \in Values, RegistryUpdate(k, n, v)
        PROVE  PoolOK'
    <2>1. UNCHANGED pool
          /\ (UNCHANGED overtaken \/ Evicting(k, Updatable(entries, call[k].id)))
      BY <1>6 DEF RegistryUpdate
    <2>2. Updatable(entries, call[k].id) \in SUBSET entries
      BY DEF Updatable
    <2> QED
      BY <1>2, <2>1, <2>2, EvictingKeepsPool
  <1>7. ClosePool => PoolOK'
    BY <1>1 DEF ClosePool, PoolOK
  <1> QED
    BY <1>2, <1>3, <1>4, <1>5, <1>6, <1>7, PoolSteps

LEMMA TypesKept ==
    ASSUME Inv, Types, [Next]_vars
    PROVE  Types'
  BY StepEffect, JobsKept, CallsKept, ElectedKept, PoolKept, FlagsKept DEF Types, Effect

-----------------------------------------------------------------------------
(* The tombstones a reconcile clears                                       *)

\* What the reconcile of j has done so far: the stores it is through with are
\* registered, and are hidden only by a DeleteStore that the history knows of.
Done(j) ==
    /\ job[j].phase = "upsert" =>
          \A c \in Detected(job[j].apps) \ job[j].todo : Registered(c)
    /\ job[j].phase = "undismiss" =>
          /\ \A c \in Detected(job[j].apps) : Registered(c)
          /\ job[j].todo \subseteq ProvidedIn[job[j].apps]
          /\ \A c \in ProvidedIn[job[j].apps] \ job[j].todo : Hidden(c) => Key(c) \in userHid
          /\ job[j].reg # NoComp /\ Hidden(job[j].reg) => Key(job[j].reg) \in raced

AllDone == \A j \in Reconcilers : Done(j)

\* DeleteStore compares the component of the file it is about to hide: past CheckActive
\* this is not the one that was active then.
Compared ==
    \A k \in Callers :
        /\ call[k].phase \in {"delete", "deleting"} =>
              \A c \in Comps : call[k].id = AutoId(PathOf[c]) =>
                  call[k].comp = CompOfDoc(First(InFile(Key(c))))
        /\ call[k].phase = "deleting" /\ call[k].active # NoComp =>
              Identity(CompOfDoc(call[k].active)) # Identity(call[k].comp)

ActiveShown ==
    /\ elected # NoComp => Registered(elected)
    /\ ActiveHiddenOnlyByRace

ProvidedShown ==
    \A w \in World : Fingerprint[w] = fp =>
        \A c \in ProvidedIn[w] : Registered(c) /\ (Hidden(c) => Key(c) \in userHid)

Tombstones == AllDone /\ Compared /\ ActiveShown /\ ProvidedShown

\* What a step does to a registered component, for the three uses below.
LEMMA EffectOn ==
    ASSUME Effect, NEW c \in Comps, Registered(c)
    PROVE  /\ Registered(c)'
           /\ Hidden(c)' => /\ ~Hidden(c) \/ Key(c) \in userHid => Key(c) \in userHid'
                            /\ \/ Hidden(c) /\ (Key(c) \in raced => Key(c) \in raced')
                               \/ \E k \in Callers :
                                     /\ call[k].phase = "deleting"
                                     /\ call[k].id = AutoId(PathOf[c])
                                     /\ ElectionOverlaps(k, Key(c)) => Key(c) \in raced'
  BY DEF Effect, StaysOrDeleted

\* A reconcile that does not move keeps what it has done.
LEMMA DoneStays ==
    ASSUME Inv, Types, Effect, NEW j \in Reconcilers, Done(j), job'[j] = job[j]
    PROVE  Done(j)'
  <1>1. CASE job[j].phase = "upsert"
    <2>1. Detected(job[j].apps) \subseteq Comps
      BY <1>1, RegInComps, DetectedComps
    <2>2. \A c \in Detected(job[j].apps) \ job[j].todo : Registered(c)'
      BY <1>1, <2>1, EffectOn DEF Done
    <2> QED
      BY <1>1, <2>2 DEF Done
  <1>2. CASE job[j].phase = "undismiss"
    <2>1. PICK A, r, T : /\ job[j].apps = A /\ job[j].reg = r /\ job[j].todo = T
                         /\ Detected(A) \subseteq Comps /\ ProvidedIn[A] \subseteq Detected(A)
                         /\ r # NoComp => r \in Detected(A)
      BY <1>2, RegInComps, DetectedComps, ProvidedDetected
    <2>2. /\ \A c \in Detected(A) : Registered(c)
          /\ T \subseteq ProvidedIn[A]
          /\ \A c \in ProvidedIn[A] \ T : Hidden(c) => Key(c) \in userHid
          /\ r # NoComp /\ Hidden(r) => Key(r) \in raced
      BY <1>2, <2>1 DEF Done
    <2>3. \A c \in Detected(A) : Registered(c)'
      BY <2>1, <2>2, EffectOn
    <2>4. \A c \in ProvidedIn[A] \ T : Hidden(c)' => Key(c) \in userHid'
      BY <2>1, <2>2, EffectOn
    <2>5. ASSUME r # NoComp, Hidden(r)'
          PROVE  Key(r) \in raced'
      <3>1. \A k : ElectionOverlaps(k, Key(r))
        BY <1>2, <2>1, <2>5 DEF ElectionOverlaps, Inv, Exclusive, Key
      <3>2. r \in Comps /\ Registered(r)
        BY <2>1, <2>2, <2>5
      <3> QED
        BY <2>2, <2>5, <3>1, <3>2, EffectOn
    <2>6. /\ job'[j].apps = A /\ job'[j].reg = r /\ job'[j].todo = T
          /\ job'[j].phase = "undismiss"
      BY <1>2, <2>1
    <2> QED
      BY <2>2, <2>3, <2>4, <2>5, <2>6 DEF Done, Key
  <1>3. CASE job[j].phase \notin {"upsert", "undismiss"}
    BY <1>3 DEF Done
  <1> QED
    BY <1>1, <1>2, <1>3

LEMMA OneJob ==
    ASSUME Inv, NEW j \in Reconcilers, NEW r, SetJob(j, r)
    PROVE  job'[j] = r /\ \A i \in Reconcilers \ {j} : job'[i] = job[i]
  BY DEF SetJob, Inv, Exclusive

\* The fields of a running reconcile.
LEMMA JobFields ==
    ASSUME Types, NEW j \in Reconcilers, job[j].phase # "none"
    PROVE  DOMAIN job[j] = {"phase", "apps", "todo", "reg"} /\ job[j].todo \subseteq Comps
  BY DEF Types, JobsOK

LEMMA UpsertDone ==
    ASSUME Inv, Types, Effect, NEW j \in Reconcilers, Done(j), UpsertDetected(j)
    PROVE  Done(j)'
  <1>1. PICK A, T, d :
            /\ job[j].apps = A /\ job[j].todo = T /\ d = First(job[j].todo)
            /\ Detected(A) \subseteq Comps
    BY RegInComps, DetectedComps DEF UpsertDetected
  <1>2. job[j].phase = "upsert" /\ SetJob(j, [job[j] EXCEPT !.todo = @ \ {First(job[j].todo)}])
    BY DEF UpsertDetected
  <1>3. job'[j] = [job[j] EXCEPT !.todo = @ \ {First(job[j].todo)}]
    BY <1>2, OneJob
  <1>4. job'[j].phase = "upsert" /\ job'[j].apps = A /\ job'[j].todo = T \ {d}
    BY <1>1, <1>2, <1>3, JobFields
  <1>5. Registered(d)'
    BY <1>1, UpsertEffect
  <1>6. \A c \in Detected(A) \ T : Registered(c)'
    BY <1>1, <1>2, EffectOn DEF Done
  <1> QED
    BY <1>4, <1>5, <1>6 DEF Done

\* The elected store is brought back: it was detected, so it is registered by now.
LEMMA UndismissActiveDone ==
    ASSUME Inv, Types, Effect, NEW j \in Reconcilers, Done(j), UndismissActive(j)
    PROVE  Done(j)'
  <1>1. job[j].phase = "upsert" /\ job[j].todo = {}
    BY DEF UndismissActive
  <1>2. PICK A, r : /\ job[j].apps = A /\ job[j].reg = r /\ A \in World
                    /\ Detected(A) \subseteq Comps /\ ProvidedIn[A] \subseteq Detected(A)
                    /\ r # NoComp => r \in Detected(A)
    BY <1>1, RegInComps, DetectedComps, ProvidedDetected
  <1>3. job'[j] = [job[j] EXCEPT !.phase = "undismiss", !.todo = ProvidedIn[job[j].apps]]
    BY OneJob DEF UndismissActive
  <1>4. /\ job'[j].phase = "undismiss" /\ job'[j].apps = A /\ job'[j].reg = r
        /\ job'[j].todo = ProvidedIn[A]
    BY <1>1, <1>2, <1>3, JobFields
  <1>5. \A c \in Detected(A) : Registered(c) /\ Registered(c)'
    BY <1>1, <1>2, EffectOn DEF Done
  <1>6. r # NoComp => ~Hidden(r)'
    BY <1>2, <1>5, UndismissFileEffect DEF UndismissActive
  <1> QED
    BY <1>4, <1>5, <1>6 DEF Done

LEMMA UndismissAppProvidedDone ==
    ASSUME Inv, Types, Effect, NEW j \in Reconcilers, Done(j), UndismissAppProvided(j)
    PROVE  Done(j)'
  <1>1. job[j].phase = "undismiss" /\ job[j].todo # {}
    BY DEF UndismissAppProvided
  <1>2. PICK A, r, T, d :
            /\ job[j].apps = A /\ job[j].reg = r /\ job[j].todo = T /\ d = First(job[j].todo)
            /\ Detected(A) \subseteq Comps /\ ProvidedIn[A] \subseteq Detected(A)
            /\ r # NoComp => r \in Detected(A)
    BY <1>1, RegInComps, DetectedComps, ProvidedDetected
  <1>3. job'[j] = [job[j] EXCEPT !.todo = @ \ {First(job[j].todo)}]
    BY OneJob DEF UndismissAppProvided
  <1>4. /\ job'[j].phase = "undismiss" /\ job'[j].apps = A /\ job'[j].reg = r
        /\ job'[j].todo = T \ {d}
    BY <1>1, <1>2, <1>3, JobFields
  <1>5. /\ \A c \in Detected(A) : Registered(c)
        /\ T \subseteq ProvidedIn[A]
        /\ \A c \in ProvidedIn[A] \ T : Hidden(c) => Key(c) \in userHid
        /\ r # NoComp /\ Hidden(r) => Key(r) \in raced
    BY <1>1, <1>2 DEF Done
  <1>6. d \in T
    BY <1>1, <1>2, FirstTodo DEF Types
  <1>7. \A c \in Detected(A) : Registered(c)'
    BY <1>2, <1>5, EffectOn
  <1>8. ~Hidden(d)'
    BY <1>2, <1>5, <1>6, UndismissFileEffect DEF UndismissAppProvided
  <1>9. \A c \in ProvidedIn[A] \ T : Hidden(c)' => Key(c) \in userHid'
    BY <1>2, <1>5, EffectOn
  <1>10. ASSUME r # NoComp, Hidden(r)'
         PROVE  Key(r) \in raced'
    <2>1. \A k : ElectionOverlaps(k, Key(r))
      BY <1>1, <1>2, <1>10 DEF ElectionOverlaps, Inv, Exclusive, Key
    <2>2. r \in Comps /\ Registered(r)
      BY <1>2, <1>5, <1>10
    <2> QED
      BY <1>5, <1>10, <2>1, <2>2, EffectOn
  <1> QED
    BY <1>4, <1>5, <1>7, <1>8, <1>9, <1>10 DEF Done, Key

LEMMA AllDoneKept ==
    ASSUME Inv, Types, AllDone, [Next]_vars
    PROVE  AllDone'
  <1>1. Effect
    BY StepEffect
  <1>2. ASSUME NEW j \in Reconcilers, NEW r, SetJob(j, r), Done(j)'
        PROVE  AllDone'
    <2>1. \A i \in Reconcilers \ {j} : job'[i] = job[i]
      BY <1>2, OneJob
    <2>2. \A i \in Reconcilers \ {j} : Done(i)'
      BY <1>1, <2>1, DoneStays DEF AllDone
    <2> QED
      BY <1>2, <2>2 DEF AllDone, Reconcilers
  <1>3. CASE UNCHANGED job
    BY <1>1, <1>3, DoneStays DEF AllDone, Reconcilers
  <1>4. ASSUME NEW p \in Pollers, Claim(p)
        PROVE  AllDone'
    <2>1. SetJob(p, Start(poll[p].apps)) /\ p \in Reconcilers
      BY <1>4 DEF Claim, SetJob, Reconcilers
    <2>2. job'[p] = Start(poll[p].apps)
      BY <2>1, OneJob
    <2>3. /\ job'[p].phase = "upsert"
          /\ job'[p].todo = Detected(job'[p].apps)
      BY <2>2 DEF Start
    <2>4. Done(p)'
      BY <2>3 DEF Done
    <2> QED
      BY <1>2, <2>1, <2>4
  <1>5. ASSUME NEW j \in Reconcilers, UpsertDetected(j)
        PROVE  AllDone'
    BY <1>1, <1>2, <1>5, UpsertDone DEF UpsertDetected, AllDone
  <1>6. ASSUME NEW j \in Reconcilers, UndismissActive(j)
        PROVE  AllDone'
    BY <1>1, <1>2, <1>6, UndismissActiveDone DEF UndismissActive, AllDone
  <1>7. ASSUME NEW j \in Reconcilers, UndismissAppProvided(j)
        PROVE  AllDone'
    BY <1>1, <1>2, <1>7, UndismissAppProvidedDone DEF UndismissAppProvided, AllDone
  <1>8. ASSUME NEW j \in Reconcilers, Publish(j) \/ PreWarm(j)
        PROVE  AllDone'
    <2>1. PICK r : SetJob(j, r) /\ r.phase \in {"none", "prewarm"}
      <3>1. CASE SetJob(j, NoJob)
        <4>1. NoJob.phase = "none"
          BY DEF NoJob
        <4> QED
          BY <3>1, <4>1
      <3>2. CASE /\ SetJob(j, [job[j] EXCEPT !.phase = "prewarm"])
                 /\ job[j].phase = "undismiss"
        <4> DEFINE r == [job[j] EXCEPT !.phase = "prewarm"]
        <4>1. SetJob(j, r) /\ r.phase = "prewarm"
          BY <3>2, JobFields
        <4> HIDE DEF r
        <4> QED
          BY <4>1
      <3> QED
        BY <1>8, <3>1, <3>2 DEF Publish, PreWarm
    <2>2. job'[j].phase \in {"none", "prewarm"}
      BY <2>1, OneJob
    <2> QED
      BY <1>2, <2>1, <2>2 DEF Done
  <1> QED
    BY <1>3, <1>4, <1>5, <1>6, <1>7, <1>8, JobSteps DEF Reconcile

\* componentFor gives DeleteStore the first component of the file its id names.
LEMMA LookedUp ==
    ASSUME Types, NEW e \in entries, NEW c \in Comps, e.id = AutoId(PathOf[c])
    PROVE  CompOf(e) = CompOfDoc(First(InFile(Key(c))))
  <1>1. e.source = "auto" /\ Norm[e.path] = Key(c)
    <2>1. Sound(entries)
      BY DEF Types, EntriesOK
    <2> QED
      BY <2>1, IdOfSound, IdsDistinct DEF Key
  <1>2. c \in InFile(Norm[e.path])
    BY <1>1 DEF InFile, Key
  <1> QED
    BY <1>1, <1>2 DEF CompOf

LEMMA ComparedKept ==
    ASSUME Types, Compared, [Next]_vars
    PROVE  Compared'
  <1>1. ASSUME NEW k \in Callers, NEW r, call' = [call EXCEPT ![k] = r],
               r.phase \in {"delete", "deleting"} =>
                   \A c \in Comps : r.id = AutoId(PathOf[c]) =>
                       r.comp = CompOfDoc(First(InFile(Key(c)))),
               r.phase = "deleting" /\ r.active # NoComp =>
                   Identity(CompOfDoc(r.active)) # Identity(r.comp)
        PROVE  Compared'
    <2>1. call'[k] = r /\ \A i \in Callers \ {k} : call'[i] = call[i]
      BY <1>1, OneCall DEF Types
    <2> QED
      BY <1>1, <2>1 DEF Compared, Key
  <1>2. CASE UNCHANGED call
    BY <1>2 DEF Compared, Key
  <1>3. ASSUME NEW k \in Callers, call' = [call EXCEPT ![k] = NoCall]
        PROVE  Compared'
    BY <1>1, <1>3 DEF NoCall
  <1>4. ASSUME NEW k \in Callers, call[k].phase \in {"deleting", "update"},
               call' = [call EXCEPT ![k] = [call[k] EXCEPT !.phase = "evict"]]
        PROVE  Compared'
    <2> DEFINE r == [call[k] EXCEPT !.phase = "evict"]
    <2>1. DOMAIN call[k] = {"phase", "id", "comp", "active"}
      BY <1>4 DEF Types, CallsOK
    <2>2. r.phase = "evict"
      BY <2>1
    <2>3. call' = [call EXCEPT ![k] = r]
      BY <1>4
    <2> HIDE DEF r
    <2> QED
      BY <1>1, <2>2, <2>3
  <1>5. ASSUME NEW k \in Callers, CheckActive(k)
        PROVE  Compared'
    <2> DEFINE r == [call[k] EXCEPT !.phase = "deleting", !.active = elected]
               same == elected # NoComp /\ Identity(CompOfDoc(elected)) = Identity(call[k].comp)
    <2>1. call[k].phase = "delete"
      BY <1>5 DEF CheckActive
    <2>2. DOMAIN call[k] = {"phase", "id", "comp", "active"}
      BY <2>1 DEF Types, CallsOK
    <2>3. r.id = call[k].id /\ r.comp = call[k].comp /\ r.active = elected
      BY <2>2
    <2>4. \/ call' = [call EXCEPT ![k] = NoCall]
          \/ ~same /\ call' = [call EXCEPT ![k] = r]
      BY <1>5 DEF CheckActive, SetCall
    <2>5. \A c \in Comps : r.id = AutoId(PathOf[c]) =>
              r.comp = CompOfDoc(First(InFile(Key(c))))
      BY <2>1, <2>3 DEF Compared
    <2> HIDE DEF r
    <2>6. ~same /\ r.active # NoComp => Identity(CompOfDoc(r.active)) # Identity(r.comp)
      BY <2>3
    <2> HIDE DEF same
    <2> QED
      BY <1>1, <1>3, <2>4, <2>5, <2>6
  <1>6. ASSUME NEW k \in Callers, SelectActive(k)
        PROVE  Compared'
    <2> DEFINE r == [phase |-> "open", id |-> NoId, comp |-> CompOfDoc(elected),
                     active |-> elected]
    <2>1. call' = [call EXCEPT ![k] = r] /\ r.phase = "open"
      BY <1>6 DEF SelectActive, SetCall
    <2> HIDE DEF r
    <2> QED
      BY <1>1, <2>1
  <1>7. ASSUME NEW k \in Callers, NEW e \in entries, NEW op \in {"delete", "update", "open"},
               LookUp(k, op, e)
        PROVE  Compared'
    <2> DEFINE r == [phase |-> op, id |-> e.id, comp |-> CompOf(e), active |-> NoComp]
    <2>1. call' = [call EXCEPT ![k] = r]
      BY <1>7 DEF LookUp, SetCall
    <2>2. r.phase = op /\ r.id = e.id /\ r.comp = CompOf(e) /\ r.active = NoComp
      OBVIOUS
    <2> HIDE DEF r
    <2> QED
      BY <1>1, <2>1, <2>2, LookedUp
  <1> QED
    BY <1>2, <1>3, <1>4, <1>5, <1>6, <1>7, CallSteps

\* The active store stays listed unless a DeleteStore races: CheckActive refuses to hide
\* the active store, so one that passes it has seen another one active.
LEMMA ActiveShownKept ==
    ASSUME Inv, Types, Tombstones, [Next]_vars
    PROVE  ActiveShown'
  <1>1. Effect
    BY StepEffect
  <1>2. CASE UNCHANGED <<elected, fp>>
    <2>1. SUFFICES ASSUME elected # NoComp
                   PROVE  /\ Registered(elected)'
                          /\ (Hidden(elected)' /\ elected = First(InFile(Key(elected)))
                              => Key(elected) \in raced')
      BY <1>2 DEF ActiveShown, ActiveHiddenOnlyByRace, Key
    <2>2. PICK a : a = elected /\ a \in Comps /\ a # NoComp
      BY <2>1 DEF Types, ElectedOK
    <2>3. Registered(a)
      BY <2>2 DEF Tombstones, ActiveShown
    <2>4. elected' = a
      BY <1>2, <2>2
    <2>5. ASSUME Hidden(a)', a = First(InFile(Key(a)))
          PROVE  Key(a) \in raced'
      <3>1. CASE Hidden(a) /\ (Key(a) \in raced => Key(a) \in raced')
        BY <2>2, <2>5, <3>1 DEF Tombstones, ActiveShown, ActiveHiddenOnlyByRace, Key
      <3>2. ASSUME NEW k \in Callers, call[k].phase = "deleting",
                   call[k].id = AutoId(PathOf[a]),
                   ElectionOverlaps(k, Key(a)) => Key(a) \in raced'
            PROVE  Key(a) \in raced'
        <4>1. call[k].comp = CompOfDoc(a)
          BY <2>2, <2>5, <3>2 DEF Tombstones, Compared
        <4>2. call[k].active # a
          BY <2>2, <3>2, <4>1 DEF Tombstones, Compared
        <4>3. ElectionOverlaps(k, Key(a))
          BY <2>2, <4>2 DEF ElectionOverlaps, Key
        <4> QED
          BY <3>2, <4>3
      <3> QED
        BY <1>1, <2>2, <2>3, <2>5, <3>1, <3>2, EffectOn
    <2>6. Registered(a)'
      BY <1>1, <2>2, <2>3, EffectOn
    <2> QED
      BY <2>2, <2>4, <2>5, <2>6 DEF Registered, Hidden, Key
  <1>3. ASSUME NEW j \in Reconcilers, Publish(j), ~closed
        PROVE  ActiveShown'
    <2>1. /\ job[j].phase = "undismiss" /\ elected' = job[j].reg
          /\ UNCHANGED <<entries, raced>>
      BY <1>3 DEF Publish, store
    <2>2. PICK r : r = job[j].reg /\ (r # NoComp => Registered(r))
                   /\ (r # NoComp /\ Hidden(r) => Key(r) \in raced)
      BY <2>1, RegInComps DEF Tombstones, AllDone, Done
    <2> QED
      BY <2>1, <2>2 DEF ActiveShown, ActiveHiddenOnlyByRace, Registered, Hidden, Key
  <1> QED
    BY <1>2, <1>3, PublishedSteps

\* The stores the apps provide stay listed unless the user hides them.
LEMMA ProvidedShownKept ==
    ASSUME Inv, Types, Tombstones, [Next]_vars
    PROVE  ProvidedShown'
  <1>1. Effect
    BY StepEffect
  <1>2. CASE UNCHANGED <<elected, fp>>
    <2>1. SUFFICES ASSUME NEW w \in World, Fingerprint[w] = fp, NEW c \in ProvidedIn[w]
                   PROVE  Registered(c)' /\ (Hidden(c)' => Key(c) \in userHid')
      BY <1>2 DEF ProvidedShown, Key
    <2>2. c \in Comps /\ Registered(c) /\ (Hidden(c) => Key(c) \in userHid)
      BY <2>1, ProvidedDetected, DetectedComps DEF Tombstones, ProvidedShown
    <2> QED
      BY <1>1, <2>2, EffectOn
  <1>3. ASSUME NEW j \in Reconcilers, Publish(j), ~closed
        PROVE  ProvidedShown'
    <2>1. /\ job[j].phase = "undismiss" /\ job[j].todo = {}
          /\ fp' = Fingerprint[job[j].apps] /\ UNCHANGED <<entries, userHid>>
      BY <1>3 DEF Publish, store
    <2>2. PICK A : /\ A = job[j].apps /\ A \in World
                   /\ ProvidedIn[A] \subseteq Detected(A)
      BY <2>1, RegInComps, ProvidedDetected
    <2>3. \A c \in ProvidedIn[A] : Registered(c) /\ (Hidden(c) => Key(c) \in userHid)
      BY <2>1, <2>2 DEF Tombstones, AllDone, Done
    <2>4. \A w \in World : Fingerprint[w] = Fingerprint[A] => ProvidedIn[w] = ProvidedIn[A]
      BY <2>2, FingerprintDecides
    <2>5. \A c \in ProvidedIn[A] : Registered(c)' /\ (Hidden(c)' => Key(c) \in userHid')
      BY <2>1, <2>3 DEF Registered, Hidden
    <2> QED
      BY <2>1, <2>2, <2>4, <2>5 DEF ProvidedShown, Key
  <1> QED
    BY <1>2, <1>3, PublishedSteps

-----------------------------------------------------------------------------
(* What is pooled                                                          *)

\* A connection is pooled with the metadata of the one manual entry with its identity,
\* or is accounted for.
Current(i) ==
    \/ pool[i] = NotPooled
    \/ i \in overtaken
    \/ \E k \in Callers : call[k].phase = "evict" /\ Identity(call[k].comp) = i
    \/ \E c \in Comps : Identity(CompOfDoc(c)) = i
    \/ \E e \in entries : e.source = "manual" /\ Identity(CompOfManual(e)) = i
                          /\ pool[i] = e.value

Pooled == \A i \in Identities : Current(i)

\* openOrGet pools metadata that the registry or a file still has, or the history
\* says that it has not.
LEMMA OpenKeepsPooled ==
    ASSUME Types, Pooled, NEW k, OpenOrGet(k), ManualStay, EvictStay
    PROVE  Pooled'
  <1>1. SUFFICES ASSUME NEW i \in Identities PROVE Current(i)'
    BY DEF Pooled
  <1>2. CASE UNCHANGED <<pool, overtaken>>
    BY <1>2 DEF Pooled, Current, ManualStay, EvictStay
  <1>3. CASE /\ pool' = [pool EXCEPT ![Identity(k)] = k.secret]
             /\ overtaken' = IF UpToDate(k) THEN overtaken ELSE overtaken \cup {Identity(k)}
    <2>1. CASE i # Identity(k)
      <3>1. pool'[i] = pool[i] /\ (i \in overtaken => i \in overtaken')
        BY <1>3, <2>1 DEF Types, PoolOK
      <3> QED
        BY <3>1 DEF Pooled, Current, ManualStay, EvictStay
    <2>2. CASE i = Identity(k)
      <3>1. pool'[i] = k.secret
        BY <1>3, <2>2 DEF Types, PoolOK
      <3>2. CASE ~UpToDate(k)
        BY <1>3, <2>2, <3>2 DEF Current
      <3>3. CASE UpToDate(k)
        <4>1. ASSUME NEW c \in Comps, CompOfDoc(c) = k
              PROVE  Current(i)'
          BY <2>2, <4>1 DEF Current
        <4>2. ASSUME NEW e \in entries, e.source = "manual", CompOfManual(e) = k
              PROVE  Current(i)'
          <5>1. k.secret = e.value
            BY <4>2 DEF CompOfManual
          <5>2. e \in entries'
            BY <4>2 DEF ManualStay
          <5> QED
            BY <2>2, <3>1, <4>2, <5>1, <5>2 DEF Current
        <4> QED
          BY <3>3, <4>1, <4>2 DEF UpToDate
      <3> QED
        BY <3>2, <3>3
    <2> QED
      BY <2>1, <2>2
  <1> QED
    BY <1>2, <1>3 DEF OpenOrGet

\* A request that deletes or replaces an entry evicts its connection, unless what it
\* looked up is not the entry's component or the save failed: the history says so.
LEMMA EvictingKeepsPooled ==
    ASSUME Types, Pooled, NEW k \in Callers, NEW changed \in SUBSET entries,
           call[k].phase \in {"deleting", "update"}, Evicting(k, changed), UNCHANGED pool,
           \A e \in entries : e.source = "manual" => e \in changed \/ e \in entries'
    PROVE  Pooled'
  <1>1. \A i \in Callers : call[i].phase = "evict" => call'[i] = call[i]
    BY OneCall DEF Evicting, SetCall, Types, CallsOK
  <1>2. overtaken \subseteq overtaken'
    BY DEF Evicting
  <1>3. ASSUME NEW e \in changed, e.source = "manual"
        PROVE  \/ Identity(CompOfManual(e)) \in overtaken'
               \/ call'[k].phase = "evict" /\ Identity(call'[k].comp) = Identity(CompOfManual(e))
    <2>1. CompOf(e) = CompOfManual(e)
      BY <1>3 DEF CompOf
    <2>2. CASE Identity(CompOfManual(e)) \in overtaken'
      BY <2>2
    <2>3. CASE /\ CompOf(e) = call[k].comp
               /\ SetCall(k, [call[k] EXCEPT !.phase = "evict"])
      <3>1. DOMAIN call[k] = {"phase", "id", "comp", "active"}
        BY DEF Types, CallsOK
      <3>2. call'[k] = [call[k] EXCEPT !.phase = "evict"]
        BY <2>3 DEF SetCall, Types, CallsOK
      <3>3. call'[k].phase = "evict" /\ call'[k].comp = call[k].comp
        BY <3>1, <3>2
      <3> QED
        BY <2>1, <2>3, <3>3
    <2> QED
      BY <1>3, <2>1, <2>2, <2>3 DEF Evicting
  <1>4. SUFFICES ASSUME NEW i \in Identities PROVE Current(i)'
    BY DEF Pooled
  <1>5. ASSUME NEW e \in entries, e.source = "manual", Identity(CompOfManual(e)) = i,
               pool[i] = e.value
        PROVE  Current(i)'
    <2>1. CASE e \in entries'
      BY <1>5, <2>1 DEF Current
    <2>2. CASE e \in changed
      BY <1>3, <1>5, <2>2 DEF Current
    <2> QED
      BY <1>5, <2>1, <2>2
  <1>6. Current(i)
    BY DEF Pooled
  <1> QED
    BY <1>1, <1>2, <1>5, <1>6 DEF Current

LEMMA PooledKept ==
    ASSUME Inv, Types, Pooled, [Next]_vars
    PROVE  Pooled'
  <1>1. CASE UNCHANGED <<pool, overtaken>> /\ ManualStay /\ EvictStay
    BY <1>1 DEF Pooled, Current, ManualStay, EvictStay
  <1>2. ASSUME NEW j \in Reconcilers, PreWarm(j)
        PROVE  Pooled'
    <2>1. ManualStay /\ EvictStay
      BY <1>2 DEF PreWarm, store, ManualStay, EvictStay
    <2> QED
      BY <1>1, <1>2, <2>1, OpenKeepsPooled DEF PreWarm
  <1>3. ASSUME NEW k \in Callers, Open(k)
        PROVE  Pooled'
    <2>1. \A i \in Callers \ {k} : call'[i] = call[i]
      BY <1>3, OneCall DEF Open, SetCall, Types
    <2>2. ManualStay /\ EvictStay
      BY <1>3, <2>1 DEF Open, store, ManualStay, EvictStay
    <2> QED
      BY <1>3, <2>2, OpenKeepsPooled DEF Open
  <1>4. ASSUME NEW k \in Callers, EvictOld(k)
        PROVE  Pooled'
    <2>1. /\ UNCHANGED entries
          /\ pool' = [pool EXCEPT ![Identity(call[k].comp)] = NotPooled]
          /\ overtaken' = overtaken \ {Identity(call[k].comp)}
      BY <1>4 DEF EvictOld, Evict, store
    <2>2. \A i \in Callers \ {k} : call'[i] = call[i]
      BY <1>4, OneCall DEF EvictOld, SetCall, Types
    <2>3. SUFFICES ASSUME NEW i \in Identities PROVE Current(i)'
      BY DEF Pooled
    <2>4. CASE i = Identity(call[k].comp)
      BY <2>1, <2>4 DEF Types, PoolOK, Current
    <2>5. CASE i # Identity(call[k].comp)
      <3>1. pool'[i] = pool[i] /\ (i \in overtaken => i \in overtaken')
        BY <2>1, <2>5 DEF Types, PoolOK
      <3>2. Current(i)
        BY DEF Pooled
      <3> QED
        BY <2>1, <2>2, <2>5, <3>1, <3>2 DEF Current
    <2> QED
      BY <2>4, <2>5
  <1>5. ASSUME NEW k \in Callers, RegistryDelete(k)
        PROVE  Pooled'
    <2> DEFINE gone == {e \in entries : e.id = call[k].id}
    <2>1. /\ call[k].phase = "deleting" /\ Evicting(k, gone) /\ UNCHANGED pool
          /\ entries' = Deleted(entries, call[k].id)
      BY <1>5 DEF RegistryDelete
    <2>2. \A e \in entries : e.source = "manual" => e \in gone \/ e \in entries'
      BY <2>1, DeletedSound DEF Types, EntriesOK
    <2>3. gone \in SUBSET entries
      OBVIOUS
    <2> HIDE DEF gone
    <2> QED
      BY <2>1, <2>2, <2>3, EvictingKeepsPooled
  <1>6. ASSUME NEW k \in Callers, NEW n \in Names, NEW v \in Values, RegistryUpdate(k, n, v)
        PROVE  Pooled'
    <2> DEFINE id == call[k].id
               old == Updatable(entries, id)
    <2>1. CASE old = {} \/ RenameClash(entries, id, n)
      <3>1. UNCHANGED <<entries, pool, overtaken>> /\ SetCall(k, NoCall)
            /\ call[k].phase = "update"
        BY <1>6, <2>1 DEF RegistryUpdate
      <3>2. \A i \in Callers \ {k} : call'[i] = call[i]
        BY <3>1, OneCall DEF SetCall, Types
      <3>3. ManualStay /\ EvictStay
        BY <3>1, <3>2 DEF ManualStay, EvictStay
      <3> QED
        BY <1>1, <3>1, <3>3
    <2>2. CASE ~(old = {} \/ RenameClash(entries, id, n))
      <3>1. /\ call[k].phase = "update" /\ Evicting(k, old) /\ UNCHANGED pool
            /\ entries' = Updated(entries, id, n, NoPath, v)
        BY <1>6, <2>2 DEF RegistryUpdate
      <3>2. \A e \in entries : e.source = "manual" => e \in old \/ e \in entries'
        BY <3>1 DEF Updated
      <3>3. old \in SUBSET entries
        BY DEF Updatable
      <3> HIDE DEF old
      <3> QED
        BY <3>1, <3>2, <3>3, EvictingKeepsPooled
    <2> QED
      BY <2>1, <2>2
  <1>7. ClosePool => Pooled'
    BY DEF ClosePool, Pooled, Current
  <1> QED
    BY <1>1, <1>2, <1>3, <1>4, <1>5, <1>6, <1>7, PoolSteps

-----------------------------------------------------------------------------
(* The registry and the pool: the theorems                                 *)

FullInv == Inv /\ Types /\ Tombstones /\ Pooled

LEMMA InitFullInv == Init => FullInv
  <1> SUFFICES ASSUME Init PROVE FullInv
    OBVIOUS
  <1>1. Inv
    BY InitInv
  <1>2. EntriesOK
    <2>1. entries \in OldEntries /\ userHid = {} /\ raced = {}
      BY DEF Init
    <2>2. Sound(entries)
      <3>1. entries \subseteq ConnEntry
        BY <2>1, ReconcilerAssumption
      <3>2. WellFormed(entries) /\ \A e \in entries : e.source = "manual" => ~e.dismissed
        BY <2>1, ReconcilerAssumption
      <3>3. \A e \in entries : e.source \in {"auto", "manual"}
        BY <3>1 DEF ConnEntry
      <3> QED
        BY <3>1, <3>2, <3>3 DEF Sound
    <2>3. \A c \in Comps : Apart(entries, PathOf[c])
      BY <2>1, ReconcilerAssumption DEF Apart
    <2> QED
      BY <2>1, <2>2, <2>3 DEF EntriesOK
  <1>3. PICK w \in World :
            job = [j \in Reconcilers |-> IF j = Boot THEN Start(w) ELSE NoJob]
    <2>1. world \in World /\ [a \in Apps |-> "absent"] \in World
      BY ReconcilerAssumption DEF Init, World, Statuses
    <2> QED
      BY <2>1 DEF Init, Reconcilers
  <1>4. /\ Start(w).phase = "upsert" /\ DOMAIN Start(w) = {"phase", "apps", "todo", "reg"}
        /\ Start(w).apps = w /\ Start(w).todo = Detected(w) /\ NoJob.phase = "none"
    BY DEF Start, NoJob
  <1>5. \A j \in Reconcilers : job[j] = Start(w) \/ job[j] = NoJob
    BY <1>3
  <1>6. JobsOK
    BY <1>4, <1>5, DetectedComps DEF JobsOK
  <1>7. CallsOK /\ \A k \in Callers : call[k].phase = "idle"
    BY DEF Init, CallsOK, NoCall
  <1>8. ElectedOK /\ PoolOK
    BY DEF Init, ElectedOK, PoolOK
  <1>9. FlagsOK
    BY DEF Init, FlagsOK, IdlePoll
  <1>10. AllDone
    BY <1>4, <1>5 DEF AllDone, Done
  <1>11. Compared
    BY <1>7 DEF Compared
  <1>12. ActiveShown /\ ProvidedShown
    BY ReconcilerAssumption DEF Init, ActiveShown, ActiveHiddenOnlyByRace, ProvidedShown
  <1>13. Pooled
    BY DEF Init, Pooled, Current
  <1> QED
    BY <1>1, <1>2, <1>6, <1>7, <1>8, <1>9, <1>10, <1>11, <1>12, <1>13
    DEF FullInv, Types, Tombstones

LEMMA NextFullInv == FullInv /\ [Next]_vars => FullInv'
  BY NextKeeps, TypesKept, AllDoneKept, ComparedKept, ActiveShownKept, ProvidedShownKept,
     PooledKept
  DEF FullInv, Tombstones

\* FullInv holds of every state the reconciler reaches.
THEOREM FullInvariance == Spec => []FullInv
  <1> QED
    BY InitFullInv, NextFullInv, PTL DEF Spec

\* Every reachable state is well typed: registry, pool, polls, reconciles and requests.
THEOREM TypeCorrect == Spec => []TypeOK
  <1>1. FullInv => TypeOK
    <2> SUFFICES ASSUME FullInv PROVE TypeOK
      OBVIOUS
    <2>1. world \in World /\ fp \in {Fingerprint[w] : w \in World} \cup {NoFp}
      BY DEF FullInv, Inv, Lists, Published
    <2>2. entries \in SUBSET ConnEntry /\ userHid \in SUBSET Keys /\ raced \in SUBSET Keys
      BY DEF FullInv, Types, EntriesOK, Sound
    <2> QED
      BY <2>1, <2>2
      DEF FullInv, Types, JobsOK, CallsOK, ElectedOK, PoolOK, FlagsOK, TypeOK, Reconcilers
  <1> QED
    BY <1>1, FullInvariance, PTL

\* The elected store is listed, unless a DeleteStore hid it while its election was under
\* way or was published behind DeleteStore's back.
THEOREM ActiveStaysListed == Spec => []ActiveHiddenOnlyByRace
  <1>1. FullInv => ActiveHiddenOnlyByRace
    BY DEF FullInv, Tombstones, ActiveShown
  <1> QED
    BY <1>1, FullInvariance, PTL

\* A store that a running app provides is listed, unless this session's user hid it after
\* the reconcile for these apps.
THEOREM ProvidedStaysListed == Spec => []ProvidedHiddenOnlyByUser
  <1>1. FullInv => ProvidedHiddenOnlyByUser
    BY DEF FullInv, Tombstones, ProvidedShown, ProvidedHiddenOnlyByUser, Key
  <1> QED
    BY <1>1, FullInvariance, PTL

\* What is pooled for a manual entry was opened with the entry's own metadata, or is about
\* to be evicted, for any interleaving of requests: what else is there is named.
THEOREM PoolFollowsRegistry == Spec => []PooledIsCurrent
  <1>1. FullInv => PooledIsCurrent
    <2> SUFFICES ASSUME FullInv, NEW e \in entries, e.source = "manual",
                        NEW i, i = Identity(CompOfManual(e))
                 PROVE  \/ pool[i] \in {NotPooled, e.value}
                        \/ \E c \in Comps : Identity(CompOfDoc(c)) = i
                        \/ i \in overtaken
                        \/ \E k \in Callers : call[k].phase = "evict"
                                              /\ Identity(call[k].comp) = i
      BY DEF PooledIsCurrent
    <2>1. Sound(entries)
      BY DEF FullInv, Types, EntriesOK
    <2>2. \A f \in entries : f.source = "manual" /\ Identity(CompOfManual(f)) = i => f = e
      <3>1. SUFFICES ASSUME NEW f \in entries, f.source = "manual",
                            Identity(CompOfManual(f)) = i
                     PROVE  f = e
        OBVIOUS
      <3>2. f.name = e.name
        BY <3>1 DEF Identity, CompOfManual
      <3>3. f.id = e.id
        BY <2>1, <3>1, <3>2 DEF Sound, WellFormed, EntryId
      <3> QED
        BY <2>1, <3>3 DEF Sound, WellFormed
    <2>3. i \in Identities
      <3>1. e.name \in Names /\ e.value \in Values
        BY <2>1 DEF Sound, ConnEntry
      <3>2. i = <<e.name, ConnOf[e.value]>>
        BY DEF Identity, CompOfManual
      <3> QED
        BY <3>1, <3>2 DEF Identities
    <2>4. Current(i)
      BY <2>3 DEF FullInv, Pooled
    <2> QED
      BY <2>2, <2>4 DEF Current
  <1> QED
    BY <1>1, FullInvariance, PTL

=============================================================================

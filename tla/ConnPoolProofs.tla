--------------------------- MODULE ConnPoolProofs ---------------------------
(***************************************************************************)
(* The safety theorems of ConnPool, for any number of callers, identities  *)
(* and slots.  Inv is the inductive invariant: who owns a slot, who will   *)
(* close its connection, and what its connection is in each phase.         *)
(***************************************************************************)
EXTENDS ConnPool, TLAPS

Opener(c) == pc[c] \in OpenerPhases

\* A caller inside a call that has a slot has one that was allocated.
AtAllocated ==
    \A c \in Callers :
        pc[c] \in OpenerPhases \cup {"waiting", "using", "evicting"} =>
            at[c] \in Slots /\ key[at[c]] # {}

\* The channel of a slot is closed by its one opener, at the end.
OneOpener ==
    /\ \A c \in Callers : Opener(c) => at[c] \notin done
    /\ \A c, d \in Callers : Opener(c) /\ Opener(d) /\ at[c] = at[d] => c = d

\* A slot is only ever cached under the identity it was created for.
KeyOfCached ==
    /\ \A i \in Ids : slots[i] \in Slots => key[slots[i]] = {i}
    /\ \A s \in Slots : key[s] # {} => \E i \in Ids : key[s] = {i}

Unallocated ==
    \A s \in Slots : key[s] = {} =>
        conn[s] = "none" /\ s \notin done /\ s \notin draining

\* The connection of a slot while its opener is still at work.
PhaseConn ==
    \A c \in Callers :
        /\ pc[c] \in {"opening", "failed"} => conn[at[c]] = "none"
        /\ pc[c] \in {"opened", "admitted", "refused"} => conn[at[c]] = "open"
        /\ pc[c] = "dropped" => conn[at[c]] # "open" /\ conn[at[c]] # "closedTwice"

\* An opener on its way to an error has already taken its slot out of the map.
ErrorNotCached ==
    /\ \A c \in Callers : pc[c] \in {"dropped", "refused"} => ~Cached(at[c])
    /\ \A s \in done \ held : conn[s] # "open" /\ ~Cached(s)

\* An admitted slot is in the map, or was taken out by somebody else since.
AdmittedKept ==
    \A c \in Callers : pc[c] = "admitted" =>
        Cached(at[c]) \/ Claimed(at[c]) \/ at[c] \in displaced

\* A slot is in the map, or with one evict, or with Close.
OneRemover ==
    /\ \A c \in Callers : pc[c] = "evicting" => ~Cached(at[c]) /\ at[c] \notin draining
    /\ \A c, d \in Callers :
          pc[c] = "evicting" /\ pc[d] = "evicting" /\ at[c] = at[d] => c = d
    /\ \A s \in draining : ~Cached(s)

\* Close runs once.
OneCloser ==
    /\ \A c \in Callers : pc[c] = "closing" => closed /\ at[c] \in draining \cup {NoSlot}
    /\ \A c, d \in Callers : pc[c] = "closing" /\ pc[d] = "closing" => c = d
    /\ draining # {} => closed

\* What the map, an evict or Close holds has not been closed yet.
HeldOpen ==
    /\ held \subseteq done
    /\ \A s \in held : Cached(s) \/ Claimed(s) => conn[s] = "open"

Inv ==
    /\ TypeOK
    /\ AtAllocated /\ OneOpener /\ KeyOfCached /\ Unallocated
    /\ PhaseConn /\ ErrorNotCached /\ AdmittedKept
    /\ OneRemover /\ OneCloser /\ HeldOpen
    /\ LeakOnlyWhenDisplaced /\ ClosedOnce /\ NothingCachedAfterClose

-----------------------------------------------------------------------------
(* One lemma per action: it keeps Inv.                                     *)

\* A caller that joins waits on a slot that exists.
LEMMA JoinKeeps ==
  ASSUME Inv, NEW c \in Callers, NEW i \in Ids, Join(c, i)
  PROVE  Inv'
<1>. USE NoSlotAssumption DEF Inv, TypeOK, Join, Goto, SlotOrNone, Phases,
      OpenerPhases, Opener, Cached, Claimed, InFlight
<1>0. slots[i] \in Slots /\ key[slots[i]] = {i} /\ {i} # {}
  BY DEF KeyOfCached
<1>1. /\ TypeOK' /\ AtAllocated' /\ OneOpener' /\ KeyOfCached' /\ Unallocated'
      /\ PhaseConn' /\ ErrorNotCached' /\ AdmittedKept' /\ OneRemover'
      /\ OneCloser' /\ HeldOpen' /\ LeakOnlyWhenDisplaced' /\ ClosedOnce'
      /\ NothingCachedAfterClose'
  BY <1>0 DEF AtAllocated, OneOpener, KeyOfCached, Unallocated, PhaseConn,
         ErrorNotCached, AdmittedKept, OneRemover, OneCloser, HeldOpen,
         LeakOnlyWhenDisplaced, ClosedOnce, NothingCachedAfterClose
<1>. QED BY <1>1

\* A new slot starts out unallocated, so nobody else opens, holds or removes it.
LEMMA StartOpenKeeps ==
  ASSUME Inv, NEW c \in Callers, NEW i \in Ids, NEW s \in Slots, StartOpen(c, i, s)
  PROVE  Inv'
<1>. USE NoSlotAssumption DEF Inv, TypeOK, StartOpen, Goto, SlotOrNone, Phases,
      OpenerPhases, Opener, Cached, Claimed, InFlight
<1>0. {i} # {}
  OBVIOUS
<1>1. /\ AtAllocated' /\ Unallocated' /\ OneCloser' /\ ClosedOnce'
      /\ NothingCachedAfterClose'
  BY <1>0 DEF AtAllocated, Unallocated, OneCloser, ClosedOnce,
         NothingCachedAfterClose
<1>2. TypeOK'
  BY <1>0
<1>3. OneOpener'
  BY <1>0 DEF AtAllocated, OneOpener, Unallocated
<1>4. KeyOfCached'
  BY <1>0 DEF KeyOfCached
<1>5. PhaseConn'
  BY <1>0 DEF Unallocated, PhaseConn
<1>6. ErrorNotCached'
  BY <1>0 DEF AtAllocated, Unallocated, ErrorNotCached
<1>7. AdmittedKept'
  BY <1>0 DEF AtAllocated, AdmittedKept
<1>8. OneRemover'
  BY <1>0 DEF AtAllocated, Unallocated, OneRemover
<1>9. HeldOpen'
  BY <1>0 DEF Unallocated, HeldOpen
<1>10. LeakOnlyWhenDisplaced'
  BY <1>0 DEF LeakOnlyWhenDisplaced
<1>. QED BY <1>1, <1>2, <1>3, <1>4, <1>5, <1>6, <1>7, <1>8, <1>9, <1>10

\* A failed open leaves no connection.
LEMMA OpenFailsKeeps ==
  ASSUME Inv, NEW c \in Callers, OpenFails(c)
  PROVE  Inv'
<1>. USE NoSlotAssumption DEF Inv, TypeOK, OpenFails, Goto, SlotOrNone, Phases,
      OpenerPhases, Opener, Cached, Claimed, InFlight
<1>1. /\ TypeOK' /\ AtAllocated' /\ OneOpener' /\ KeyOfCached' /\ Unallocated'
      /\ PhaseConn' /\ ErrorNotCached' /\ AdmittedKept' /\ OneRemover'
      /\ OneCloser' /\ HeldOpen' /\ LeakOnlyWhenDisplaced' /\ ClosedOnce'
      /\ NothingCachedAfterClose'
  BY DEF AtAllocated, OneOpener, KeyOfCached, Unallocated, PhaseConn,
         ErrorNotCached, AdmittedKept, OneRemover, OneCloser, HeldOpen,
         LeakOnlyWhenDisplaced, ClosedOnce, NothingCachedAfterClose
<1>. QED BY <1>1

\* Until it is published the new connection is the opener's to close.
LEMMA OpenSucceedsKeeps ==
  ASSUME Inv, NEW c \in Callers, OpenSucceeds(c)
  PROVE  Inv'
<1>. USE NoSlotAssumption DEF Inv, TypeOK, OpenSucceeds, Goto, SlotOrNone,
      Phases, OpenerPhases, Opener, Cached, Claimed, InFlight
<1>1. /\ TypeOK' /\ AtAllocated' /\ OneOpener' /\ KeyOfCached' /\ AdmittedKept'
      /\ OneRemover' /\ OneCloser' /\ HeldOpen' /\ LeakOnlyWhenDisplaced'
      /\ ClosedOnce' /\ NothingCachedAfterClose'
  BY DEF AtAllocated, OneOpener, KeyOfCached, AdmittedKept, OneRemover,
         OneCloser, HeldOpen, LeakOnlyWhenDisplaced, ClosedOnce,
         NothingCachedAfterClose
<1>2. Unallocated'
  BY DEF AtAllocated, Unallocated
<1>3. PhaseConn'
  BY DEF AtAllocated, OneOpener, PhaseConn
<1>4. ErrorNotCached'
  BY DEF OneOpener, ErrorNotCached
<1>. QED BY <1>1, <1>2, <1>3, <1>4

\* The slot of a failed open leaves the map, and so may a slot that took its place,
\* which is then displaced.
LEMMA DropFailedKeeps ==
  ASSUME Inv, NEW c \in Callers, DropFailed(c)
  PROVE  Inv'
<1>. USE NoSlotAssumption DEF Inv, TypeOK, DropFailed, Goto, DeleteKeyOf,
      SlotOrNone, Phases, OpenerPhases, Opener, Cached, Claimed, InFlight
<1>1. /\ AtAllocated' /\ OneOpener' /\ KeyOfCached' /\ Unallocated'
      /\ PhaseConn' /\ OneCloser' /\ HeldOpen' /\ ClosedOnce'
      /\ NothingCachedAfterClose'
  BY DEF AtAllocated, OneOpener, KeyOfCached, Unallocated, PhaseConn,
         OneCloser, HeldOpen, ClosedOnce, NothingCachedAfterClose
<1>2. TypeOK'
  BY DEF AtAllocated
<1>3. ErrorNotCached'
  BY DEF AtAllocated, KeyOfCached, ErrorNotCached
<1>4. AdmittedKept'
  BY DEF OneOpener, AdmittedKept
<1>5. OneRemover'
  BY DEF AtAllocated, OneRemover
<1>6. LeakOnlyWhenDisplaced'
  BY DEF PhaseConn, LeakOnlyWhenDisplaced
<1>. QED BY <1>1, <1>2, <1>3, <1>4, <1>5, <1>6

\* The re-check keeps only a slot the map still has.
LEMMA AdmitKeeps ==
  ASSUME Inv, NEW c \in Callers, Admit(c)
  PROVE  Inv'
<1>. USE NoSlotAssumption DEF Inv, TypeOK, Admit, Goto, SlotOrNone, Phases,
      OpenerPhases, Opener, Cached, Claimed, InFlight
<1>1. /\ TypeOK' /\ AtAllocated' /\ OneOpener' /\ KeyOfCached' /\ Unallocated'
      /\ PhaseConn' /\ ErrorNotCached' /\ AdmittedKept' /\ OneRemover'
      /\ OneCloser' /\ HeldOpen' /\ LeakOnlyWhenDisplaced' /\ ClosedOnce'
      /\ NothingCachedAfterClose'
  BY DEF AtAllocated, OneOpener, KeyOfCached, Unallocated, PhaseConn,
         ErrorNotCached, AdmittedKept, OneRemover, OneCloser, HeldOpen,
         LeakOnlyWhenDisplaced, ClosedOnce, NothingCachedAfterClose
<1>. QED BY <1>1

\* The re-check gives up a slot, and displaces one that took its place.
LEMMA RefuseKeeps ==
  ASSUME Inv, NEW c \in Callers, Refuse(c)
  PROVE  Inv'
<1>. USE NoSlotAssumption DEF Inv, TypeOK, Refuse, Goto, DeleteKeyOf,
      SlotOrNone, Phases, OpenerPhases, Opener, Cached, Claimed, InFlight
<1>1. /\ AtAllocated' /\ OneOpener' /\ KeyOfCached' /\ Unallocated'
      /\ PhaseConn' /\ OneCloser' /\ HeldOpen' /\ LeakOnlyWhenDisplaced'
      /\ ClosedOnce' /\ NothingCachedAfterClose'
  BY DEF AtAllocated, OneOpener, KeyOfCached, Unallocated, PhaseConn,
         OneCloser, HeldOpen, LeakOnlyWhenDisplaced, ClosedOnce,
         NothingCachedAfterClose
<1>2. TypeOK'
  BY DEF AtAllocated
<1>3. ErrorNotCached'
  BY DEF AtAllocated, KeyOfCached, ErrorNotCached
<1>4. AdmittedKept'
  BY DEF OneOpener, AdmittedKept
<1>5. OneRemover'
  BY DEF AtAllocated, OneRemover
<1>. QED BY <1>1, <1>2, <1>3, <1>4, <1>5

\* The opener closes a connection nobody else has seen.
LEMMA CloseRefusedKeeps ==
  ASSUME Inv, NEW c \in Callers, CloseRefused(c)
  PROVE  Inv'
<1>. USE NoSlotAssumption DEF Inv, TypeOK, CloseRefused, Goto, Shut,
      SlotOrNone, Phases, OpenerPhases, Opener, Cached, Claimed, InFlight
<1>1. /\ TypeOK' /\ AtAllocated' /\ OneOpener' /\ KeyOfCached'
      /\ ErrorNotCached' /\ AdmittedKept' /\ OneRemover' /\ OneCloser'
      /\ LeakOnlyWhenDisplaced' /\ NothingCachedAfterClose'
  BY DEF AtAllocated, OneOpener, KeyOfCached, ErrorNotCached, AdmittedKept,
         OneRemover, OneCloser, LeakOnlyWhenDisplaced, NothingCachedAfterClose
<1>2. Unallocated'
  BY DEF AtAllocated, Unallocated
<1>3. PhaseConn'
  BY DEF AtAllocated, OneOpener, PhaseConn
<1>4. HeldOpen'
  BY DEF OneOpener, HeldOpen
<1>5. ClosedOnce'
  BY DEF PhaseConn, ClosedOnce
<1>. QED BY <1>1, <1>2, <1>3, <1>4, <1>5

\* A slot that ends in an error is in no map and has nothing open.
LEMMA ReportErrorKeeps ==
  ASSUME Inv, NEW c \in Callers, ReportError(c)
  PROVE  Inv'
<1>. USE NoSlotAssumption DEF Inv, TypeOK, ReportError, Goto, SlotOrNone,
      Phases, OpenerPhases, Opener, Cached, Claimed, InFlight
<1>1. /\ AtAllocated' /\ OneOpener' /\ KeyOfCached' /\ PhaseConn'
      /\ AdmittedKept' /\ OneRemover' /\ OneCloser' /\ HeldOpen'
      /\ LeakOnlyWhenDisplaced' /\ ClosedOnce' /\ NothingCachedAfterClose'
  BY DEF AtAllocated, OneOpener, KeyOfCached, PhaseConn, AdmittedKept,
         OneRemover, OneCloser, HeldOpen, LeakOnlyWhenDisplaced, ClosedOnce,
         NothingCachedAfterClose
<1>2. TypeOK'
  BY DEF AtAllocated
<1>3. Unallocated'
  BY DEF AtAllocated, Unallocated
<1>4. ErrorNotCached'
  BY DEF PhaseConn, ErrorNotCached
<1>. QED BY <1>1, <1>2, <1>3, <1>4

\* An admitted slot is still cached, or evict or Close has it, or it was displaced.
LEMMA PublishKeeps ==
  ASSUME Inv, NEW c \in Callers, Publish(c)
  PROVE  Inv'
<1>. USE NoSlotAssumption DEF Inv, TypeOK, Publish, Goto, SlotOrNone, Phases,
      OpenerPhases, Opener, Cached, Claimed, InFlight
<1>1. /\ AtAllocated' /\ OneOpener' /\ KeyOfCached' /\ PhaseConn'
      /\ ErrorNotCached' /\ AdmittedKept' /\ OneRemover' /\ OneCloser'
      /\ ClosedOnce' /\ NothingCachedAfterClose'
  BY DEF AtAllocated, OneOpener, KeyOfCached, PhaseConn, ErrorNotCached,
         AdmittedKept, OneRemover, OneCloser, ClosedOnce,
         NothingCachedAfterClose
<1>2. TypeOK'
  BY DEF AtAllocated
<1>3. Unallocated'
  BY DEF AtAllocated, Unallocated
<1>4. HeldOpen'
  BY DEF PhaseConn, HeldOpen
<1>5. LeakOnlyWhenDisplaced'
  BY DEF AdmittedKept, LeakOnlyWhenDisplaced
<1>. QED BY <1>1, <1>2, <1>3, <1>4, <1>5

\* A waiter leaves when the slot is done.
LEMMA WakeKeeps ==
  ASSUME Inv, NEW c \in Callers, Wake(c)
  PROVE  Inv'
<1>. USE NoSlotAssumption DEF Inv, TypeOK, Wake, Goto, SlotOrNone, Phases,
      OpenerPhases, Opener, Cached, Claimed, InFlight
<1>1. /\ TypeOK' /\ AtAllocated' /\ OneOpener' /\ KeyOfCached' /\ Unallocated'
      /\ PhaseConn' /\ ErrorNotCached' /\ AdmittedKept' /\ OneRemover'
      /\ OneCloser' /\ HeldOpen' /\ LeakOnlyWhenDisplaced' /\ ClosedOnce'
      /\ NothingCachedAfterClose'
  BY DEF AtAllocated, OneOpener, KeyOfCached, Unallocated, PhaseConn,
         ErrorNotCached, AdmittedKept, OneRemover, OneCloser, HeldOpen,
         LeakOnlyWhenDisplaced, ClosedOnce, NothingCachedAfterClose
<1>. QED BY <1>1

\* A caller lets go of an entry.
LEMMA ReleaseKeeps ==
  ASSUME Inv, NEW c \in Callers, Release(c)
  PROVE  Inv'
<1>. USE NoSlotAssumption DEF Inv, TypeOK, Release, Goto, SlotOrNone, Phases,
      OpenerPhases, Opener, Cached, Claimed, InFlight
<1>1. /\ TypeOK' /\ AtAllocated' /\ OneOpener' /\ KeyOfCached' /\ Unallocated'
      /\ PhaseConn' /\ ErrorNotCached' /\ AdmittedKept' /\ OneRemover'
      /\ OneCloser' /\ HeldOpen' /\ LeakOnlyWhenDisplaced' /\ ClosedOnce'
      /\ NothingCachedAfterClose'
  BY DEF AtAllocated, OneOpener, KeyOfCached, Unallocated, PhaseConn,
         ErrorNotCached, AdmittedKept, OneRemover, OneCloser, HeldOpen,
         LeakOnlyWhenDisplaced, ClosedOnce, NothingCachedAfterClose
<1>. QED BY <1>1

\* evict takes a slot that no other evict and no Close has.
LEMMA EvictKeeps ==
  ASSUME Inv, NEW c \in Callers, NEW i \in Ids, Evict(c, i)
  PROVE  Inv'
<1>. USE NoSlotAssumption DEF Inv, TypeOK, Evict, Goto, SlotOrNone, Phases,
      OpenerPhases, Opener, Cached, Claimed, InFlight
<1>0. slots[i] \in Slots /\ key[slots[i]] = {i} /\ {i} # {}
  BY DEF KeyOfCached
<1>1. /\ TypeOK' /\ OneOpener' /\ Unallocated' /\ PhaseConn' /\ OneCloser'
      /\ ClosedOnce' /\ NothingCachedAfterClose'
  BY <1>0 DEF OneOpener, Unallocated, PhaseConn, OneCloser, ClosedOnce,
         NothingCachedAfterClose
<1>2. AtAllocated'
  BY <1>0 DEF AtAllocated
<1>3. KeyOfCached'
  BY <1>0 DEF KeyOfCached
<1>4. ErrorNotCached'
  BY <1>0 DEF AtAllocated, ErrorNotCached
<1>5. AdmittedKept'
  BY <1>0 DEF AdmittedKept
<1>6. OneRemover'
  BY <1>0 DEF AtAllocated, KeyOfCached, ErrorNotCached, OneRemover, OneCloser,
         HeldOpen
<1>7. HeldOpen'
  BY <1>0 DEF HeldOpen
<1>8. LeakOnlyWhenDisplaced'
  BY <1>0 DEF LeakOnlyWhenDisplaced
<1>. QED BY <1>1, <1>2, <1>3, <1>4, <1>5, <1>6, <1>7, <1>8

\* evict closes the connection of the slot it took, which is still open.
LEMMA FinishEvictKeeps ==
  ASSUME Inv, NEW c \in Callers, FinishEvict(c)
  PROVE  Inv'
<1>. USE NoSlotAssumption DEF Inv, TypeOK, FinishEvict, Goto, Shut, SlotOrNone,
      Phases, OpenerPhases, Opener, Cached, Claimed, InFlight
<1>1. /\ TypeOK' /\ AtAllocated' /\ OneOpener' /\ KeyOfCached' /\ Unallocated'
      /\ ErrorNotCached' /\ OneRemover' /\ OneCloser'
      /\ NothingCachedAfterClose'
  BY DEF AtAllocated, OneOpener, KeyOfCached, Unallocated, ErrorNotCached,
         OneRemover, OneCloser, NothingCachedAfterClose
<1>2. PhaseConn'
  BY DEF AtAllocated, OneOpener, PhaseConn
<1>3. AdmittedKept'
  BY DEF OneOpener, AdmittedKept
<1>4. HeldOpen'
  BY DEF OneRemover, HeldOpen
<1>5. LeakOnlyWhenDisplaced'
  BY DEF ErrorNotCached, LeakOnlyWhenDisplaced
<1>6. ClosedOnce'
  BY DEF HeldOpen, ClosedOnce
<1>. QED BY <1>1, <1>2, <1>3, <1>4, <1>5, <1>6

\* Close takes every cached slot; no evict has one of them.
LEMMA StartCloseKeeps ==
  ASSUME Inv, NEW c \in Callers, StartClose(c)
  PROVE  Inv'
<1>. USE NoSlotAssumption DEF Inv, TypeOK, StartClose, Goto, SlotOrNone,
      Phases, OpenerPhases, Opener, Cached, Claimed, InFlight
<1>0. ASSUME NEW s \in draining'
      PROVE  key[s] # {}
  <2>1. PICK i \in Ids : slots[i] = s
    OBVIOUS
  <2>2. key[s] = {i}
    BY <2>1 DEF KeyOfCached
  <2>. QED BY <2>2
<1>1. /\ TypeOK' /\ AtAllocated' /\ OneOpener' /\ KeyOfCached' /\ PhaseConn'
      /\ OneCloser' /\ HeldOpen' /\ ClosedOnce' /\ NothingCachedAfterClose'
  BY DEF AtAllocated, OneOpener, KeyOfCached, PhaseConn, OneCloser, HeldOpen,
         ClosedOnce, NothingCachedAfterClose
<1>2. Unallocated'
  BY <1>0 DEF KeyOfCached, Unallocated
<1>3. ErrorNotCached'
  BY DEF AtAllocated, ErrorNotCached
<1>4. AdmittedKept'
  BY DEF AdmittedKept, OneCloser
<1>5. OneRemover'
  BY DEF AtAllocated, OneRemover
<1>6. LeakOnlyWhenDisplaced'
  BY DEF OneCloser, LeakOnlyWhenDisplaced
<1>. QED BY <1>1, <1>2, <1>3, <1>4, <1>5, <1>6

\* Close works on one of its slots at a time.
LEMMA PickToCloseKeeps ==
  ASSUME Inv, NEW c \in Callers, NEW s \in Slots, PickToClose(c, s)
  PROVE  Inv'
<1>. USE NoSlotAssumption DEF Inv, TypeOK, PickToClose, Goto, SlotOrNone,
      Phases, OpenerPhases, Opener, Cached, Claimed, InFlight
<1>1. /\ TypeOK' /\ AtAllocated' /\ OneOpener' /\ KeyOfCached' /\ Unallocated'
      /\ PhaseConn' /\ ErrorNotCached' /\ AdmittedKept' /\ OneRemover'
      /\ OneCloser' /\ HeldOpen' /\ LeakOnlyWhenDisplaced' /\ ClosedOnce'
      /\ NothingCachedAfterClose'
  BY DEF AtAllocated, OneOpener, KeyOfCached, Unallocated, PhaseConn,
         ErrorNotCached, AdmittedKept, OneRemover, OneCloser, HeldOpen,
         LeakOnlyWhenDisplaced, ClosedOnce, NothingCachedAfterClose
<1>. QED BY <1>1

\* Close closes the connection of a slot it took, which is still open.
LEMMA CloseSlotKeeps ==
  ASSUME Inv, NEW c \in Callers, CloseSlot(c)
  PROVE  Inv'
<1>. USE NoSlotAssumption DEF Inv, TypeOK, CloseSlot, Goto, Shut, SlotOrNone,
      Phases, OpenerPhases, Opener, Cached, Claimed, InFlight
<1>1. /\ TypeOK' /\ AtAllocated' /\ OneOpener' /\ KeyOfCached' /\ Unallocated'
      /\ ErrorNotCached' /\ OneRemover' /\ OneCloser'
      /\ NothingCachedAfterClose'
  BY DEF AtAllocated, OneOpener, KeyOfCached, Unallocated, ErrorNotCached,
         OneRemover, OneCloser, NothingCachedAfterClose
<1>2. PhaseConn'
  BY DEF AtAllocated, OneOpener, PhaseConn
<1>3. AdmittedKept'
  BY DEF OneOpener, AdmittedKept
<1>4. HeldOpen'
  BY DEF OneRemover, OneCloser, HeldOpen
<1>5. LeakOnlyWhenDisplaced'
  BY DEF ErrorNotCached, LeakOnlyWhenDisplaced
<1>6. ClosedOnce'
  BY DEF OneCloser, HeldOpen, ClosedOnce
<1>. QED BY <1>1, <1>2, <1>3, <1>4, <1>5, <1>6

\* Close returns when it has worked through its slots.
LEMMA FinishCloseKeeps ==
  ASSUME Inv, NEW c \in Callers, FinishClose(c)
  PROVE  Inv'
<1>. USE NoSlotAssumption DEF Inv, TypeOK, FinishClose, Goto, SlotOrNone,
      Phases, OpenerPhases, Opener, Cached, Claimed, InFlight
<1>1. /\ TypeOK' /\ AtAllocated' /\ OneOpener' /\ KeyOfCached' /\ Unallocated'
      /\ PhaseConn' /\ ErrorNotCached' /\ AdmittedKept' /\ OneRemover'
      /\ OneCloser' /\ HeldOpen' /\ LeakOnlyWhenDisplaced' /\ ClosedOnce'
      /\ NothingCachedAfterClose'
  BY DEF AtAllocated, OneOpener, KeyOfCached, Unallocated, PhaseConn,
         ErrorNotCached, AdmittedKept, OneRemover, OneCloser, HeldOpen,
         LeakOnlyWhenDisplaced, ClosedOnce, NothingCachedAfterClose
<1>. QED BY <1>1

-----------------------------------------------------------------------------
(* The theorems                                                            *)

\* An empty pool owns nothing: Inv holds at the start.
LEMMA InitInv == Init => Inv
<1>. SUFFICES ASSUME Init PROVE Inv
  OBVIOUS
<1>. USE NoSlotAssumption DEF Init, SlotOrNone, Phases, OpenerPhases
<1>1. TypeOK
  BY DEF TypeOK
<1>2. AtAllocated /\ OneOpener /\ KeyOfCached /\ Unallocated /\ PhaseConn
  BY DEF AtAllocated, OneOpener, KeyOfCached, Unallocated, PhaseConn, Opener
<1>3. ErrorNotCached /\ AdmittedKept /\ OneRemover /\ OneCloser /\ HeldOpen
  BY DEF ErrorNotCached, AdmittedKept, OneRemover, OneCloser, HeldOpen
<1>4. LeakOnlyWhenDisplaced /\ ClosedOnce /\ NothingCachedAfterClose
  BY DEF LeakOnlyWhenDisplaced, ClosedOnce, NothingCachedAfterClose
<1>. QED BY <1>1, <1>2, <1>3, <1>4 DEF Inv

\* A step that changes nothing keeps everything.
LEMMA StutterKeeps == Inv /\ UNCHANGED vars => Inv'
<1>. SUFFICES ASSUME Inv, UNCHANGED vars PROVE Inv'
  OBVIOUS
<1>. USE DEF vars, Inv
<1>1. TypeOK'
  BY DEF TypeOK
<1>2. AtAllocated' /\ OneOpener' /\ KeyOfCached' /\ Unallocated' /\ PhaseConn'
  BY DEF AtAllocated, OneOpener, KeyOfCached, Unallocated, PhaseConn, Opener
<1>3. ErrorNotCached' /\ AdmittedKept' /\ OneRemover' /\ OneCloser' /\ HeldOpen'
  BY DEF ErrorNotCached, AdmittedKept, OneRemover, OneCloser, HeldOpen, Cached, Claimed
<1>4. LeakOnlyWhenDisplaced' /\ ClosedOnce' /\ NothingCachedAfterClose'
  BY DEF LeakOnlyWhenDisplaced, ClosedOnce, NothingCachedAfterClose, Cached, Claimed,
         InFlight
<1>. QED BY <1>1, <1>2, <1>3, <1>4

\* Every step keeps Inv, whatever call takes it.
LEMMA NextInv == Inv /\ [Next]_vars => Inv'
<1>. SUFFICES ASSUME Inv, [Next]_vars PROVE Inv'
  OBVIOUS
<1>1. CASE UNCHANGED vars
  BY <1>1, StutterKeeps
<1>2. ASSUME NEW c \in Callers, Advance(c) PROVE Inv'
  <2>1. CASE OpenFails(c) \/ OpenSucceeds(c) \/ DropFailed(c)
    BY <2>1, OpenFailsKeeps, OpenSucceedsKeeps, DropFailedKeeps
  <2>2. CASE Admit(c) \/ Refuse(c) \/ CloseRefused(c)
    BY <2>2, AdmitKeeps, RefuseKeeps, CloseRefusedKeeps
  <2>3. CASE ReportError(c) \/ Publish(c) \/ Wake(c)
    BY <2>3, ReportErrorKeeps, PublishKeeps, WakeKeeps
  <2>4. CASE FinishEvict(c)
    BY <2>4, FinishEvictKeeps
  <2>5. CASE (\E s \in Slots : PickToClose(c, s)) \/ CloseSlot(c) \/ FinishClose(c)
    BY <2>5, PickToCloseKeeps, CloseSlotKeeps, FinishCloseKeeps
  <2>. QED BY <1>2, <2>1, <2>2, <2>3, <2>4, <2>5 DEF Advance
<1>3. ASSUME NEW c \in Callers, Request(c) PROVE Inv'
  <2>1. CASE RefuseClosed(c) \/ CloseAgain(c)
    BY <2>1, StutterKeeps DEF RefuseClosed, CloseAgain
  <2>2. CASE StartClose(c) \/ Release(c)
    BY <2>2, StartCloseKeeps, ReleaseKeeps
  <2>3. CASE \E i \in Ids : Join(c, i) \/ Evict(c, i) \/ EvictAbsent(c, i)
    BY <2>3, JoinKeeps, EvictKeeps, StutterKeeps DEF EvictAbsent
  <2>4. CASE \E i \in Ids, s \in Slots : StartOpen(c, i, s)
    BY <2>4, StartOpenKeeps
  <2>. QED BY <1>3, <2>1, <2>2, <2>3, <2>4 DEF Request
<1>. QED BY <1>1, <1>2, <1>3 DEF Next

\* Inv holds in every state of the pool.
THEOREM Invariance == Spec => []Inv
<1>. QED BY InitInv, NextInv, PTL DEF Spec

\* Every variable keeps its type, for any number of callers, identities and slots.
THEOREM TypeCorrect == Spec => []TypeOK
<1>1. Inv => TypeOK
  BY DEF Inv
<1>. QED BY <1>1, Invariance, PTL

\* openOrGet, evict and Close lose no connection other than one whose slot the
\* unguarded delete of another slot's open removed.
THEOREM OnlyDisplacedLeak == Spec => []LeakOnlyWhenDisplaced
<1>1. Inv => LeakOnlyWhenDisplaced
  BY DEF Inv
<1>. QED BY <1>1, Invariance, PTL

\* openOrGet's fast path hands out only open connections.
THEOREM FastPathUsable == Spec => []CachedIsUsable
<1>1. Inv => CachedIsUsable
  BY NoSlotAssumption
  DEF Inv, TypeOK, SlotOrNone, CachedIsUsable, ErrorNotCached, HeldOpen, Cached
<1>. QED BY <1>1, Invariance, PTL

\* The opener, evict and Close never close a connection twice between them.
THEOREM NoDoubleClose == Spec => []ClosedOnce
<1>1. Inv => ClosedOnce
  BY DEF Inv
<1>. QED BY <1>1, Invariance, PTL

\* No open that overlaps Close gets its slot into the map of a closed pool.
THEOREM ClosedStaysEmpty == Spec => []NothingCachedAfterClose
<1>1. Inv => NothingCachedAfterClose
  BY DEF Inv
<1>. QED BY <1>1, Invariance, PTL

-----------------------------------------------------------------------------
(* Refinement of ConnPoolSpec: every step of a call is a step of the promise  *)
(* or leaves what callers can see unchanged.                                 *)

AllServing == [i \in Ids |-> Serving(i)]
AllStages == [s \in Slots |-> Stage(s)]

\* What callers see of the pool.
Seen == <<AllServing, AllStages, closed>>

\* A step that leaves the map, the held slots, the connections and closed alone is
\* invisible.
LEMMA Invisible ==
  ASSUME UNCHANGED <<slots, held, conn, closed>>
  PROVE  UNCHANGED Seen
BY DEF Seen, AllServing, AllStages, Serving, Stage

\* One connection changes its stage.
LEMMA StageChanges ==
  ASSUME NEW x \in Slots, NEW v, Stage(x)' = v,
         \A s \in Slots \ {x} : Stage(s)' = Stage(s)
  PROVE  AllStages' = [AllStages EXCEPT ![x] = v]
BY DEF AllStages

\* One identity is served by another connection, or by none.
LEMMA ServingChanges ==
  ASSUME NEW i \in Ids, NEW v, Serving(i)' = v,
         \A j \in Ids \ {i} : Serving(j)' = Serving(j)
  PROVE  AllServing' = [AllServing EXCEPT ![i] = v]
BY DEF AllServing

\* A pool starts out serving nothing.
LEMMA InitPromise == Init => Promise!Init
BY NoSlotAssumption
DEF Init, Promise!Init, Serving, Stage

\* The slot a call works on is the same one before and after the step, so it is
\* named by a constant x in what follows.

\* The open brings a connection that nobody is given yet.
LEMMA OpenSucceedsPromise ==
  ASSUME Inv, NEW c \in Callers, OpenSucceeds(c)
  PROVE  \E x \in Slots : Promise!Open(x)
<1>1. PICK x \in Slots : x = at[c] /\ conn[x] = "none" /\ x \notin held
  BY DEF Inv, OpenSucceeds, AtAllocated, OneOpener, Opener, OpenerPhases, PhaseConn, HeldOpen
<1>. USE <1>1 DEF Inv, TypeOK, OpenSucceeds
<1>2. Stage(x) = "none" /\ Stage(x)' = "opened"
  BY DEF Stage
<1>3. \A s \in Slots \ {x} : Stage(s)' = Stage(s)
  BY DEF Stage
<1>4. UNCHANGED <<AllServing, closed>>
  BY DEF AllServing, Serving
<1>. QED BY <1>2, <1>3, <1>4, StageChanges DEF Promise!Open, AllStages, AllServing

\* What closes a connection outside the map is the end of that connection.
LEMMA ShutPromise ==
  ASSUME Inv, NEW x \in Slots, Shut(x), conn[x] = "open", ~Cached(x),
         UNCHANGED <<slots, held, closed>>
  PROVE  Promise!Shut(x)
<1>. USE DEF Inv, TypeOK, Shut
<1>1. Stage(x) \in {"opened", "published"} /\ Stage(x)' = "closed"
  BY DEF Stage
<1>2. \A s \in Slots \ {x} : Stage(s)' = Stage(s)
  BY DEF Stage
<1>3. UNCHANGED <<AllServing, closed>>
  BY DEF AllServing, Serving
<1>4. \A i \in Ids : AllServing[i] # x
  BY NoSlotAssumption DEF AllServing, Serving, Cached
<1>. QED BY <1>1, <1>2, <1>3, <1>4, StageChanges DEF Promise!Shut, AllStages, AllServing

\* What removes the slot of one identity from the map withdraws its connection.
LEMMA WithdrawPromise ==
  ASSUME Inv, NEW i \in Ids, slots' = [slots EXCEPT ![i] = NoSlot],
         UNCHANGED <<held, conn, closed>>
  PROVE  Promise!Withdraw(i)
<1>. USE DEF Inv, TypeOK
<1>1. Serving(i)' = NoSlot
  BY DEF Serving
<1>2. \A j \in Ids \ {i} : Serving(j)' = Serving(j)
  BY DEF Serving
<1>3. UNCHANGED <<AllStages, closed>>
  BY DEF AllStages, Stage
<1>. QED BY <1>1, <1>2, <1>3, ServingChanges DEF Promise!Withdraw, AllStages, AllServing

\* The unguarded delete of the error path and of the re-check withdraws whatever
\* serves the identity.
LEMMA DeletePromise ==
  ASSUME Inv, NEW c \in Callers, DropFailed(c) \/ Refuse(c)
  PROVE  \E i \in Ids : Promise!Withdraw(i)
<1>1. PICK i \in Ids : key[at[c]] = {i}
  BY DEF Inv, AtAllocated, KeyOfCached, DropFailed, Refuse, OpenerPhases
<1>2. slots' = [slots EXCEPT ![i] = NoSlot]
  BY <1>1 DEF Inv, TypeOK, DropFailed, Refuse, DeleteKeyOf
<1>3. UNCHANGED <<held, conn, closed>>
  BY DEF DropFailed, Refuse
<1>. QED BY <1>2, <1>3, WithdrawPromise

\* A published connection serves its identity if its slot is still in the map.
LEMMA PublishPromise ==
  ASSUME Inv, NEW c \in Callers, Publish(c)
  PROVE  \E x \in Slots : Promise!Publish(x)
<1>1. PICK x \in Slots : x = at[c] /\ conn[x] = "open" /\ x \notin held
  BY DEF Inv, Publish, AtAllocated, OneOpener, Opener, OpenerPhases, PhaseConn, HeldOpen
<1>. USE <1>1 DEF Inv, TypeOK, Publish
<1>2. Stage(x) = "opened" /\ Stage(x)' = "published"
  BY DEF Stage
<1>3. \A s \in Slots \ {x} : Stage(s)' = Stage(s)
  BY DEF Stage
<1>4. CASE ~Cached(x)
  <2>1. AllServing' = AllServing
    BY <1>4 DEF AllServing, Serving, Cached
  <2>. QED BY <1>2, <1>3, <2>1, StageChanges DEF Promise!Publish, AllStages, AllServing
<1>5. CASE Cached(x)
  <2>1. PICK i \in Ids : slots[i] = x
    BY <1>5 DEF Cached
  <2>2. \A j \in Ids \ {i} : slots[j] # x
    BY <2>1, NoSlotAssumption DEF KeyOfCached
  <2>3. Serving(i) = NoSlot /\ Serving(i)' = x
    BY <2>1 DEF Serving
  <2>4. \A j \in Ids \ {i} : Serving(j)' = Serving(j)
    BY <2>2 DEF Serving
  <2>5. ~closed
    BY <2>1, NoSlotAssumption DEF NothingCachedAfterClose
  <2>. QED BY <1>2, <1>3, <2>3, <2>4, <2>5, StageChanges, ServingChanges
           DEF Promise!Publish, AllStages, AllServing
<1>. QED BY <1>4, <1>5

\* Close withdraws everything at once.
LEMMA ClosePromise ==
  ASSUME Inv, NEW c \in Callers, StartClose(c)
  PROVE  Promise!Close
BY DEF Inv, TypeOK, HeldOpen, StartClose, Promise!Close, Serving, Stage

\* A started call moves on as the promise allows.
LEMMA AdvancePromise ==
  ASSUME Inv, NEW c \in Callers, Advance(c)
  PROVE  Promise!Next \/ UNCHANGED Seen
<1>1. CASE OpenSucceeds(c)
  BY <1>1, OpenSucceedsPromise DEF Promise!Next
<1>2. CASE DropFailed(c) \/ Refuse(c)
  BY <1>2, DeletePromise DEF Promise!Next
<1>3. CASE Publish(c)
  BY <1>3, PublishPromise DEF Promise!Next
<1>4. CASE CloseRefused(c)
  <2>1. PICK x \in Slots : x = at[c] /\ conn[x] = "open" /\ ~Cached(x)
    BY <1>4 DEF Inv, CloseRefused, AtAllocated, OpenerPhases, PhaseConn, ErrorNotCached
  <2>2. Promise!Shut(x)
    BY <1>4, <2>1, ShutPromise DEF CloseRefused, Shut
  <2>. QED BY <2>2 DEF Promise!Next
<1>5. CASE FinishEvict(c) /\ at[c] \in held
  <2>1. PICK x \in Slots : x = at[c] /\ conn[x] = "open" /\ ~Cached(x)
    BY <1>5 DEF Inv, FinishEvict, AtAllocated, OneRemover, HeldOpen, Claimed
  <2>2. Promise!Shut(x)
    BY <1>5, <2>1, ShutPromise DEF FinishEvict, Shut
  <2>. QED BY <2>2 DEF Promise!Next
<1>6. CASE CloseSlot(c) /\ at[c] \in held
  <2>1. PICK x \in Slots : x = at[c] /\ conn[x] = "open" /\ ~Cached(x)
    BY <1>6, NoSlotAssumption
    DEF Inv, TypeOK, CloseSlot, OneCloser, OneRemover, HeldOpen, Claimed
  <2>2. Promise!Shut(x)
    BY <1>6, <2>1, ShutPromise DEF CloseSlot, Shut
  <2>. QED BY <2>2 DEF Promise!Next
<1>7. CASE (FinishEvict(c) \/ CloseSlot(c)) /\ at[c] \notin held
  BY <1>7, Invisible DEF FinishEvict, CloseSlot
<1>8. CASE OpenFails(c) \/ Admit(c) \/ ReportError(c)
  BY <1>8, Invisible DEF OpenFails, Admit, ReportError
<1>9. CASE Wake(c) \/ FinishClose(c)
  BY <1>9, Invisible DEF Wake, FinishClose
<1>10. CASE \E s \in Slots : PickToClose(c, s)
  BY <1>10, Invisible DEF PickToClose
<1>. QED BY <1>1, <1>2, <1>3, <1>4, <1>5, <1>6, <1>7, <1>8, <1>9, <1>10 DEF Advance

\* Starting a call serves nothing new; evict and Close withdraw.
LEMMA RequestPromise ==
  ASSUME Inv, NEW c \in Callers, Request(c)
  PROVE  Promise!Next \/ UNCHANGED Seen
<1>1. CASE RefuseClosed(c) \/ CloseAgain(c) \/ Release(c)
  BY <1>1, Invisible DEF RefuseClosed, CloseAgain, Release, vars
<1>2. CASE StartClose(c)
  BY <1>2, ClosePromise DEF Promise!Next
<1>3. ASSUME NEW i \in Ids, Join(c, i) \/ EvictAbsent(c, i)
      PROVE  UNCHANGED Seen
  BY <1>3, Invisible DEF Join, EvictAbsent, vars
<1>4. ASSUME NEW i \in Ids, Evict(c, i)
      PROVE  Promise!Withdraw(i)
  BY <1>4, WithdrawPromise DEF Evict
<1>5. ASSUME NEW i \in Ids, NEW s \in Slots, StartOpen(c, i, s)
      PROVE  UNCHANGED Seen
  <2>1. s \notin held /\ NoSlot \notin held
    BY <1>5, NoSlotAssumption DEF Inv, TypeOK, StartOpen, Unallocated, HeldOpen
  <2>2. \A j \in Ids : Serving(j)' = Serving(j)
    BY <1>5, <2>1 DEF Inv, TypeOK, StartOpen, Serving
  <2>3. AllServing' = AllServing
    BY <2>2 DEF AllServing
  <2>. QED BY <1>5, <2>3 DEF Seen, AllStages, Stage, StartOpen
<1>. QED BY <1>1, <1>2, <1>3, <1>4, <1>5 DEF Request, Promise!Next

\* ConnPool implements ConnPoolSpec, for any number of callers, identities and slots.
THEOREM PoolKeepsPromise == Spec => KeepsPromise
<1>1. Inv /\ [Next]_vars => [Promise!Next]_Promise!vars
  <2>1. ASSUME Inv, UNCHANGED vars PROVE UNCHANGED Seen
    BY <2>1, Invisible DEF vars
  <2>2. ASSUME Inv, Next PROVE Promise!Next \/ UNCHANGED Seen
    BY <2>2, AdvancePromise, RequestPromise DEF Next
  <2>3. UNCHANGED Seen => UNCHANGED Promise!vars
    BY DEF Promise!vars, Seen, AllServing, AllStages
  <2>. QED BY <2>1, <2>2, <2>3
<1>. QED BY <1>1, InitPromise, Invariance, PTL DEF Spec, KeepsPromise, Promise!Spec

=============================================================================

---------------------------- MODULE TeeBoxProofs ----------------------------
(***************************************************************************)
(* Proofs about TeeBox, for any number of customers, sandboxes, worker     *)
(* crashes and VM launches, and for every set of faults: a boot has at     *)
(* most one customer, RTMR3 shows it, its containers are that customer's,  *)
(* and no sweep removes a sandbox the table lists; and nothing outlives a  *)
(* hand-over: from the listing to the clean sweep, the drain of the box    *)
(* start loses no container, whatever creates, deletes, the reaper and the *)
(* daemon do meanwhile.                                                    *)
(***************************************************************************)
EXTENDS TeeBox, TLAPS

\* What ties the record, the marker and RTMR3 to the customer of the boot.
GuardInv ==
  /\ OneCustomerPerBoot
  /\ LeaseIsMeasured
  /\ UseIsReported
  /\ up /\ extended => rtmr = "consumed"
  /\ up /\ record.by \in Callers => rtmr = "consumed"
  /\ up /\ record.by \in Callers /\ ~record.released => record.by \in granted
  /\ granted # {} /\ marker.boot = boot => marker.by \in granted \cup {Unknown, Nobody}
  /\ lease.holder # Nobody => lease.holder \in granted

\* A name is in one place: with the daemon, running, being created or recorded; a
\* delete in hand is of a recorded sandbox, and once it saw the container gone,
\* the container is gone.
PlacesInv ==
  /\ TrackedRuns
  /\ creating \cap table = {}
  /\ (running \cup table) \cap late = {}
  /\ \A s \in Sandboxes : deletes[s] # "no" => s \in table
  /\ \A s \in Sandboxes : deletes[s] = "removed" => s \notin running

\* A sweep's remaining names are never those of sandboxes that are kept.
TableInv ==
  /\ PlacesInv
  /\ \A w \in Sweepers : sweep[w].pc = "remove" => sweep[w].todo \cap Keep = {}

IInv == TypeOK /\ GuardInv /\ ContainersAreTheCustomers /\ TableInv

-----------------------------------------------------------------------------
USE CallersAssumption, BoundsAssumption

\* Shapes of the values the actions build.
LEMMA Shapes ==
  /\ FreshRecord \in RecordType /\ ClosedRecord \in RecordType
  /\ \A c \in Callers : Consumed(c) \in RecordType
  /\ NoLease \in LeaseType /\ NoMarker \in MarkerType /\ IdleSweep \in SweepType
  /\ \A r \in RecordType : boot \in 1..MaxBoots => OnDisk(r) \in MarkerType
<1>1. FreshRecord \in RecordType /\ ClosedRecord \in RecordType
    BY DEF FreshRecord, ClosedRecord, RecordType
<1>2. \A c \in Callers : Consumed(c) \in RecordType
    BY DEF Consumed, RecordType
<1>3. NoLease \in LeaseType /\ NoMarker \in MarkerType
    BY DEF NoLease, NoMarker, LeaseType, MarkerType
<1>4. IdleSweep \in SweepType
    BY DEF IdleSweep, SweepType
<1>5. ASSUME NEW r \in RecordType, boot \in 1..MaxBoots PROVE OnDisk(r) \in MarkerType
    <2>1. boot \in 0..MaxBoots
        BY <1>5
    <2>2. r.by \in Callers \cup {Nobody, Unknown} /\ r.released \in BOOLEAN
        BY DEF RecordType
    <2> QED
        BY <2>1, <2>2 DEF OnDisk, MarkerType
<1> QED
    BY <1>1, <1>2, <1>3, <1>4, <1>5

\* The next states of one process's progress, away from the other state.
LEMMA SweepShapes ==
  ASSUME NEW r \in SweepType, NEW T \in SUBSET Sandboxes, NEW W \in SUBSET Sandboxes,
         NEW s, NEW b \in BOOLEAN
  PROVE  /\ [r EXCEPT !.pc = "remove", !.todo = T, !.waiting = W] \in SweepType
         /\ [r EXCEPT !.todo = @ \ {s}, !.left = @ \/ b] \in SweepType
         /\ [r EXCEPT !.pc = "keep", !.listed = T] \in SweepType
<1>1. [r EXCEPT !.pc = "remove", !.todo = T, !.waiting = W] \in SweepType
    BY Zenon DEF SweepType
<1>2. [r EXCEPT !.todo = @ \ {s}, !.left = @ \/ b] \in SweepType
    BY Zenon DEF SweepType
<1>3. [r EXCEPT !.pc = "keep", !.listed = T] \in SweepType
    BY Zenon DEF SweepType
<1> QED
    BY <1>1, <1>2, <1>3

\* The first worker of the first boot has granted and created nothing.
LEMMA InitIInv == Init => IInv
<1> SUFFICES ASSUME Init PROVE IInv
    OBVIOUS
<1> USE DEF Init
<1>1. TypeOK
    <2>1. boot \in 1..MaxBoots /\ restarts \in 0..MaxRestarts
        OBVIOUS
    <2>2. /\ sweep \in [Sweepers -> SweepType]
          /\ pending \in [Sandboxes -> {"no", "grace", "due"}]
          /\ deletes \in [Sandboxes -> {"no", "tried", "removed"}]
          /\ owner \in [Sandboxes -> Callers \cup {Nobody}]
        BY Shapes
    <2>3. marker \in MarkerType /\ record \in RecordType /\ lease \in LeaseType
        BY Shapes
    <2> QED
        BY <2>1, <2>2, <2>3, Zenon DEF TypeOK
<1>2. GuardInv
    BY DEF GuardInv, OneCustomerPerBoot, LeaseIsMeasured, UseIsReported, NoLease
<1>3. ContainersAreTheCustomers
    BY DEF ContainersAreTheCustomers
<1>4. TableInv
    BY DEF TableInv, PlacesInv, TrackedRuns, IdleSweep, Sweepers
<1> QED
    BY <1>1, <1>2, <1>3, <1>4 DEF IInv

\* Typing of one process's progress.
LEMMA SweepTyped ==
  ASSUME NEW w \in Sweepers, NEW new \in SweepType, sweep \in [Sweepers -> SweepType],
         SweepChange(w, new)
  PROVE  sweep' \in [Sweepers -> SweepType]
BY DEF SweepChange

\* A store keeps the record and the marker in their types.
LEMMA StoreTyped ==
  ASSUME NEW r \in RecordType, boot \in 1..MaxBoots, marker \in MarkerType, StoreOrClose(r)
  PROVE  record' \in RecordType /\ marker' \in MarkerType
<1>1. OnDisk(r) \in MarkerType
    BY Shapes
<1>2. [r EXCEPT !.by = Unknown] \in RecordType
    BY DEF RecordType
<1> QED
    BY <1>1, <1>2 DEF StoreOrClose

\* Every action keeps every variable in its type.
LEMMA TypeStep == TypeOK /\ [Next]_vars => TypeOK'
<1> SUFFICES ASSUME TypeOK, [Next]_vars PROVE TypeOK'
    OBVIOUS
<1> USE DEF TypeOK, guardVars, tableVars, daemonVars
<1>s. "drain" \in Sweepers /\ "reaper" \in Sweepers
    BY DEF Sweepers
<1>1. ASSUME LeaseNext, NoteClosed PROVE TypeOK'
    <2>c. closed' \in BOOLEAN
        BY <1>1 DEF NoteClosed
    <2>1. CASE LeaseRunsOut
        BY <2>1, <2>c, Zenon DEF LeaseRunsOut, LeaseType
    <2>r. ASSUME Released PROVE record' \in RecordType /\ marker' \in MarkerType
        <3>1. [record EXCEPT !.released = TRUE] \in RecordType
            BY Zenon DEF RecordType
        <3> QED
            BY <2>r, <3>1, StoreTyped DEF Released
    <2>2. CASE ExpireLocked
        <3>1. lease.holder \in Callers
            BY <2>2 DEF ExpireLocked, LeaseEnded, LeaseType
        <3> QED
            BY <2>2, <2>c, <2>r, <3>1, Shapes DEF ExpireLocked
    <2>3. ASSUME NEW c \in Callers, Release(c) PROVE TypeOK'
        BY <2>3, <2>c, <2>r, Shapes DEF Release
    <2>e. ASSUME ExtendOnce PROVE rtmr' \in {"fresh", "consumed", "other"} /\ extended' \in BOOLEAN
        BY <2>e, Zenon DEF ExtendOnce
    <2>4. ASSUME NEW c \in Callers, Acquire(c) PROVE TypeOK'
        <3>1. record' \in RecordType /\ marker' \in MarkerType
            BY <2>4, Shapes DEF Acquire
        <3>2. lease' \in LeaseType
            BY <2>4 DEF Acquire, LeaseType
        <3> QED
            BY <2>4, <2>c, <2>e, <3>1, <3>2 DEF Acquire
    <2>5. ASSUME NEW c \in Callers, AcquireUnrecorded(c) PROVE TypeOK'
        BY <2>5, <2>c, <2>e DEF AcquireUnrecorded
    <2>6. ASSUME NEW c \in Callers, NEW landed \in {"fresh", "consumed", "other"},
                 NEW seen \in {landed, "unreadable"}, AcquireNotExtended(c, landed, seen)
          PROVE  TypeOK'
        <3>1. [record EXCEPT !.by = Unknown] \in RecordType
            BY DEF RecordType
        <3>2. record' \in RecordType /\ marker' \in MarkerType
            BY <2>6, <3>1, Shapes DEF AcquireNotExtended, Close
        <3>3. extended' \in BOOLEAN
            BY <2>6, Zenon DEF AcquireNotExtended
        <3> QED
            BY <2>6, <2>c, <3>2, <3>3 DEF AcquireNotExtended
    <2> QED
        BY <1>1, <2>1, <2>2, <2>3, <2>4, <2>5, <2>6 DEF LeaseNext
<1>2. ASSUME SandboxNext, NoteClosed PROVE TypeOK'
    <2>c. closed' \in BOOLEAN
        BY <1>2 DEF NoteClosed
    <2>1. PICK s \in Sandboxes :
            \/ \E c \in Callers : CreateBegins(c, s)
            \/ DaemonStarts(s)
            \/ DaemonDrops(s)
            \/ CreateReturns(s)
            \/ \E timedOut, removed \in BOOLEAN : CreateFails(s, timedOut, removed)
            \/ GraceEnds(s)
            \/ \E removed \in BOOLEAN : Delete(s, removed)
            \/ DeleteForgets(s)
        BY <1>2, Zenon DEF SandboxNext
    <2>2. ASSUME NEW c \in Callers, CreateBegins(c, s) PROVE TypeOK'
        BY <2>2, <2>c DEF CreateBegins
    <2>3. CASE DaemonStarts(s)
        BY <2>3, <2>c DEF DaemonStarts
    <2>4. CASE DaemonDrops(s)
        BY <2>4, <2>c DEF DaemonDrops
    <2>5. CASE CreateReturns(s)
        BY <2>5, <2>c DEF CreateReturns
    <2>6. ASSUME NEW timedOut \in BOOLEAN, NEW removed \in BOOLEAN,
                 CreateFails(s, timedOut, removed)
          PROVE  TypeOK'
        <3>1. pending' \in [Sandboxes -> {"no", "grace", "due"}]
            BY <2>6 DEF CreateFails
        <3>2. running' \subseteq Sandboxes
            BY <2>6 DEF CreateFails, Remove
        <3> QED
            BY <2>6, <2>c, <3>1, <3>2 DEF CreateFails
    <2>7. CASE GraceEnds(s)
        BY <2>7, <2>c DEF GraceEnds
    <2>8. ASSUME NEW removed \in BOOLEAN, Delete(s, removed) PROVE TypeOK'
        <3>1. running' \subseteq Sandboxes
            BY <2>8 DEF Delete, DeleteRemoves, Remove
        <3>2. deletes' \in [Sandboxes -> {"no", "tried", "removed"}]
            BY <2>8 DEF Delete, DeleteRemoves
        <3> QED
            BY <2>8, <2>c, <3>1, <3>2, ZenonT(40) DEF Delete, DeleteRemoves
    <2>9. CASE DeleteForgets(s)
        <3>1. table' \subseteq Sandboxes /\ deletes' \in [Sandboxes -> {"no", "tried", "removed"}]
            BY <2>9 DEF DeleteForgets
        <3> QED
            BY <2>9, <2>c, <3>1, ZenonT(40) DEF DeleteForgets
    <2> QED
        BY <2>1, <2>2, <2>3, <2>4, <2>5, <2>6, <2>7, <2>8, <2>9, Zenon
<1>3. ASSUME DrainNext, NoteClosed PROVE TypeOK'
    <2>c. closed' \in BOOLEAN
        BY <1>3 DEF NoteClosed
    <2>1. CASE DrainBegins
        <3>1. [IdleSweep EXCEPT !.pc = "delete", !.target = draining, !.todo = Owned(draining)]
                \in SweepType
            BY Zenon DEF IdleSweep, SweepType, Owned
        <3>2. sweep' \in [Sweepers -> SweepType]
            BY <1>s, <2>1, <3>1, SweepTyped DEF DrainBegins
        <3> QED
            BY <2>1, <2>c, <3>2, ZenonT(40) DEF DrainBegins
    <2>2. ASSUME NEW s \in Sandboxes, NEW removed \in BOOLEAN, DrainDeletes(s, removed)
          PROVE  TypeOK'
        <3>1. [sweep["drain"] EXCEPT !.todo = @ \ {s}] \in SweepType
            BY <1>s DEF SweepType
        <3>2. sweep' \in [Sweepers -> SweepType]
            BY <1>s, <2>2, <3>1, SweepTyped DEF DrainDeletes
        <3>3. running' \subseteq Sandboxes
            BY <2>2 DEF DrainDeletes, DeleteRemoves, Remove
        <3>4. deletes' \in [Sandboxes -> {"no", "tried", "removed"}]
            BY <2>2 DEF DrainDeletes, DeleteRemoves
        <3> QED
            BY <2>2, <2>c, <3>2, <3>3, <3>4, ZenonT(40) DEF DrainDeletes, DeleteRemoves
    <2>4. ASSUME NEW s \in Sandboxes, DrainDeleted(s) PROVE TypeOK'
        <3>1. [sweep["drain"] EXCEPT !.todo = @ \ {s}] \in SweepType
            BY <1>s DEF SweepType
        <3>2. sweep' \in [Sweepers -> SweepType]
            BY <1>s, <2>4, <3>1, SweepTyped DEF DrainDeleted
        <3> QED
            BY <2>4, <2>c, <3>2, ZenonT(40) DEF DrainDeleted
    <2>3. CASE DrainLists
        <3>1. [sweep["drain"] EXCEPT !.pc = "list"] \in SweepType
            BY <1>s DEF SweepType
        <3>2. sweep' \in [Sweepers -> SweepType]
            BY <1>s, <2>3, <3>1, Shapes, SweepTyped DEF DrainLists, Settle
        <3> QED
            BY <2>3, <2>c, <3>2 DEF DrainLists, Settle
    <2> QED
        BY <1>3, <2>1, <2>2, <2>3, <2>4, Zenon DEF DrainNext
<1>4. ASSUME ReaperSweeps, NoteClosed PROVE TypeOK'
    <2>1. [IdleSweep EXCEPT !.pc = "list"] \in SweepType
        BY Zenon DEF IdleSweep, SweepType
    <2>2. sweep' \in [Sweepers -> SweepType]
        BY <1>s, <1>4, <2>1, SweepTyped DEF ReaperSweeps
    <2>3. closed' \in BOOLEAN
        BY <1>4 DEF NoteClosed
    <2> QED
        BY <1>4, <2>2, <2>3 DEF ReaperSweeps
<1>5. ASSUME NEW w \in Sweepers, SweepNext(w), NoteClosed PROVE TypeOK'
    <2>c. closed' \in BOOLEAN
        BY <1>5 DEF NoteClosed
    <2>e. ASSUME NEW clean \in BOOLEAN, SweepEnds(w, clean)
          PROVE  /\ sweep' \in [Sweepers -> SweepType]
                 /\ draining' \in Callers \cup {Nobody, BoxStart}
        BY <1>s, <2>e, Shapes, SweepTyped DEF SweepEnds, Settle
    <2>1. CASE SweepListed(w)
        <3>1. [sweep[w] EXCEPT !.pc = "keep", !.listed = running] \in SweepType
            BY SweepShapes, Zenon
        <3>2. /\ sweep' \in [Sweepers -> SweepType]
              /\ draining' \in Callers \cup {Nobody, BoxStart}
            BY <2>1, <2>e, <3>1, SweepTyped, Zenon DEF SweepListed
        <3> QED
            BY <2>1, <2>c, <3>2, ZenonT(40) DEF SweepListed
    <2>2. CASE SweepKeeps(w)
        <3>1. [sweep[w] EXCEPT !.pc = "remove",
                               !.todo = (sweep[w].listed \cup Pending) \ Keep,
                               !.waiting = {s \in Sandboxes : pending[s] = "grace"}]
                \in SweepType
            <4>1. sweep[w].listed \subseteq Sandboxes
                BY DEF SweepType
            <4> QED
                BY <4>1, SweepShapes, Zenon DEF Pending
        <3>2. sweep' \in [Sweepers -> SweepType]
            BY <2>2, <3>1, SweepTyped DEF SweepKeeps
        <3> QED
            BY <2>2, <2>c, <3>2 DEF SweepKeeps
    <2>3. ASSUME NEW s \in Sandboxes, NEW gone \in BOOLEAN, SweepOne(w, s, gone)
          PROVE  TypeOK'
        <3> DEFINE done == gone /\ s \notin sweep[w].waiting
        <3>1. [sweep[w] EXCEPT !.todo = @ \ {s}, !.left = @ \/ ~done] \in SweepType
            BY SweepShapes, ZenonT(40)
        <3>2. sweep' \in [Sweepers -> SweepType]
            BY <2>3, <3>1, SweepTyped DEF SweepOne
        <3>3. pending' \in [Sandboxes -> {"no", "grace", "due"}]
            BY <2>3 DEF SweepOne
        <3>4. running' \subseteq Sandboxes
            BY <2>3 DEF SweepOne, Remove
        <3> QED
            BY <2>3, <2>c, <3>2, <3>3, <3>4, ZenonT(40) DEF SweepOne
    <2>4. CASE SweepReturns(w)
        <3>1. /\ sweep' \in [Sweepers -> SweepType]
              /\ draining' \in Callers \cup {Nobody, BoxStart}
            BY <2>4, <2>e, Zenon DEF SweepReturns
        <3> QED
            BY <2>4, <2>c, <3>1 DEF SweepReturns
    <2> QED
        BY <1>5, <2>1, <2>2, <2>3, <2>4 DEF SweepNext
<1>6. ASSUME BootNext, NoteClosed PROVE TypeOK'
    <2>c. closed' \in BOOLEAN
        BY <1>6 DEF NoteClosed
    <2>f. ASSUME Forget
          PROVE  /\ up' \in BOOLEAN /\ record' \in RecordType /\ extended' \in BOOLEAN
                 /\ lease' \in LeaseType /\ draining' \in Callers \cup {Nobody, BoxStart}
                 /\ table' \subseteq Sandboxes /\ creating' \subseteq Sandboxes
                 /\ pending' \in [Sandboxes -> {"no", "grace", "due"}]
                 /\ deletes' \in [Sandboxes -> {"no", "tried", "removed"}]
                 /\ sweep' \in [Sweepers -> SweepType]
        BY <2>f, Shapes, Zenon DEF Forget
    <2>1. CASE Crash
        BY <2>1, <2>c, <2>f DEF Crash, CanCrash
    <2>2. ASSUME NEW c \in Callers, NEW written \in BOOLEAN, CrashInConsume(c, written)
          PROVE  TypeOK'
        <3>1. marker' \in MarkerType
            BY <2>2, Shapes DEF CrashInConsume
        <3>2. restarts' \in 0..MaxRestarts
            BY <2>2 DEF CrashInConsume, CanCrash
        <3> QED
            BY <2>2, <2>c, <2>f, <3>1, <3>2 DEF CrashInConsume
    <2>3. CASE Start
        <3>1. \A r \in Loaded : r \in RecordType
            BY Shapes DEF Loaded, RecordType, MarkerType
        <3>2. \A r \in RecordType : [r EXCEPT !.released = TRUE] \in RecordType
            BY Zenon DEF RecordType
        <3>3. record' \in RecordType /\ marker' \in MarkerType /\ extended' \in BOOLEAN
            BY <2>3, <3>1, <3>2, Shapes, StoreTyped DEF Start, LoadGuard
        <3> QED
            BY <2>3, <2>c, <3>3 DEF Start
    <2>4. CASE MarkerLost
        BY <2>4, <2>c, Shapes DEF MarkerLost
    <2>5. CASE Relaunch
        <3>1. marker' \in MarkerType /\ boot' \in 1..MaxBoots
            BY <2>5, Shapes DEF Relaunch
        <3> QED
            BY <2>5, <2>c, <2>f, <3>1 DEF Relaunch
    <2> QED
        BY <1>6, <2>1, <2>2, <2>3, <2>4, <2>5 DEF BootNext
<1>7. CASE UNCHANGED vars
    BY <1>7 DEF vars, boxVars
<1> QED
    BY <1>1, <1>2, <1>3, <1>4, <1>5, <1>6, <1>7 DEF Next

\* A customer that may lease a used boot is the one that used it.
LEMMA SameCustomer ==
  ASSUME TypeOK, GuardInv, NEW c \in Callers, MayAcquire(c)
  PROVE  /\ granted \subseteq {c}
         /\ record.by = Nobody => granted = {}
<1>1. up /\ record.by \in {Nobody, c}
    BY DEF MayAcquire, Unlocked, MayLease
<1>2. Nobody \notin granted /\ c # Unknown
    BY DEF TypeOK
<1>3. granted # {} => record.by \in granted \cup {Unknown}
    BY <1>1 DEF GuardInv, UseIsReported
<1>4. Unknown # Nobody
    BY DEF Unknown, Nobody
<1> QED
    BY <1>1, <1>2, <1>3, <1>4 DEF GuardInv, OneCustomerPerBoot

\* What a store leaves in the record and in the marker.
LEMMA StoreEffect ==
  ASSUME NEW r \in RecordType, StoreOrClose(r)
  PROVE  /\ record'.by \in {r.by, Unknown}
         /\ \/ UNCHANGED marker
            \/ marker'.by = r.by
BY DEF StoreOrClose, OnDisk, RecordType

\* Only the boot guard's own steps touch what it promises.
LEMMA GuardStep == TypeOK /\ GuardInv /\ [Next]_vars => GuardInv'
<1> SUFFICES ASSUME TypeOK, GuardInv, [Next]_vars PROVE GuardInv'
    OBVIOUS
<1> USE DEF guardVars, tableVars, daemonVars
<1>t. /\ record \in RecordType /\ marker \in MarkerType /\ lease \in LeaseType
      /\ granted \subseteq Callers
    BY DEF TypeOK
<1>n. Unknown \notin Callers /\ Nobody \notin Callers
    OBVIOUS
<1>r. ASSUME Released, up, UNCHANGED <<up, boot, rtmr, extended, granted>>, lease' = NoLease
      PROVE  GuardInv'
    <2>1. [record EXCEPT !.released = TRUE] \in RecordType
        BY <1>t, Zenon DEF RecordType
    <2>2. [record EXCEPT !.released = TRUE].by = record.by
        BY <1>t DEF RecordType
    <2>3. /\ record'.by \in {record.by, Unknown}
          /\ UNCHANGED marker \/ marker'.by = record.by
        BY <1>r, <2>1, <2>2, StoreEffect, Zenon DEF Released
    <2>5. record' = record \/ record'.by = Unknown \/ record'.released
        BY <1>r, <1>t, Zenon DEF Released, StoreOrClose, RecordType
    <2>4. lease'.holder = Nobody
        BY <1>r DEF NoLease
    <2> QED
        BY <1>r, <1>t, <1>n, <2>3, <2>4, <2>5
           DEF GuardInv, OneCustomerPerBoot, LeaseIsMeasured, UseIsReported
<1>1. CASE LeaseNext
    <2>1. CASE LeaseRunsOut
        <3>1. lease'.holder = lease.holder
            BY <1>t, <2>1 DEF LeaseRunsOut, LeaseType
        <3> QED
            BY <2>1, <3>1 DEF LeaseRunsOut, GuardInv, OneCustomerPerBoot, LeaseIsMeasured,
                              UseIsReported
    <2>2. CASE ExpireLocked
        BY <1>r, <2>2 DEF ExpireLocked, Unlocked
    <2>3. ASSUME NEW c \in Callers, Release(c) PROVE GuardInv'
        BY <1>r, <2>3 DEF Release, Unlocked
    <2>e. ASSUME NEW c \in Callers, MayAcquire(c), ExtendOnce
          PROVE  /\ rtmr' = "consumed"
                 /\ extended' => rtmr' = "consumed"
        <3>1. up /\ record.by \in {Nobody, c}
            BY <2>e, ZenonT(40) DEF MayAcquire, Unlocked, MayLease
        <3> QED
            BY <2>e, <3>1 DEF ExtendOnce, GuardInv
    <2>4. ASSUME NEW c \in Callers, Acquire(c) PROVE GuardInv'
        <3>1. granted' = {c} /\ rtmr' = "consumed" /\ lease'.holder = c
            BY <2>4, <2>e, SameCustomer DEF Acquire
        <3>2. record'.by = c
            BY <1>t, <2>4 DEF Acquire, Recorded, Consumed
        <3>3. marker' = marker \/ marker'.by = c
            BY <2>4 DEF Acquire, OnDisk, Consumed
        <3>4. marker' = marker /\ marker.boot = boot => marker'.by \in {c, Unknown, Nobody}
            <4>1. CASE Recorded(c)
                <5>1. c \in granted
                    BY <2>4, <4>1 DEF GuardInv, Recorded, Acquire, MayAcquire, Unlocked
                <5>2. granted = {c}
                    BY <2>4, <5>1, SameCustomer DEF Acquire
                <5> QED
                    BY <5>2, ZenonT(40) DEF GuardInv
            <4>2. CASE ~Recorded(c)
                BY ONLY <2>4, <4>2 DEF Acquire, OnDisk, Consumed
            <4> QED
                BY <4>1, <4>2
        <3> QED
            BY <2>4, <3>1, <3>2, <3>3, <3>4
               DEF Acquire, GuardInv, OneCustomerPerBoot, LeaseIsMeasured, UseIsReported
    <2>5. ASSUME NEW c \in Callers, AcquireUnrecorded(c) PROVE GuardInv'
        <3>1. rtmr' = "consumed"
            BY <2>5, <2>e, ZenonT(40) DEF AcquireUnrecorded
        <3> QED
            BY <2>5, <3>1 DEF AcquireUnrecorded, GuardInv, OneCustomerPerBoot,
                              LeaseIsMeasured, UseIsReported
    <2>6. ASSUME NEW c \in Callers, NEW landed \in {"fresh", "consumed", "other"},
                 NEW seen \in {landed, "unreadable"}, AcquireNotExtended(c, landed, seen)
          PROVE  GuardInv'
        <3>1. granted = {} /\ record.by = Nobody /\ up /\ lease.holder = Nobody
            BY <2>6, SameCustomer DEF AcquireNotExtended, MayAcquire, Unlocked
        <3>2. record'.by \in {Nobody, Unknown}
            BY <1>t, <2>6, <3>1 DEF AcquireNotExtended, Close, RecordType
        <3>3. extended' => rtmr' = "consumed"
            BY <2>6, Zenon DEF AcquireNotExtended
        <3> QED
            BY <1>n, <2>6, <3>1, <3>2, <3>3, ZenonT(40)
               DEF AcquireNotExtended, GuardInv, OneCustomerPerBoot, LeaseIsMeasured, UseIsReported
    <2> QED
        BY <1>1, <2>1, <2>2, <2>3, <2>4, <2>5, <2>6 DEF LeaseNext
<1>u. ASSUME UNCHANGED <<up, guardVars, lease>> PROVE GuardInv'
    BY <1>u, ZenonT(40) DEF GuardInv, OneCustomerPerBoot, LeaseIsMeasured, UseIsReported
<1>2. CASE SandboxNext
    BY <1>2, <1>u, ZenonT(40) DEF SandboxNext, CreateBegins, DaemonStarts, DaemonDrops,
                      CreateReturns, CreateFails, GraceEnds, Delete, DeleteRemoves, DeleteForgets
<1>3. CASE DrainNext
    BY <1>3, <1>u, ZenonT(40) DEF DrainNext, DrainBegins, DrainDeletes, DeleteRemoves,
                                  DrainDeleted, DrainLists
<1>4. CASE ReaperSweeps
    BY <1>4, <1>u DEF ReaperSweeps
<1>5. ASSUME NEW w \in Sweepers, SweepNext(w) PROVE GuardInv'
    BY <1>5, <1>u, Zenon DEF SweepNext, SweepListed, SweepKeeps, SweepOne, SweepReturns
<1>6. CASE BootNext
    <2>f. ASSUME Forget PROVE ~up' /\ lease'.holder = Nobody
        BY <2>f DEF Forget, NoLease
    <2>1. CASE Crash
        BY <2>1, <2>f, ZenonT(40) DEF Crash, GuardInv, OneCustomerPerBoot, LeaseIsMeasured, UseIsReported
    <2>2. ASSUME NEW c \in Callers, NEW written \in BOOLEAN, CrashInConsume(c, written)
          PROVE  GuardInv'
        <3>1. granted \subseteq {c} /\ (record.by = Nobody => granted = {})
            BY <2>2, SameCustomer DEF CrashInConsume
        <3>2. rtmr' = IF record.by = Nobody THEN "consumed" ELSE rtmr
            BY <2>2 DEF CrashInConsume
        <3>3. marker' = marker \/ marker'.by = c
            BY <2>2 DEF CrashInConsume, OnDisk, Consumed
        <3> QED
            BY <2>2, <2>f, <3>1, <3>2, <3>3
               DEF CrashInConsume, GuardInv, OneCustomerPerBoot, LeaseIsMeasured, UseIsReported
    <2>3. CASE Start
        <3>1. PICK r \in Loaded :
                /\ extended' = (rtmr = "consumed")
                /\ \/ Disagree(r) /\ StoreOrClose(ClosedRecord)
                   \/ /\ ~Disagree(r) /\ r.by # Nobody /\ ~r.released
                      /\ StoreOrClose([r EXCEPT !.released = TRUE])
                   \/ /\ ~Disagree(r) /\ (r.by = Nobody \/ r.released)
                      /\ record' = r /\ UNCHANGED marker
            BY <2>3, Zenon DEF Start, LoadGuard
        <3>2. r \in RecordType
            BY <1>t, Shapes DEF Loaded, RecordType, MarkerType
        <3>3. granted # {} => r.by \in granted \cup {Unknown, Nobody}
            BY <1>t DEF Loaded, GuardInv, FreshRecord, ClosedRecord, MarkerType
        <3>4. CASE Disagree(r)
            <4>1. record'.by = Unknown /\ (marker' = marker \/ marker'.by = Unknown)
                BY <3>1, <3>4, StoreEffect, Shapes DEF ClosedRecord
            <4> QED
                BY <1>n, <2>3, <3>1, <4>1, Zenon
                   DEF Start, GuardInv, OneCustomerPerBoot, LeaseIsMeasured, UseIsReported
        <3>5. CASE ~Disagree(r)
            <4>1. r.by # Nobody <=> rtmr = "consumed"
                BY <3>5 DEF Disagree
            <4>2. [r EXCEPT !.released = TRUE] \in RecordType
                BY <3>2, Zenon DEF RecordType
            <4>3. [r EXCEPT !.released = TRUE].by = r.by
                BY <3>2 DEF RecordType
            <4>4. /\ record'.by \in {r.by, Unknown}
                  /\ marker' = marker \/ marker'.by = r.by
                BY <3>1, <3>5, <4>2, <4>3, StoreEffect, Zenon
            <4>5. record'.by \in Callers => record'.released
                BY <1>n, <3>1, <3>2, <3>5, Zenon DEF StoreOrClose, RecordType
            <4> QED
                BY <1>n, <1>t, <2>3, <3>1, <3>3, <4>1, <4>4, <4>5, Zenon
                   DEF Start, GuardInv, OneCustomerPerBoot, LeaseIsMeasured, UseIsReported
        <3> QED
            BY <3>4, <3>5
    <2>4. CASE MarkerLost
        <3>1. marker'.by = Nobody
            BY <2>4, ZenonT(40) DEF MarkerLost, NoMarker
        <3> QED
            BY <2>4, <3>1 DEF MarkerLost, GuardInv, OneCustomerPerBoot, LeaseIsMeasured,
                              UseIsReported
    <2>5. CASE Relaunch
        BY <2>5, <2>f DEF Relaunch, GuardInv, OneCustomerPerBoot, LeaseIsMeasured, UseIsReported
    <2> QED
        BY <1>6, <2>1, <2>2, <2>3, <2>4, <2>5 DEF BootNext
<1>7. CASE UNCHANGED vars
    BY <1>7, <1>u DEF vars, boxVars
<1> QED
    BY <1>1, <1>2, <1>3, <1>4, <1>5, <1>6, <1>7 DEF Next

\* A container's owner held the lease when it was created, and granted only
\* grows until the VM, with every container, is gone.
LEMMA ContainersStep ==
  TypeOK /\ GuardInv /\ ContainersAreTheCustomers /\ [Next]_vars => ContainersAreTheCustomers'
<1> SUFFICES ASSUME TypeOK, GuardInv, ContainersAreTheCustomers, [Next]_vars
             PROVE  ContainersAreTheCustomers'
    OBVIOUS
<1> USE DEF ContainersAreTheCustomers, guardVars, tableVars, daemonVars
<1>t. /\ owner \in [Sandboxes -> Callers \cup {Nobody}]
      /\ running \subseteq Sandboxes /\ late \subseteq Sandboxes
    BY DEF TypeOK
<1>u. ASSUME running' \cup late' \subseteq running \cup late, owner' = owner,
             granted \subseteq granted'
      PROVE  ContainersAreTheCustomers'
    BY <1>u
<1>1. CASE LeaseNext
    BY <1>1, <1>u DEF LeaseNext, LeaseRunsOut, ExpireLocked, Release, Acquire,
                      AcquireUnrecorded, AcquireNotExtended
<1>2. CASE SandboxNext
    <2>1. ASSUME NEW s \in Sandboxes, NEW c \in Callers, CreateBegins(c, s)
          PROVE  ContainersAreTheCustomers'
        <3>1. c \in granted
            BY <2>1 DEF CreateBegins, Leased, GuardInv
        <3>2. owner'[s] = c /\ \A x \in Sandboxes \ {s} : owner'[x] = owner[x]
            BY <1>t, <2>1, ZenonT(40) DEF CreateBegins
        <3> QED
            BY <1>t, <2>1, <3>1, <3>2, ZenonT(40) DEF CreateBegins
    <2>2. ASSUME NEW s \in Sandboxes,
                 \/ DaemonStarts(s)
                 \/ DaemonDrops(s)
                 \/ CreateReturns(s)
                 \/ \E timedOut, removed \in BOOLEAN : CreateFails(s, timedOut, removed)
                 \/ GraceEnds(s)
                 \/ DeleteForgets(s)
          PROVE  ContainersAreTheCustomers'
        BY <1>u, <2>2 DEF DaemonStarts, DaemonDrops, CreateReturns, CreateFails, GraceEnds,
                          DeleteForgets, Remove
    <2>3. ASSUME NEW s \in Sandboxes, NEW removed \in BOOLEAN, Delete(s, removed)
          PROVE  ContainersAreTheCustomers'
        BY <1>u, <2>3 DEF Delete, DeleteRemoves, Remove
    <2> QED
        BY <1>2, <2>1, <2>2, <2>3, Zenon DEF SandboxNext
<1>3. CASE DrainNext
    <2>1. ASSUME NEW s \in Sandboxes, NEW removed \in BOOLEAN, DrainDeletes(s, removed)
          PROVE  ContainersAreTheCustomers'
        BY <1>u, <2>1 DEF DrainDeletes, DeleteRemoves, Remove
    <2>2. ASSUME DrainBegins \/ DrainLists \/ \E s \in Sandboxes : DrainDeleted(s)
          PROVE  ContainersAreTheCustomers'
        BY <1>u, <2>2, ZenonT(40) DEF DrainBegins, DrainLists, DrainDeleted
    <2> QED
        BY <1>3, <2>1, <2>2, Zenon DEF DrainNext
<1>4. CASE ReaperSweeps
    BY <1>4, <1>u DEF ReaperSweeps
<1>5. ASSUME NEW w \in Sweepers, SweepNext(w) PROVE ContainersAreTheCustomers'
    <2>1. ASSUME NEW s \in Sandboxes, NEW gone \in BOOLEAN, SweepOne(w, s, gone)
          PROVE  ContainersAreTheCustomers'
        BY <1>u, <2>1 DEF SweepOne, Remove
    <2>2. ASSUME SweepListed(w) \/ SweepKeeps(w) \/ SweepReturns(w)
          PROVE  ContainersAreTheCustomers'
        BY <1>u, <2>2, ZenonT(40) DEF SweepListed, SweepKeeps, SweepReturns
    <2> QED
        BY <1>5, <2>1, <2>2, Zenon DEF SweepNext
<1>6. CASE BootNext
    <2>1. CASE Relaunch
        BY <2>1 DEF Relaunch
    <2> QED
        BY <1>6, <1>u, <2>1, Zenon DEF BootNext, Crash, CrashInConsume, Start, MarkerLost
<1>7. CASE UNCHANGED vars
    BY <1>7, <1>u, ZenonT(40) DEF vars, boxVars
<1> QED
    BY <1>1, <1>2, <1>3, <1>4, <1>5, <1>6, <1>7 DEF Next

\* The steps of the daemon, of creates and of deletes leave every name in one
\* place, and a sweep removes only names that are not recorded.
LEMMA PlacesStep == TypeOK /\ TableInv /\ [Next]_vars => PlacesInv'
<1> SUFFICES ASSUME TypeOK, TableInv, [Next]_vars PROVE PlacesInv'
    OBVIOUS
<1> USE DEF guardVars, tableVars, daemonVars
<1>t. /\ table \subseteq Sandboxes /\ creating \subseteq Sandboxes
      /\ deletes \in [Sandboxes -> {"no", "tried", "removed"}]
    BY Zenon DEF TypeOK
<1>i. PlacesInv
    BY Zenon DEF TableInv
<1>u. ASSUME UNCHANGED <<table, deletes, creating, running, late>> PROVE PlacesInv'
    BY <1>u, <1>i, ZenonT(40) DEF PlacesInv, TrackedRuns
<1>d. ASSUME NEW s \in Sandboxes, NEW removed \in BOOLEAN, DeleteRemoves(s, removed)
      PROVE  PlacesInv'
    <2>1. /\ running \ {s} \subseteq running' /\ running' \subseteq running
          /\ removed => s \notin running'
        BY <1>d DEF DeleteRemoves, Remove
    <2>2. /\ s \in table /\ deletes'[s] = IF removed THEN "removed" ELSE "tried"
          /\ \A x \in Sandboxes \ {s} : deletes'[x] = deletes[x]
        BY <1>d, <1>t DEF DeleteRemoves
    <2>3. UNCHANGED <<table, creating, late>>
        BY <1>d, ZenonT(40) DEF DeleteRemoves
    <2>4. deletes'[s] # "no" /\ (deletes'[s] = "removed" => removed)
        BY <2>2
    <2> QED
        BY <1>i, <1>t, <2>1, <2>2, <2>3, <2>4 DEF PlacesInv, TrackedRuns
<1>1. CASE LeaseNext
    BY <1>1, <1>u, ZenonT(40) DEF LeaseNext, LeaseRunsOut, ExpireLocked, Release, Acquire,
                AcquireUnrecorded, AcquireNotExtended
<1>2. CASE SandboxNext
    <2>1. ASSUME NEW s \in Sandboxes, NEW c \in Callers, CreateBegins(c, s) PROVE PlacesInv'
        <3>1. s \notin table /\ s \notin running /\ late' = late \cup {s}
            BY <2>1 DEF CreateBegins, Used
        <3>2. creating' = {s} /\ UNCHANGED <<table, deletes, running>>
            BY <2>1, ZenonT(40) DEF CreateBegins
        <3> QED
            BY <1>i, <3>1, <3>2, ZenonT(40) DEF PlacesInv, TrackedRuns
    <2>2. ASSUME NEW s \in Sandboxes, DaemonStarts(s) \/ DaemonDrops(s) PROVE PlacesInv'
        <3>1. /\ s \in late /\ late' = late \ {s}
              /\ running' = running \/ running' = running \cup {s}
              /\ UNCHANGED <<table, deletes, creating>>
            BY <2>2 DEF DaemonStarts, DaemonDrops
        <3>2. s \notin table
            BY <1>i, <3>1 DEF PlacesInv
        <3>3. deletes[s] = "no"
            BY <1>i, <1>t, <3>2 DEF PlacesInv
        <3> QED
            BY <1>i, <3>1, <3>2, <3>3 DEF PlacesInv, TrackedRuns
    <2>3. ASSUME NEW s \in Sandboxes, CreateReturns(s) PROVE PlacesInv'
        <3>1. /\ s \in creating /\ s \in running
              /\ table' = table \cup {s} /\ creating' = creating \ {s}
              /\ UNCHANGED <<deletes, running, late>>
            BY <2>3 DEF CreateReturns
        <3> QED
            BY <1>i, <3>1 DEF PlacesInv, TrackedRuns
    <2>4. ASSUME NEW s \in Sandboxes, NEW timedOut \in BOOLEAN, NEW removed \in BOOLEAN,
                 CreateFails(s, timedOut, removed)
          PROVE  PlacesInv'
        <3>1. /\ running \ {s} \subseteq running' /\ running' \subseteq running
              /\ s \in creating /\ creating' = creating \ {s}
            BY <2>4 DEF CreateFails, Remove
        <3>2. UNCHANGED <<table, deletes, late>>
            BY <2>4, ZenonT(40) DEF CreateFails
        <3> QED
            BY <1>i, <3>1, <3>2 DEF PlacesInv, TrackedRuns
    <2>5. ASSUME NEW s \in Sandboxes, GraceEnds(s) PROVE PlacesInv'
        BY <2>5, <1>u, ZenonT(40) DEF GraceEnds
    <2>6. ASSUME NEW s \in Sandboxes, DeleteForgets(s) PROVE PlacesInv'
        <3>1. /\ deletes[s] = "removed" /\ deletes'[s] = "no"
              /\ \A x \in Sandboxes \ {s} : deletes'[x] = deletes[x]
              /\ table' = table \ {s} /\ UNCHANGED <<creating, running, late>>
            BY <2>6, <1>t DEF DeleteForgets
        <3> QED
            BY <1>i, <1>t, <3>1 DEF PlacesInv, TrackedRuns
    <2>7. ASSUME NEW s \in Sandboxes, NEW removed \in BOOLEAN, Delete(s, removed)
          PROVE  DeleteRemoves(s, removed)
        BY <2>7 DEF Delete
    <2> QED
        BY <1>2, <1>d, <2>1, <2>2, <2>3, <2>4, <2>5, <2>6, <2>7, Zenon DEF SandboxNext
<1>3. CASE DrainNext
    <2>1. ASSUME NEW s \in Sandboxes, NEW removed \in BOOLEAN, DrainDeletes(s, removed)
          PROVE  PlacesInv'
        BY <1>d, <2>1, Zenon DEF DrainDeletes
    <2>2. ASSUME DrainBegins \/ DrainLists \/ \E s \in Sandboxes : DrainDeleted(s)
          PROVE  PlacesInv'
        BY <1>u, <2>2, ZenonT(40) DEF DrainBegins, DrainLists, DrainDeleted
    <2> QED
        BY <1>3, <2>1, <2>2, Zenon DEF DrainNext
<1>4. CASE ReaperSweeps
    BY <1>4, <1>u, ZenonT(40) DEF ReaperSweeps
<1>5. ASSUME NEW w \in Sweepers, SweepNext(w) PROVE PlacesInv'
    <2>1. ASSUME NEW s \in Sandboxes, NEW gone \in BOOLEAN, SweepOne(w, s, gone)
          PROVE  PlacesInv'
        <3>1. s \notin table
            BY <2>1 DEF SweepOne, TableInv, Keep
        <3>2. running \ {s} \subseteq running' /\ running' \subseteq running
            BY <2>1 DEF SweepOne, Remove
        <3>3. UNCHANGED <<table, deletes, creating, late>>
            BY <2>1, ZenonT(40) DEF SweepOne
        <3> QED
            BY <1>i, <3>1, <3>2, <3>3 DEF PlacesInv, TrackedRuns
    <2>2. ASSUME SweepListed(w) \/ SweepKeeps(w) \/ SweepReturns(w) PROVE PlacesInv'
        BY <1>u, <2>2, ZenonT(40) DEF SweepListed, SweepKeeps, SweepReturns
    <2> QED
        BY <1>5, <2>1, <2>2, Zenon DEF SweepNext
<1>6. CASE BootNext
    <2>1. ASSUME Forget, UNCHANGED <<running, late>> \/ (running' = {} /\ late' = {})
          PROVE  PlacesInv'
        <3>1. table' = {} /\ creating' = {} /\ \A s \in Sandboxes : deletes'[s] = "no"
            BY <2>1, ZenonT(40) DEF Forget
        <3> QED
            BY <1>i, <2>1, <3>1 DEF PlacesInv, TrackedRuns
    <2>2. CASE Start \/ MarkerLost
        BY <2>2, <1>u, ZenonT(40) DEF Start, MarkerLost
    <2> QED
        BY <1>6, <2>1, <2>2, ZenonT(40) DEF BootNext, Crash, CrashInConsume, Relaunch
<1>7. CASE UNCHANGED vars
    BY <1>7, <1>u, ZenonT(40) DEF vars, boxVars
<1> QED
    BY <1>1, <1>2, <1>3, <1>4, <1>5, <1>6, <1>7, ZenonT(40) DEF Next

\* What a sweep is about to remove is not kept when its step ends.
SpareKept(r) == r.pc = "remove" => r.todo \cap Keep = {}

\* A sweep spares what is recorded or being created: it reads both after its
\* listing, and a new create takes a name no sweep has in hand.
LEMMA TableStep == TypeOK /\ TableInv /\ [Next]_vars => TableInv'
<1> SUFFICES ASSUME TypeOK, TableInv, [Next]_vars PROVE \A w \in Sweepers : SpareKept(sweep[w])'
    BY PlacesStep, ZenonT(40) DEF TableInv, SpareKept
<1> USE DEF guardVars, tableVars, daemonVars
<1>t. sweep \in [Sweepers -> SweepType] /\ table \subseteq Sandboxes /\ creating \subseteq Sandboxes
    BY Zenon DEF TypeOK
<1>i. \A w \in Sweepers : SpareKept(sweep[w])
    BY ZenonT(40) DEF TableInv, SpareKept
<1>s. "drain" \in Sweepers /\ "reaper" \in Sweepers
    BY DEF Sweepers
<1>u. ASSUME UNCHANGED sweep, Keep' \subseteq Keep PROVE \A w \in Sweepers : SpareKept(sweep[w])'
    BY <1>i, <1>u, ZenonT(40) DEF SpareKept
<1>c. ASSUME NEW w \in Sweepers, NEW new, SweepChange(w, new), UNCHANGED <<table, creating>>,
             SpareKept(new)
      PROVE  \A x \in Sweepers : SpareKept(sweep[x])'
    <2>1. \A x \in Sweepers : sweep'[x] = IF x = w THEN new ELSE sweep[x]
        BY <1>c, <1>t DEF SweepChange
    <2>2. Keep' = Keep
        BY <1>c, Zenon DEF Keep
    <2> QED
        BY <1>c, <1>i, <2>1, <2>2, ZenonT(40) DEF SpareKept
<1>e. SpareKept(IdleSweep)
    BY DEF SpareKept, IdleSweep
<1>1. LeaseNext => UNCHANGED <<sweep, table, creating>>
    BY ZenonT(40) DEF LeaseNext, LeaseRunsOut, ExpireLocked, Release, Acquire, AcquireUnrecorded,
                AcquireNotExtended
<1>2. ASSUME NEW s \in Sandboxes, NEW c \in Callers, CreateBegins(c, s)
      PROVE  \A w \in Sweepers : SpareKept(sweep[w])'
    <2>1. \A w \in Sweepers : s \notin sweep[w].todo
        BY <1>2 DEF CreateBegins, Used
    <2>2. UNCHANGED <<sweep, table>> /\ creating' = {s}
        BY <1>2, ZenonT(40) DEF CreateBegins
    <2>3. Keep' \subseteq Keep \cup {s}
        BY <2>2 DEF Keep
    <2> QED
        BY <1>i, <2>1, <2>2, <2>3, ZenonT(40) DEF SpareKept
<1>3. ASSUME NEW s \in Sandboxes,
             DaemonStarts(s) \/ DaemonDrops(s) \/ GraceEnds(s) \/ CreateReturns(s) \/ DeleteForgets(s)
      PROVE  UNCHANGED sweep /\ Keep' \subseteq Keep
    BY <1>3 DEF DaemonStarts, DaemonDrops, GraceEnds, CreateReturns, DeleteForgets, Keep
<1>4. ASSUME NEW s \in Sandboxes, NEW timedOut \in BOOLEAN, NEW removed \in BOOLEAN,
             CreateFails(s, timedOut, removed) \/ Delete(s, removed)
      PROVE  UNCHANGED sweep /\ Keep' \subseteq Keep
    <2>1. UNCHANGED <<sweep, table>> /\ creating' \subseteq creating
        BY <1>4 DEF CreateFails, Delete, DeleteRemoves
    <2> QED
        BY <2>1 DEF Keep
<1>5. ASSUME SandboxNext PROVE \A w \in Sweepers : SpareKept(sweep[w])'
    BY <1>2, <1>3, <1>4, <1>5, <1>u, Zenon DEF SandboxNext
<1>6. ASSUME DrainNext PROVE \A w \in Sweepers : SpareKept(sweep[w])'
    <2>1. CASE DrainBegins
        <3>1. SpareKept([IdleSweep EXCEPT !.pc = "delete", !.target = draining,
                                          !.todo = Owned(draining)])
            BY DEF IdleSweep, SpareKept
        <3> QED
            BY <1>c, <1>s, <2>1, <3>1, Zenon DEF DrainBegins
    <2>d. ASSUME NEW s \in Sandboxes PROVE SpareKept([sweep["drain"] EXCEPT !.todo = @ \ {s}])
        BY <1>i, <1>s, <1>t DEF SpareKept, SweepType
    <2>2. ASSUME NEW s \in Sandboxes, NEW removed \in BOOLEAN, DrainDeletes(s, removed)
          PROVE  \A w \in Sweepers : SpareKept(sweep[w])'
        <3>1. UNCHANGED <<table, creating>>
            BY <2>2, ZenonT(40) DEF DrainDeletes, DeleteRemoves
        <3>2. \/ UNCHANGED sweep
              \/ SweepChange("drain", [sweep["drain"] EXCEPT !.todo = @ \ {s}])
            BY <2>2, ZenonT(40) DEF DrainDeletes
        <3>3. Keep' = Keep
            BY <3>1, Zenon DEF Keep
        <3> QED
            BY <1>c, <1>s, <1>u, <2>d, <3>1, <3>2, <3>3, Zenon
    <2>3. ASSUME NEW s \in Sandboxes, DrainDeleted(s)
          PROVE  \A w \in Sweepers : SpareKept(sweep[w])'
        BY <1>c, <1>s, <2>3, <2>d, ZenonT(40) DEF DrainDeleted
    <2>4. CASE DrainLists
        <3>1. SpareKept([sweep["drain"] EXCEPT !.pc = "list"])
            BY <1>s, <1>t DEF SweepType, SpareKept
        <3> QED
            BY <1>c, <1>e, <1>s, <2>4, <3>1, Zenon DEF DrainLists, Settle
    <2> QED
        BY <1>6, <2>1, <2>2, <2>3, <2>4, Zenon DEF DrainNext
<1>7. ASSUME ReaperSweeps PROVE \A w \in Sweepers : SpareKept(sweep[w])'
    <2>1. SpareKept([IdleSweep EXCEPT !.pc = "list"])
        BY DEF IdleSweep, SpareKept
    <2> QED
        BY <1>7, <1>c, <1>s, <2>1, Zenon DEF ReaperSweeps
<1>8. ASSUME NEW w \in Sweepers, SweepNext(w) PROVE \A x \in Sweepers : SpareKept(sweep[x])'
    <2>t. sweep[w] \in SweepType
        BY <1>t
    <2>1. CASE SweepListed(w)
        <3>1. SpareKept([sweep[w] EXCEPT !.pc = "keep", !.listed = running])
            BY <2>t DEF SweepType, SpareKept
        <3> QED
            BY <1>c, <1>e, <2>1, <3>1, Zenon DEF SweepListed, SweepEnds, Settle
    <2>2. CASE SweepKeeps(w)
        <3> DEFINE new == [sweep[w] EXCEPT !.pc = "remove",
                             !.todo = (sweep[w].listed \cup Pending) \ Keep,
                             !.waiting = {s \in Sandboxes : pending[s] = "grace"}]
        <3>1. new.todo = (sweep[w].listed \cup Pending) \ Keep
            BY <2>t DEF SweepType
        <3> HIDE DEF new
        <3>2. SpareKept(new)
            BY <3>1 DEF SpareKept
        <3> QED
            BY <1>c, <2>2, <3>2, Zenon DEF SweepKeeps, new
    <2>3. ASSUME NEW s \in Sandboxes, NEW gone \in BOOLEAN, SweepOne(w, s, gone)
          PROVE  \A x \in Sweepers : SpareKept(sweep[x])'
        <3>1. PICK done \in BOOLEAN :
                SweepChange(w, [sweep[w] EXCEPT !.todo = @ \ {s}, !.left = @ \/ ~done])
            BY <2>3, Zenon DEF SweepOne
        <3>2. SpareKept([sweep[w] EXCEPT !.todo = @ \ {s}, !.left = @ \/ ~done])
            BY <1>i, <2>t DEF SweepType, SpareKept
        <3>3. UNCHANGED <<table, creating>>
            BY <2>3, ZenonT(40) DEF SweepOne
        <3> QED
            BY <1>c, <3>1, <3>2, <3>3, ZenonT(40)
    <2>4. CASE SweepReturns(w)
        BY <1>c, <1>e, <2>4, ZenonT(40) DEF SweepReturns, SweepEnds, Settle
    <2> QED
        BY <1>8, <2>1, <2>2, <2>3, <2>4, ZenonT(40) DEF SweepNext
<1>9. ASSUME BootNext PROVE \A w \in Sweepers : SpareKept(sweep[w])'
    <2>1. ASSUME Forget PROVE \A w \in Sweepers : SpareKept(sweep[w])'
        <3>1. \A w \in Sweepers : sweep'[w].pc = "idle"
            BY <2>1 DEF Forget, IdleSweep
        <3> QED
            BY <3>1, ZenonT(40) DEF SpareKept
    <2>2. Start \/ MarkerLost => UNCHANGED <<sweep, table, creating>>
        BY ZenonT(40) DEF Start, MarkerLost
    <2>3. UNCHANGED <<sweep, table, creating>> => \A w \in Sweepers : SpareKept(sweep[w])'
        BY <1>u, ZenonT(40) DEF Keep
    <2> QED
        BY <1>9, <2>1, <2>2, <2>3, ZenonT(40) DEF BootNext, Crash, CrashInConsume, Relaunch
<1>10. LeaseNext \/ UNCHANGED vars => UNCHANGED sweep /\ Keep' \subseteq Keep
    BY <1>1, ZenonT(40) DEF vars, boxVars, Keep
<1> QED
    BY <1>5, <1>6, <1>7, <1>8, <1>9, <1>10, <1>u, ZenonT(40) DEF Next

-----------------------------------------------------------------------------
(* The theorems.                                                           *)

\* The strengthened invariant holds in every reachable state.
LEMMA IInvAlways == Spec => []IInv
<1>1. Init => IInv
    BY InitIInv
<1>2. IInv /\ [Next]_vars => IInv'
    BY TypeStep, GuardStep, ContainersStep, TableStep DEF IInv
<1> QED
    BY <1>1, <1>2, PTL DEF Spec

\* The lease, boot guard, sandbox table and daemon never leave their types.
THEOREM TypeCorrect == Spec => []TypeOK
<1>1. IInv => TypeOK
    BY DEF IInv
<1> QED
    BY <1>1, IInvAlways, PTL

\* However leases, releases, failed writes, crashes and restarts interleave,
\* the boot guard lets at most one caller hold the lease between two launches.
THEOREM OneCustomer == Spec => []OneCustomerPerBoot
<1>1. IInv => OneCustomerPerBoot
    BY DEF IInv, GuardInv
<1> QED
    BY <1>1, IInvAlways, PTL

\* RTMR3 is extended before a lease is granted and nothing in a boot undoes it.
THEOREM GrantsAreMeasured == Spec => []LeaseIsMeasured
<1>1. IInv => LeaseIsMeasured
    BY DEF IInv, GuardInv
<1> QED
    BY <1>1, IInvAlways, PTL

\* A worker that is up, restarted or not, reports a boot that was leased as
\* used: by its customer or by the unknown one of a closed record.
THEOREM BootUseReported == Spec => []UseIsReported
<1>1. IInv => UseIsReported
    BY DEF IInv, GuardInv
<1> QED
    BY <1>1, IInvAlways, PTL

\* Every container on the box, started or still with the daemon, was created
\* for a customer that held this boot's lease.
THEOREM ContainersHaveCustomers == Spec => []ContainersAreTheCustomers
<1>1. IInv => ContainersAreTheCustomers
    BY DEF IInv
<1> QED
    BY <1>1, IInvAlways, PTL

\* No sweep removes the container of a sandbox in the table, at whatever point of
\* a create or delete it runs: one without its container has a delete in hand, or
\* one that reported a failure.
THEOREM TableRuns == Spec => []TrackedRuns
<1>1. IInv => TrackedRuns
    BY DEF IInv, TableInv, PlacesInv
<1> QED
    BY <1>1, IInvAlways, PTL

-----------------------------------------------------------------------------

\* The containers a worker knows of.
Known == Keep \cup Pending

\* What the daemon may still start is known to a worker that is up, and no sweep
\* counts it as gone: a name is looked up for good only after its grace window.
LateInv ==
  /\ up => late \subseteq Known
  /\ \A s \in Sandboxes : pending[s] = "due" => s \notin late
  /\ \A w \in Sweepers :
       /\ sweep[w].listed \cap late = {}
       /\ sweep[w].pc = "remove" => (sweep[w].todo \ sweep[w].waiting) \cap late = {}

\* How far the drain of the box start has come, and that no lease precedes it.
DrainInv ==
  /\ ~up => draining = BoxStart /\ sweep["drain"].pc = "idle"
  /\ lease.holder # Nobody => up /\ draining # BoxStart
  /\ up /\ draining # BoxStart => running \subseteq Known
  /\ sweep["drain"].pc = "keep" => running \subseteq sweep["drain"].listed \cup Known
  /\ sweep["drain"].pc = "remove" /\ ~sweep["drain"].left =>
       running \subseteq sweep["drain"].todo \cup Known

-----------------------------------------------------------------------------

\* What each step of a running worker does to the containers and to what the
\* worker knows: none that runs or may start is forgotten, and only a create
\* asks the daemon for another one.
LEMMA KnownKept ==
  ASSUME TypeOK, TableInv, LateInv, Next, UNCHANGED up, ~Relaunch
  PROVE  /\ (running' \cup late') \cap Known \subseteq Known'
         /\ running' \subseteq running \cup late
         /\ late' \subseteq late \/ \E s \in Sandboxes \ Used : late' = late \cup {s} /\ s \in Known'
         /\ running' \cap late' = {}
         /\ \A s \in Sandboxes : pending'[s] = "due" => pending[s] = "due" \/ s \notin late'
<1> DEFINE Goal == /\ (running' \cup late') \cap Known \subseteq Known'
                   /\ running' \subseteq running \cup late
                   /\ \/ late' \subseteq late
                      \/ \E s \in Sandboxes \ Used : late' = late \cup {s} /\ s \in Known'
                   /\ running' \cap late' = {}
                   /\ \A s \in Sandboxes : pending'[s] = "due" => pending[s] = "due" \/ s \notin late'
<1> USE DEF guardVars, tableVars, daemonVars
<1>t. /\ sweep \in [Sweepers -> SweepType] /\ pending \in [Sandboxes -> {"no", "grace", "due"}]
      /\ table \subseteq Sandboxes /\ creating \subseteq Sandboxes
      /\ running \subseteq Sandboxes /\ late \subseteq Sandboxes
    BY DEF TypeOK
<1>i. running \cap late = {} /\ table \cap late = {}
    BY DEF TableInv, PlacesInv
<1>u. ASSUME UNCHANGED <<table, creating, pending, running, late>> PROVE Goal
    BY <1>u, <1>i DEF Known, Keep, Pending
<1>1. ASSUME LeaseNext PROVE Goal
    BY <1>1, <1>u, Zenon DEF LeaseNext, LeaseRunsOut, ExpireLocked, Release, Acquire,
                      AcquireUnrecorded, AcquireNotExtended
<1>2. ASSUME NEW s \in Sandboxes, NEW c \in Callers, CreateBegins(c, s) PROVE Goal
    <2>1. s \notin Used /\ s \notin running
        BY <1>2 DEF CreateBegins, Used
    <2>2. creating = {} /\ creating' = {s} /\ late' = late \cup {s}
        BY <1>2 DEF CreateBegins, Unlocked
    <2>3. UNCHANGED <<table, pending, running>>
        BY <1>2 DEF CreateBegins
    <2>4. Known' = Known \cup {s}
        BY <2>2, <2>3 DEF Known, Keep, Pending
    <2> QED
        BY <1>i, <2>1, <2>2, <2>3, <2>4, ZenonT(40)
<1>3. ASSUME NEW s \in Sandboxes, DaemonStarts(s) \/ DaemonDrops(s) PROVE Goal
    <2>1. Known' = Known /\ pending' = pending
        BY <1>3 DEF DaemonStarts, DaemonDrops, Known, Keep, Pending
    <2>2. /\ s \in late /\ late' = late \ {s}
          /\ running' = running \/ running' = running \cup {s}
        BY <1>3 DEF DaemonStarts, DaemonDrops
    <2> QED
        BY <1>i, <2>1, <2>2
<1>4. ASSUME NEW s \in Sandboxes, CreateReturns(s) PROVE Goal
    <2>1. Known' = Known
        BY <1>4 DEF CreateReturns, Known, Keep, Pending
    <2>2. UNCHANGED <<running, late, pending>>
        BY <1>4 DEF CreateReturns
    <2> QED
        BY <1>i, <2>1, <2>2
<1>5. ASSUME NEW s \in Sandboxes, NEW timedOut \in BOOLEAN, NEW removed \in BOOLEAN,
             CreateFails(s, timedOut, removed)
      PROVE  Goal
    <2>1. /\ creating' = creating \ {s} /\ table' = table /\ late' = late
          /\ running \ {s} \subseteq running' /\ running' \subseteq running
        BY <1>5 DEF CreateFails, Remove
    <2>2. \A x \in Sandboxes \ {s} : pending'[x] = pending[x]
        BY <1>5, <1>t, ZenonT(40) DEF CreateFails
    <2>3. CASE timedOut
        <3>1. pending'[s] = "grace"
            BY <1>5, <1>t, <2>3, ZenonT(40) DEF CreateFails
        <3>2. Known \subseteq Known'
            BY <2>1, <2>2, <3>1, ZenonT(40) DEF Known, Keep, Pending
        <3> QED
            BY <1>i, <2>1, <2>2, <3>1, <3>2
    <2>4. CASE ~timedOut
        <3>1. s \notin late
            BY <1>5, <2>4 DEF CreateFails
        <3>2. CASE removed
            <4>1. pending' = pending /\ s \notin running'
                BY <1>5, <1>t, <2>4, <3>2 DEF CreateFails, Remove
            <4>2. Known \ {s} \subseteq Known'
                BY <2>1, <4>1 DEF Known, Keep, Pending
            <4> QED
                BY <1>i, <2>1, <3>1, <4>1, <4>2, ZenonT(40)
        <3>3. CASE ~removed
            <4>1. pending'[s] = "due"
                BY <1>5, <1>t, <2>4, <3>3, ZenonT(40) DEF CreateFails
            <4>2. Known \subseteq Known'
                BY <2>1, <2>2, <4>1 DEF Known, Keep, Pending
            <4> QED
                BY <1>i, <2>1, <2>2, <3>1, <4>2
        <3> QED
            BY <3>2, <3>3
    <2> QED
        BY <2>3, <2>4
<1>6. ASSUME NEW s \in Sandboxes, GraceEnds(s) PROVE Goal
    <2>1. /\ pending[s] = "grace" /\ s \notin late /\ pending'[s] = "due"
          /\ \A x \in Sandboxes \ {s} : pending'[x] = pending[x]
        BY <1>6, <1>t DEF GraceEnds
    <2>2. UNCHANGED <<table, creating, running, late>>
        BY <1>6 DEF GraceEnds
    <2>3. Known' = Known
        BY <2>1, <2>2 DEF Known, Keep, Pending
    <2> QED
        BY <1>i, <2>1, <2>2, <2>3
<1>7. ASSUME NEW s \in Sandboxes, NEW removed \in BOOLEAN, DeleteRemoves(s, removed) PROVE Goal
    <2>1. running' \subseteq running
        BY <1>7 DEF DeleteRemoves, Remove
    <2>2. UNCHANGED <<table, creating, pending, late>>
        BY <1>7, ZenonT(40) DEF DeleteRemoves
    <2>3. Known' = Known
        BY <2>2, Zenon DEF Known, Keep, Pending
    <2> QED
        BY <1>i, <2>1, <2>2, <2>3
<1>8. ASSUME NEW s \in Sandboxes, DeleteForgets(s) PROVE Goal
    <2>1. deletes[s] = "removed" /\ table' = table \ {s}
        BY <1>8, ZenonT(40) DEF DeleteForgets
    <2>2. UNCHANGED <<creating, pending, running, late>>
        BY <1>8, ZenonT(40) DEF DeleteForgets
    <2>3. s \notin running /\ s \notin late
        BY <1>i, <2>1 DEF TableInv, PlacesInv
    <2>4. Known \ {s} \subseteq Known'
        BY <2>1, <2>2 DEF Known, Keep, Pending
    <2> QED
        BY <1>i, <2>2, <2>3, <2>4
<1>9. ASSUME DrainBegins \/ DrainLists \/ ReaperSweeps \/ \E s \in Sandboxes : DrainDeleted(s)
      PROVE  Goal
    BY <1>9, <1>u, ZenonT(40) DEF DrainBegins, DrainLists, DrainDeleted, ReaperSweeps
<1>10. ASSUME NEW w \in Sweepers, SweepListed(w) \/ SweepKeeps(w) \/ SweepReturns(w) PROVE Goal
    BY <1>10, <1>u, Zenon DEF SweepListed, SweepKeeps, SweepReturns
<1>11. ASSUME NEW w \in Sweepers, NEW s \in Sandboxes, NEW gone \in BOOLEAN, SweepOne(w, s, gone)
       PROVE  Goal
    <2>1. /\ running \ {s} \subseteq running' /\ running' \subseteq running
          /\ UNCHANGED <<table, creating, late>>
        BY <1>11 DEF SweepOne, Remove
    <2>2. CASE pending' = pending
        BY <1>i, <2>1, <2>2 DEF Known, Keep, Pending
    <2>3. CASE pending' # pending
        <3>1. gone /\ s \notin sweep[w].waiting /\ pending' = [pending EXCEPT ![s] = "no"]
            BY <1>11, <2>3 DEF SweepOne
        <3>2. s \notin running'
            BY <1>11, <3>1 DEF SweepOne, Remove
        <3>3. s \notin late
            BY <1>11, <3>1 DEF SweepOne, LateInv
        <3>4. pending'[s] = "no" /\ \A x \in Sandboxes \ {s} : pending'[x] = pending[x]
            BY <1>t, <3>1
        <3>5. Known \ {s} \subseteq Known'
            BY <2>1, <3>4, ZenonT(40) DEF Known, Keep, Pending
        <3> QED
            BY <1>i, <2>1, <3>2, <3>3, <3>4, <3>5
    <2> QED
        BY <2>2, <2>3
<1>12. ASSUME BootNext PROVE Goal
    <2>1. MarkerLost
        BY <1>12 DEF BootNext, Crash, CrashInConsume, CanCrash, Forget, Start
    <2> QED
        BY <2>1, <1>u, ZenonT(40) DEF MarkerLost
<1> HIDE DEF Goal
<1>13. SandboxNext => Goal
    BY <1>2, <1>3, <1>4, <1>5, <1>6, <1>7, <1>8, Zenon DEF SandboxNext, Delete
<1>14. DrainNext => Goal
    BY <1>7, <1>9, Zenon DEF DrainNext, DrainDeletes
<1>15. ASSUME NEW w \in Sweepers, SweepNext(w) PROVE Goal
    BY <1>10, <1>11, <1>15, Zenon DEF SweepNext
<1>16. Goal
    BY <1>1, <1>9, <1>12, <1>13, <1>14, <1>15, Zenon DEF Next
<1> QED
    BY <1>16 DEF Goal

\* A worker starts or ends only in these steps.
LEMMA UpKept ==
  ASSUME Next
  PROVE  \/ UNCHANGED up
         \/ Crash \/ (\E c \in Callers, written \in BOOLEAN : CrashInConsume(c, written))
         \/ Start \/ Relaunch
<1>1. LeaseNext => UNCHANGED up
    BY Zenon DEF LeaseNext, LeaseRunsOut, ExpireLocked, Release, Acquire, AcquireUnrecorded,
                 AcquireNotExtended
<1>2. SandboxNext => UNCHANGED up
    BY Zenon DEF SandboxNext, CreateBegins, DaemonStarts, DaemonDrops, CreateReturns, CreateFails,
                 GraceEnds, Delete, DeleteRemoves, DeleteForgets
<1>3. DrainNext \/ ReaperSweeps => UNCHANGED up
    BY Zenon DEF DrainNext, DrainBegins, DrainDeletes, DeleteRemoves, DrainDeleted, DrainLists,
                 ReaperSweeps
<1>4. ASSUME NEW w \in Sweepers, SweepNext(w) PROVE UNCHANGED up
    BY <1>4, Zenon DEF SweepNext, SweepListed, SweepKeeps, SweepOne, SweepReturns
<1> QED
    BY <1>1, <1>2, <1>3, <1>4, Zenon DEF Next, BootNext, MarkerLost

\* What a sweep has listed or is about to look up for good is not late.
SweptNotLate(r) ==
  /\ r.listed \cap late = {}
  /\ r.pc = "remove" => (r.todo \ r.waiting) \cap late = {}

\* No step of a worker makes a name late that a sweep has in hand.
LEMMA SweptStep ==
  ASSUME TypeOK, TableInv, LateInv, Next, UNCHANGED up, ~Relaunch
  PROVE  \A w \in Sweepers : SweptNotLate(sweep[w])'
<1> USE DEF guardVars, tableVars, daemonVars
<1>t. sweep \in [Sweepers -> SweepType] /\ pending \in [Sandboxes -> {"no", "grace", "due"}]
    BY ZenonT(40) DEF TypeOK
<1>i. /\ \A w \in Sweepers : SweptNotLate(sweep[w])
      /\ running \cap late = {} /\ \A s \in Sandboxes : pending[s] = "due" => s \notin late
    BY ZenonT(40) DEF LateInv, SweptNotLate, TableInv, PlacesInv
<1>s. "drain" \in Sweepers /\ "reaper" \in Sweepers
    BY DEF Sweepers
<1>u. ASSUME UNCHANGED sweep, late' \subseteq late PROVE \A w \in Sweepers : SweptNotLate(sweep[w])'
    BY <1>u, <1>i, ZenonT(40) DEF SweptNotLate
<1>c. ASSUME NEW w \in Sweepers, NEW new, SweepChange(w, new), UNCHANGED late, SweptNotLate(new)
      PROVE  \A x \in Sweepers : SweptNotLate(sweep[x])'
    <2>1. \A x \in Sweepers : sweep'[x] = IF x = w THEN new ELSE sweep[x]
        BY <1>c, <1>t DEF SweepChange
    <2> QED
        BY <1>c, <1>i, <2>1, Zenon DEF SweptNotLate
<1>e. SweptNotLate(IdleSweep)
    BY DEF SweptNotLate, IdleSweep
<1>1. LeaseNext => UNCHANGED <<sweep, late>>
    BY ZenonT(40) DEF LeaseNext, LeaseRunsOut, ExpireLocked, Release, Acquire, AcquireUnrecorded,
                 AcquireNotExtended
<1>2. ASSUME NEW s \in Sandboxes, NEW c \in Callers, CreateBegins(c, s)
      PROVE  \A w \in Sweepers : SweptNotLate(sweep[w])'
    <2>1. \A w \in Sweepers : s \notin sweep[w].listed \cup sweep[w].todo
        BY <1>2 DEF CreateBegins, Used
    <2>2. UNCHANGED sweep /\ late' = late \cup {s}
        BY <1>2, ZenonT(40) DEF CreateBegins
    <2> QED
        BY <1>i, <2>1, <2>2, ZenonT(40) DEF SweptNotLate
<1>3. ASSUME NEW s \in Sandboxes,
             \/ DaemonStarts(s)
             \/ DaemonDrops(s)
             \/ CreateReturns(s)
             \/ \E timedOut, removed \in BOOLEAN : CreateFails(s, timedOut, removed)
             \/ GraceEnds(s)
             \/ \E removed \in BOOLEAN : Delete(s, removed)
             \/ DeleteForgets(s)
      PROVE  UNCHANGED sweep /\ late' \subseteq late
    BY <1>3 DEF DaemonStarts, DaemonDrops, CreateReturns, CreateFails, GraceEnds, Delete,
                DeleteRemoves, DeleteForgets
<1>4. ASSUME DrainNext PROVE \A w \in Sweepers : SweptNotLate(sweep[w])'
    <2>1. CASE DrainBegins
        <3>1. SweptNotLate([IdleSweep EXCEPT !.pc = "delete", !.target = draining,
                                             !.todo = Owned(draining)])
            BY DEF SweptNotLate, IdleSweep
        <3> QED
            BY <1>c, <1>s, <2>1, <3>1 DEF DrainBegins
    <2>2. ASSUME NEW s \in Sandboxes, NEW removed \in BOOLEAN, DrainDeletes(s, removed)
          PROVE  \A w \in Sweepers : SweptNotLate(sweep[w])'
        <3>1. SweptNotLate([sweep["drain"] EXCEPT !.todo = @ \ {s}])
            BY <1>i, <1>s, <1>t DEF SweptNotLate, SweepType
        <3> QED
            BY <1>c, <1>s, <1>u, <2>2, <3>1, ZenonT(40) DEF DrainDeletes, DeleteRemoves
    <2>4. ASSUME NEW s \in Sandboxes, DrainDeleted(s)
          PROVE  \A w \in Sweepers : SweptNotLate(sweep[w])'
        <3>1. SweptNotLate([sweep["drain"] EXCEPT !.todo = @ \ {s}])
            BY <1>i, <1>s, <1>t DEF SweptNotLate, SweepType
        <3> QED
            BY <1>c, <1>s, <2>4, <3>1, ZenonT(40) DEF DrainDeleted
    <2>3. CASE DrainLists
        <3>1. SweptNotLate([sweep["drain"] EXCEPT !.pc = "list"])
            BY <1>i, <1>s, <1>t DEF SweptNotLate, SweepType
        <3> QED
            BY <1>c, <1>e, <1>s, <2>3, <3>1 DEF DrainLists, Settle
    <2> QED
        BY <1>4, <2>1, <2>2, <2>3, <2>4, Zenon DEF DrainNext
<1>5. ASSUME ReaperSweeps PROVE \A w \in Sweepers : SweptNotLate(sweep[w])'
    <2>1. SweptNotLate([IdleSweep EXCEPT !.pc = "list"])
        BY DEF SweptNotLate, IdleSweep
    <2> QED
        BY <1>5, <1>c, <1>s, <2>1 DEF ReaperSweeps
<1>6. ASSUME NEW w \in Sweepers, SweepNext(w) PROVE \A x \in Sweepers : SweptNotLate(sweep[x])'
    <2>t. sweep[w] \in SweepType /\ SweptNotLate(sweep[w])
        BY <1>t, <1>i
    <2>1. CASE SweepListed(w)
        <3>1. SweptNotLate([sweep[w] EXCEPT !.pc = "keep", !.listed = running])
            BY <2>t, <1>i DEF SweptNotLate, SweepType
        <3> QED
            BY <1>c, <1>e, <2>1, <3>1 DEF SweepListed, SweepEnds, Settle
    <2>2. CASE SweepKeeps(w)
        <3> DEFINE new == [sweep[w] EXCEPT !.pc = "remove",
                             !.todo = (sweep[w].listed \cup Pending) \ Keep,
                             !.waiting = {s \in Sandboxes : pending[s] = "grace"}]
        <3>1. /\ new.todo = (sweep[w].listed \cup Pending) \ Keep
              /\ new.waiting = {s \in Sandboxes : pending[s] = "grace"}
              /\ new.listed = sweep[w].listed
            BY <2>t DEF SweepType
        <3>2. SweepChange(w, new) /\ UNCHANGED late
            BY <2>2, ZenonT(40) DEF SweepKeeps
        <3> HIDE DEF new
        <3>3. \A s \in Pending : s \notin new.waiting => pending[s] = "due"
            BY <1>t, <3>1, ZenonT(40) DEF Pending
        <3>4. SweptNotLate(new)
            BY <1>i, <2>t, <3>1, <3>3 DEF SweptNotLate, Pending
        <3> QED
            BY <1>c, <3>2, <3>4
    <2>3. ASSUME NEW s \in Sandboxes, NEW gone \in BOOLEAN, SweepOne(w, s, gone)
          PROVE  \A x \in Sweepers : SweptNotLate(sweep[x])'
        <3>1. PICK done \in BOOLEAN :
                SweepChange(w, [sweep[w] EXCEPT !.todo = @ \ {s}, !.left = @ \/ ~done])
            BY <2>3, Zenon DEF SweepOne
        <3>2. SweptNotLate([sweep[w] EXCEPT !.todo = @ \ {s}, !.left = @ \/ ~done])
            BY <2>t DEF SweptNotLate, SweepType
        <3>3. UNCHANGED late
            BY <2>3, ZenonT(40) DEF SweepOne
        <3> QED
            BY <1>c, <3>1, <3>2, <3>3, ZenonT(40)
    <2>4. CASE SweepReturns(w)
        BY <1>c, <1>e, <2>4, ZenonT(40) DEF SweepReturns, SweepEnds, Settle
    <2> QED
        BY <1>6, <2>1, <2>2, <2>3, <2>4, Zenon DEF SweepNext
<1>7. BootNext => UNCHANGED <<sweep, late>>
    BY DEF BootNext, Crash, CrashInConsume, CanCrash, Forget, Start, MarkerLost
<1>8. SandboxNext => \A w \in Sweepers : SweptNotLate(sweep[w])'
    BY <1>2, <1>3, <1>u, Zenon DEF SandboxNext
<1>9. LeaseNext \/ BootNext => \A w \in Sweepers : SweptNotLate(sweep[w])'
    BY <1>1, <1>7, <1>u
<1> QED
    BY <1>4, <1>5, <1>6, <1>8, <1>9, Zenon DEF Next

\* Without a worker that starts early, nothing is late that the worker does not
\* know of, and no sweep finds a name gone that may still be started.
LEMMA LateStep ==
  ASSUME "early" \notin Faults, TypeOK, TableInv, LateInv, [Next]_vars
  PROVE  LateInv'
<1> USE DEF guardVars, tableVars, daemonVars
<1>1. CASE UNCHANGED vars
    BY <1>1, ZenonT(40) DEF LateInv, Known, Keep, Pending, vars, boxVars
<1>f. ASSUME Forget, UNCHANGED <<running, late>> \/ late' = {} PROVE LateInv'
    <2>1. ~up' /\ \A s \in Sandboxes : pending'[s] = "no"
        BY <1>f, ZenonT(40) DEF Forget
    <2>2. \A w \in Sweepers : sweep'[w].listed = {} /\ sweep'[w].pc = "idle"
        BY <1>f DEF Forget, IdleSweep
    <2> QED
        BY <2>1, <2>2, ZenonT(40) DEF LateInv
<1>2. CASE Crash \/ (\E c \in Callers, written \in BOOLEAN : CrashInConsume(c, written)) \/ Relaunch
    BY <1>f, <1>2, ZenonT(40) DEF Crash, CrashInConsume, Relaunch
<1>3. CASE Start
    <2>1. late = {} /\ UNCHANGED <<running, late, pending, sweep>>
        BY <1>3, ZenonT(40) DEF Start, Fault
    <2> QED
        BY <2>1, ZenonT(40) DEF LateInv
<1>4. CASE Next /\ UNCHANGED up /\ ~Relaunch
    <2>1. \A s \in Sandboxes : pending'[s] = "due" => s \notin late'
        <3>1. /\ late' \subseteq late \/ \E s \in Sandboxes \ Used : late' = late \cup {s}
              /\ \A s \in Sandboxes : pending'[s] = "due" => pending[s] = "due" \/ s \notin late'
            BY <1>4, KnownKept
        <3>2. \A s \in Sandboxes \ Used : pending[s] # "due"
            BY DEF Used
        <3> QED
            BY <3>1, <3>2 DEF LateInv
    <2>2. ASSUME up' PROVE late' \subseteq Known'
        <3>1. late \subseteq Known
            BY <1>4, <2>2 DEF LateInv
        <3>2. /\ late' \cap Known \subseteq Known'
              /\ late' \subseteq late \/ \E s \in Sandboxes : late' = late \cup {s} /\ s \in Known'
            BY <1>4, KnownKept
        <3> QED
            BY <3>1, <3>2
    <2>3. \A w \in Sweepers : SweptNotLate(sweep[w])'
        BY <1>4, SweptStep
    <2> QED
        BY <2>1, <2>2, <2>3, ZenonT(40) DEF LateInv, SweptNotLate
<1> QED
    BY <1>1, <1>2, <1>3, <1>4, UpKept, ZenonT(40)

\* DrainInv about given values: the drain's progress r, draining and the lease.
DrainSound(r, d, holder) ==
  /\ ~up => d = BoxStart /\ r.pc = "idle"
  /\ holder # Nobody => up /\ d # BoxStart
  /\ up /\ d # BoxStart => running \subseteq Known
  /\ r.pc = "keep" => running \subseteq r.listed \cup Known
  /\ r.pc = "remove" /\ ~r.left => running \subseteq r.todo \cup Known

\* The drain of the box start goes from a listing to a clean sweep without losing
\* a container, and only then does the box lease.
LEMMA DrainStep ==
  ASSUME TypeOK, TableInv, LateInv, DrainInv, [Next]_vars
  PROVE  DrainInv'
<1> USE DEF guardVars, tableVars, daemonVars
<1>t. /\ sweep \in [Sweepers -> SweepType] /\ lease \in LeaseType /\ up \in BOOLEAN
      /\ "drain" \in Sweepers /\ sweep["drain"] \in SweepType
    BY ZenonT(40) DEF TypeOK, Sweepers
<1>i. /\ DrainSound(sweep["drain"], draining, lease.holder)
      /\ DrainInv' = DrainSound(sweep["drain"], draining, lease.holder)'
    BY DEF DrainInv, DrainSound
<1>n. BoxStart # Nobody /\ Nobody \notin Callers /\ BoxStart \notin Callers
    BY ZenonT(40) DEF BoxStart, Nobody
<1>1. CASE UNCHANGED vars
    BY <1>1, ZenonT(40) DEF DrainInv, Known, Keep, Pending, vars, boxVars
<1>f. ASSUME Forget PROVE DrainInv'
    <2>1. ~up' /\ draining' = BoxStart /\ sweep'["drain"].pc = "idle" /\ lease'.holder = Nobody
        BY <1>f DEF Forget, IdleSweep, NoLease, Sweepers
    <2> QED
        BY <2>1, Zenon DEF DrainInv
<1>2. CASE Crash \/ (\E c \in Callers, written \in BOOLEAN : CrashInConsume(c, written)) \/ Relaunch
    BY <1>f, <1>2, ZenonT(40) DEF Crash, CrashInConsume, Relaunch
<1>3. CASE Start
    <2>1. ~up /\ UNCHANGED <<draining, sweep, lease>>
        BY <1>3 DEF Start
    <2> QED
        BY <2>1 DEF DrainInv
<1>4. CASE Next /\ UNCHANGED up /\ ~Relaunch
    <2>k. ASSUME NEW X, up, running \subseteq X \cup Known PROVE running' \subseteq X \cup Known'
        <3>1. running' \cap Known \subseteq Known' /\ running' \subseteq running \cup late
            BY <1>4, KnownKept
        <3>2. late \subseteq Known
            BY <2>k DEF LateInv
        <3> QED
            BY <2>k, <3>1, <3>2
    <2>s. ASSUME sweep'["drain"] = sweep["drain"], draining' = draining,
                 lease'.holder = lease.holder
          PROVE  DrainInv'
        <3>1. CASE ~up
            BY <1>4, <1>i, <2>s, <3>1, ZenonT(40) DEF DrainSound
        <3>2. CASE up
            <4>1. draining' # BoxStart => running' \subseteq Known'
                <5>1. draining # BoxStart => running \subseteq {} \cup Known
                    BY <1>i, <3>2, ZenonT(40) DEF DrainSound
                <5> QED
                    BY <2>k, <2>s, <3>2, <5>1, ZenonT(40)
            <4>2. sweep'["drain"].pc = "keep" => running' \subseteq sweep'["drain"].listed \cup Known'
                BY <1>i, <2>k, <2>s, <3>2, ZenonT(40) DEF DrainSound
            <4>3. sweep'["drain"].pc = "remove" /\ ~sweep'["drain"].left =>
                    running' \subseteq sweep'["drain"].todo \cup Known'
                BY <1>i, <2>k, <2>s, <3>2, ZenonT(40) DEF DrainSound
            <4> QED
                BY <1>4, <1>i, <2>s, <3>2, <4>1, <4>2, <4>3 DEF DrainSound
        <3> QED
            BY <3>1, <3>2, ZenonT(40)
    <2>1. ASSUME ExpireLocked \/ \E c \in Callers : Release(c) PROVE DrainInv'
        <3>1. /\ up /\ lease.holder # Nobody /\ draining' # BoxStart /\ lease'.holder = Nobody
              /\ UNCHANGED <<sweep, table, creating, pending, running>>
            BY ONLY <1>n, <1>t, <2>1 DEF ExpireLocked, Release, Unlocked, LeaseEnded, Leased, NoLease,
                                    LeaseType
        <3>2. running' = running /\ Known' = Known
            BY <3>1, ZenonT(40) DEF Known, Keep, Pending
        <3> QED
            BY <1>4, <1>i, <3>1, <3>2, ZenonT(40) DEF DrainSound
    <2>2. ASSUME NEW c \in Callers, Acquire(c) PROVE DrainInv'
        <3>1. /\ up /\ draining = Nobody /\ UNCHANGED draining
              /\ UNCHANGED <<sweep, table, creating, pending, running>>
            BY <2>2 DEF Acquire, MayAcquire, Unlocked
        <3>2. running' = running /\ Known' = Known
            BY <3>1 DEF Known, Keep, Pending
        <3> QED
            BY <1>4, <1>i, <1>n, <3>1, <3>2, ZenonT(40) DEF DrainSound
    <2>3. ASSUME LeaseNext PROVE DrainInv'
        <3>1. LeaseRunsOut => /\ sweep'["drain"] = sweep["drain"] /\ draining' = draining
                              /\ lease'.holder = lease.holder
            BY <1>t, ZenonT(40) DEF LeaseRunsOut, LeaseType
        <3>2. ASSUME NEW c \in Callers, NEW landed, NEW seen,
                     AcquireUnrecorded(c) \/ AcquireNotExtended(c, landed, seen)
              PROVE  DrainInv'
            BY <2>s, <3>2, ZenonT(40) DEF AcquireUnrecorded, AcquireNotExtended
        <3>3. ASSUME NEW c \in Callers, AcquireUnrecorded(c) PROVE DrainInv'
            BY <2>s, <3>3 DEF AcquireUnrecorded
        <3> QED
            BY <2>1, <2>2, <2>3, <2>s, <3>1, <3>2, <3>3, Zenon DEF LeaseNext
    <2>4. ASSUME SandboxNext PROVE DrainInv'
        <3>1. UNCHANGED <<sweep, draining, lease>>
            BY <2>4, ZenonT(40) DEF SandboxNext, CreateBegins, DaemonStarts, DaemonDrops, CreateReturns,
                               CreateFails, GraceEnds, Delete, DeleteRemoves, DeleteForgets
        <3> QED
            BY <2>s, <3>1
    <2>c. ASSUME NEW new, SweepChange("drain", new) PROVE sweep'["drain"] = new
        BY <1>t, <2>c DEF SweepChange
    <2>d. ASSUME NEW new, SweepChange("drain", new), up, UNCHANGED lease,
                 draining' # BoxStart => running \subseteq Known,
                 lease.holder # Nobody => draining' # BoxStart,
                 new.pc = "keep" => running' \subseteq new.listed \cup Known',
                 new.pc = "remove" /\ ~new.left => running' \subseteq new.todo \cup Known'
          PROVE  DrainInv'
        <3>1. sweep'["drain"] = new
            BY <2>c, <2>d, ZenonT(40)
        <3>2. draining' # BoxStart => running' \subseteq Known'
            <4>1. draining' # BoxStart => running \subseteq {} \cup Known
                BY <2>d, ZenonT(40)
            <4> QED
                BY <2>k, <2>d, <4>1, ZenonT(40)
        <3> QED
            BY <1>4, <2>d, <3>1, <3>2, ZenonT(40) DEF DrainInv
    <2>h. up => /\ draining # BoxStart => running \subseteq Known
                /\ lease.holder # Nobody => draining # BoxStart
        BY <1>i, ZenonT(40) DEF DrainSound
    <2>e. IdleSweep.pc = "idle"
        BY DEF IdleSweep
    <2>5. ASSUME DrainNext PROVE DrainInv'
        <3>1. CASE DrainBegins
            <4>1. [IdleSweep EXCEPT !.pc = "delete", !.target = draining,
                                    !.todo = Owned(draining)].pc = "delete"
                BY DEF IdleSweep
            <4>2. up /\ UNCHANGED <<lease, draining>>
                BY <3>1 DEF DrainBegins, Unlocked
            <4> QED
                BY <2>d, <2>h, <3>1, <4>1, <4>2, Zenon DEF DrainBegins
        <3>2. ASSUME NEW s \in Sandboxes, NEW removed \in BOOLEAN, DrainDeletes(s, removed)
              PROVE  DrainInv'
            <4>1. [sweep["drain"] EXCEPT !.todo = @ \ {s}].pc = "delete"
                BY <1>t, <3>2 DEF DrainDeletes, SweepType
            <4>2. up /\ UNCHANGED <<lease, draining>>
                BY <3>2, ZenonT(40) DEF DrainDeletes, DeleteRemoves
            <4>3. CASE UNCHANGED sweep
                BY <2>s, <4>2, <4>3, ZenonT(40)
            <4>4. CASE SweepChange("drain", [sweep["drain"] EXCEPT !.todo = @ \ {s}])
                BY <2>d, <2>h, <4>1, <4>2, <4>4, Zenon
            <4> QED
                BY <3>2, <4>3, <4>4, Zenon DEF DrainDeletes
        <3>4. ASSUME NEW s \in Sandboxes, DrainDeleted(s) PROVE DrainInv'
            <4>1. [sweep["drain"] EXCEPT !.todo = @ \ {s}].pc = "delete"
                BY <1>t, <3>4 DEF DrainDeleted, SweepType
            <4>2. up /\ UNCHANGED <<lease, draining>>
                BY <3>4, ZenonT(40) DEF DrainDeleted
            <4> QED
                BY <2>d, <2>h, <3>4, <4>1, <4>2, Zenon DEF DrainDeleted
        <3>3. CASE DrainLists
            <4>1. [sweep["drain"] EXCEPT !.pc = "list"].pc = "list"
                BY <1>t DEF SweepType
            <4>2. up /\ UNCHANGED <<lease, draining>>
                BY <3>3 DEF DrainLists, Settle
            <4>3. \/ SweepChange("drain", IdleSweep)
                  \/ SweepChange("drain", [sweep["drain"] EXCEPT !.pc = "list"])
                BY <3>3 DEF DrainLists, Settle
            <4> QED
                BY <2>d, <2>e, <2>h, <4>1, <4>2, <4>3, Zenon
        <3> QED
            BY <2>5, <3>1, <3>2, <3>3, <3>4, Zenon DEF DrainNext
    <2>r. ASSUME NEW new, SweepChange("reaper", new) PROVE sweep'["drain"] = sweep["drain"]
        BY <1>t, <2>r DEF SweepChange
    <2>6. ASSUME ReaperSweeps \/ SweepNext("reaper") PROVE DrainInv'
        <3>1. UNCHANGED <<draining, lease>>
            BY <2>6, Zenon DEF ReaperSweeps, SweepNext, SweepListed, SweepKeeps, SweepOne,
                               SweepReturns, SweepEnds
        <3>2. \E new : SweepChange("reaper", new)
            BY <2>6, ZenonT(40) DEF ReaperSweeps, SweepNext, SweepListed, SweepKeeps, SweepOne,
                        SweepReturns, SweepEnds
        <3> QED
            BY <2>r, <2>s, <3>1, <3>2
    <2>7. CASE SweepListed("drain")
        <3>0. up /\ UNCHANGED <<lease, running>> /\ draining' = draining
            BY <2>7 DEF SweepListed, SweepEnds, Settle
        <3> DEFINE new == [sweep["drain"] EXCEPT !.pc = "keep", !.listed = running]
        <3>1. new.pc = "keep" /\ new.listed = running
            BY <1>t DEF SweepType
        <3>2. SweepChange("drain", new) \/ SweepChange("drain", IdleSweep)
            BY <2>7, ZenonT(40) DEF SweepListed, SweepEnds, Settle
        <3> HIDE DEF new
        <3> QED
            BY <2>d, <2>e, <2>h, <3>0, <3>1, <3>2
    <2>8. CASE SweepKeeps("drain")
        <3> DEFINE new == [sweep["drain"] EXCEPT !.pc = "remove",
                             !.todo = (sweep["drain"].listed \cup Pending) \ Keep,
                             !.waiting = {s \in Sandboxes : pending[s] = "grace"}]
        <3>1. new.pc = "remove" /\ new.todo = (sweep["drain"].listed \cup Pending) \ Keep
            BY <1>t DEF SweepType
        <3>2. /\ up /\ SweepChange("drain", new) /\ UNCHANGED <<lease, draining>>
              /\ sweep["drain"].pc = "keep" /\ UNCHANGED <<running, table, creating, pending>>
            BY <2>8 DEF SweepKeeps
        <3> HIDE DEF new
        <3>3. Known' = Known /\ running' = running
            BY <3>2, ZenonT(40) DEF Known, Keep, Pending
        <3>4. running \subseteq sweep["drain"].listed \cup Known
            BY <1>i, <3>2 DEF DrainSound
        <3>5. running' \subseteq new.todo \cup Known'
            BY <3>1, <3>3, <3>4, ZenonT(40) DEF Known
        <3> QED
            BY <2>d, <2>h, <3>1, <3>2, <3>5
    <2>9. ASSUME NEW s \in Sandboxes, NEW gone \in BOOLEAN, SweepOne("drain", s, gone)
          PROVE  DrainInv'
        <3> DEFINE done == gone /\ s \notin sweep["drain"].waiting
                   new == [sweep["drain"] EXCEPT !.todo = @ \ {s}, !.left = @ \/ ~done]
        <3>1. /\ new.pc = "remove" /\ new.todo = sweep["drain"].todo \ {s}
              /\ ~new.left => gone /\ ~sweep["drain"].left
            BY <1>t, <2>9, Zenon DEF SweepType, SweepOne
        <3>2. up /\ SweepChange("drain", new) /\ UNCHANGED <<lease, draining>>
            BY <2>9 DEF SweepOne
        <3>3. gone => s \notin running'
            BY <2>9 DEF SweepOne, Remove
        <3>p. sweep["drain"].pc = "remove"
            BY <2>9 DEF SweepOne
        <3> HIDE DEF new, done
        <3>4. ~new.left => running' \subseteq new.todo \cup Known'
            <4>1. ~new.left => running \subseteq sweep["drain"].todo \cup Known
                BY <1>i, <3>1, <3>p, ZenonT(40) DEF DrainSound
            <4>2. ~new.left => running' \subseteq sweep["drain"].todo \cup Known'
                BY <2>k, <3>2, <4>1, ZenonT(40)
            <4> QED
                BY <3>1, <3>3, <4>2, ZenonT(40)
        <3> QED
            BY <2>d, <2>h, <3>1, <3>2, <3>4
    <2>10. CASE SweepReturns("drain")
        <3>1. /\ up /\ SweepChange("drain", IdleSweep) /\ UNCHANGED lease
              /\ sweep["drain"].pc = "remove" /\ sweep["drain"].todo = {}
            BY <2>10 DEF SweepReturns, SweepEnds, Settle
        <3>2. draining' = draining \/ (draining' = Nobody /\ ~sweep["drain"].left)
            BY <2>10, ZenonT(40) DEF SweepReturns, SweepEnds, Settle
        <3>3. ~sweep["drain"].left => running \subseteq Known
            BY <1>i, <3>1, ZenonT(40) DEF DrainSound
        <3> QED
            BY <1>n, <2>d, <2>e, <2>h, <3>1, <3>2, <3>3, ZenonT(40)
    <2>11. ASSUME BootNext PROVE DrainInv'
        <3>1. UNCHANGED <<sweep, draining, lease>>
            BY <1>4, <1>t, <2>11 DEF BootNext, Crash, CrashInConsume, CanCrash, Forget, Start,
                                     MarkerLost
        <3> QED
            BY <2>s, <3>1
    <2>12. SweepNext("drain") => DrainInv'
        BY <2>7, <2>8, <2>9, <2>10, Zenon DEF SweepNext
    <2> QED
        BY <1>4, <2>3, <2>4, <2>5, <2>6, <2>11, <2>12, Zenon DEF Next, Sweepers
<1> QED
    BY <1>1, <1>2, <1>3, <1>4, UpKept, Zenon

-----------------------------------------------------------------------------
(* The theorem.                                                            *)

\* Without a worker that starts before the daemon is done with its predecessor's
\* requests: while a customer holds the lease, every container that runs or may
\* still start is in the table, being created or pending cleanup, because the
\* drain of the box start swept the box clean after the last worker ended.
THEOREM HandOverLeavesNothing ==
  ASSUME "early" \notin Faults
  PROVE  Spec => []NothingOutlivesHandOver
<1> DEFINE HInv == IInv /\ LateInv /\ DrainInv
<1>1. Init => HInv
    <2> SUFFICES ASSUME Init PROVE HInv
        BY ZenonT(40)
    <2>1. LateInv
        BY ZenonT(40) DEF Init, LateInv, IdleSweep
    <2>2. DrainInv
        BY DEF Init, DrainInv, IdleSweep, NoLease, Sweepers
    <2> QED
        BY <2>1, <2>2, InitIInv
<1>2. HInv /\ [Next]_vars => HInv'
    BY TypeStep, GuardStep, ContainersStep, TableStep, LateStep, DrainStep, ZenonT(40) DEF IInv
<1>3. HInv => NothingOutlivesHandOver
    BY DEF LateInv, DrainInv, Known, NothingOutlivesHandOver
<1> QED
    BY <1>1, <1>2, <1>3, PTL DEF Spec
=============================================================================

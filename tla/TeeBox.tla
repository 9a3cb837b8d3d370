------------------------------- MODULE TeeBox -------------------------------
(***************************************************************************)
(* One TEE box: a confidential VM that runs sandboxes for one customer at  *)
(* a time.  The module covers the customer lease                           *)
(* (cathedral/tee_box/lease.py), the boot guard (boot.py), the parts of    *)
(* the service that create, delete and drain sandboxes (service.py) and    *)
(* the container table with its sweep (executor.py).                       *)
(*                                                                         *)
(* The lease lock is held for the whole of a create, so "creating" not     *)
(* empty means that the lock is taken.  A drain runs without the lock, one *)
(* docker call at a time, and so does the reaper's sweep.  An expired      *)
(* lease is ended by the first call that takes the lock (_expire_locked);  *)
(* that part of the call is the action ExpireLocked and every other action *)
(* under the lock waits for it.                                            *)
(***************************************************************************)
EXTENDS Naturals, FiniteSets

CONSTANTS Callers,      \* central caller keys: the customers
          Sandboxes,    \* sandbox ids (also the container names)
          Faults,       \* which of FaultKinds can happen
          MaxSandboxes, \* MAX_SANDBOXES
          MaxRestarts,  \* bound: worker crashes per behaviour
          MaxBoots      \* bound: VM launches per behaviour

Nobody == "nobody"
Unknown == "(unknown)"     \* UNKNOWN_CONSUMER
BoxStart == "(box start)"  \* BOX_START

\* store: a marker write fails.  extend: an RTMR3 extend fails.  marker: the
\* marker file is lost or cannot be read.  bootid: the boot id cannot be
\* read.  docker: a docker command fails.  slow: the daemon may start a
\* container after docker run timed out.  early: a worker may start before the
\* daemon is done with what its crashed predecessor asked for.
FaultKinds == {"store", "extend", "marker", "bootid", "docker", "slow", "early"}

Sweepers == {"drain", "reaper"}

ASSUME CallersAssumption == {Nobody, Unknown, BoxStart} \cap Callers = {}
ASSUME BoundsAssumption == /\ Faults \subseteq FaultKinds
                           /\ MaxSandboxes \in Nat
                           /\ MaxRestarts \in Nat
                           /\ MaxBoots \in Nat \ {0}

VARIABLES
  up,        \* the worker process runs
  boot,      \* the boot id, counted
  rtmr,      \* RTMR3: "fresh", "consumed" or "other"
  marker,    \* the boot record on tmpfs, or boot 0 when there is no file
  record,    \* BootGuard._record
  extended,  \* BootGuard._rtmr_extended
  lease,     \* CustomerLease._lease; "live" until its expiry passes
  draining,  \* CustomerLease._draining
  table,     \* _Table._sandboxes
  deletes,   \* its deletes: "tried" when one failed, "removed" when the container
             \* is confirmed gone and the table still lists the sandbox
  creating,  \* RunscExecutor._creating
  pending,   \* RunscExecutor._pending_cleanup: in its grace window or due
  owner,     \* SandboxSpec.owner, also on the container
  running,   \* containers the daemon runs
  late,      \* containers the daemon was asked for and may still start
  sweep,     \* the drain's and the reaper's progress
  granted,   \* history: the callers leased the box in this boot
  closed,    \* history: a worker of this boot refused every caller
  restarts   \* worker crashes so far

guardVars == <<boot, rtmr, marker, record, extended, granted>>
tableVars == <<table, deletes, creating, pending, owner>>
daemonVars == <<running, late>>
boxVars == <<up, guardVars, lease, draining, tableVars, daemonVars, sweep, restarts>>
vars == <<boxVars, closed>>

NoLease == [holder |-> Nobody, live |-> FALSE]
NoMarker == [boot |-> 0, by |-> Nobody, released |-> FALSE]
FreshRecord == [by |-> Nobody, released |-> FALSE]
ClosedRecord == [by |-> Unknown, released |-> TRUE]
IdleSweep == [pc |-> "idle", target |-> Nobody, listed |-> {}, todo |-> {},
              waiting |-> {}, left |-> FALSE]

Fault(kind) == kind \in Faults

RecordType == [by : Callers \cup {Nobody, Unknown}, released : BOOLEAN]
MarkerType == [boot : 0..MaxBoots, by : Callers \cup {Nobody, Unknown}, released : BOOLEAN]
LeaseType == [holder : Callers \cup {Nobody}, live : BOOLEAN]
SweepType == [pc : {"idle", "delete", "list", "keep", "remove"},
              target : Callers \cup {Nobody, BoxStart},
              listed : SUBSET Sandboxes, todo : SUBSET Sandboxes,
              waiting : SUBSET Sandboxes, left : BOOLEAN]

\* The types of the lease's, the boot guard's and the executor's fields.
TypeOK ==
  /\ up \in BOOLEAN
  /\ boot \in 1..MaxBoots
  /\ rtmr \in {"fresh", "consumed", "other"}
  /\ marker \in MarkerType
  /\ record \in RecordType
  /\ extended \in BOOLEAN
  /\ lease \in LeaseType
  /\ draining \in Callers \cup {Nobody, BoxStart}
  /\ table \subseteq Sandboxes
  /\ deletes \in [Sandboxes -> {"no", "tried", "removed"}]
  /\ creating \subseteq Sandboxes
  /\ pending \in [Sandboxes -> {"no", "grace", "due"}]
  /\ owner \in [Sandboxes -> Callers \cup {Nobody}]
  /\ running \subseteq Sandboxes
  /\ late \subseteq Sandboxes
  /\ sweep \in [Sweepers -> SweepType]
  /\ granted \subseteq Callers
  /\ closed \in BOOLEAN
  /\ restarts \in 0..MaxRestarts

-----------------------------------------------------------------------------
(* The boot guard.                                                         *)

OnDisk(r) == [boot |-> boot, by |-> r.by, released |-> r.released]

\* _store_or_close: a record that cannot be written refuses every caller.
StoreOrClose(r) ==
  \/ /\ record' = r
     /\ marker' = OnDisk(r)
  \/ /\ Fault("store")
     /\ record' = [r EXCEPT !.by = Unknown]
     /\ UNCHANGED marker

\* _close: the store is best effort.
Close ==
  LET r == [record EXCEPT !.by = Unknown]
  IN /\ record' = r
     /\ \/ marker' = OnDisk(r)
        \/ Fault("store") /\ UNCHANGED marker

\* check
MayLease(c) == record.by \in {Nobody, c}

\* Mutant: the end of the lease frees the boot for the next customer.
Released_FreesBoot ==
  /\ record' = FreshRecord
  /\ marker' = OnDisk(FreshRecord)

\* released: nothing is recorded when the boot id cannot be read.
Released ==
  \/ /\ record.by # Nobody
     /\ StoreOrClose([record EXCEPT !.released = TRUE])
  \/ /\ record.by = Nobody \/ Fault("bootid")
     /\ UNCHANGED <<record, marker>>

\* _load: a marker of another boot is ignored; one that cannot be read
\* stands for a customer nobody can name.
Loaded ==
  {IF marker.boot = boot THEN [by |-> marker.by, released |-> marker.released]
                         ELSE FreshRecord}
  \cup (IF Fault("marker") THEN {ClosedRecord} ELSE {})

\* Mutant: a consumed RTMR3 without a record is not noticed.
Disagree_OtherOnly(r) == rtmr = "other"

\* __init__: RTMR3 and the record must agree.
Disagree(r) == \/ rtmr = "other"
               \/ (rtmr = "consumed") # (r.by # Nobody)

LoadGuard ==
  \E r \in Loaded :
    /\ extended' = (rtmr = "consumed")
    /\ \/ /\ Disagree(r)
          /\ StoreOrClose(ClosedRecord)
       \/ /\ ~Disagree(r)
          /\ r.by # Nobody /\ ~r.released
          /\ StoreOrClose([r EXCEPT !.released = TRUE])
       \/ /\ ~Disagree(r)
          /\ r.by = Nobody \/ r.released
          /\ record' = r
          /\ UNCHANGED marker

\* What consume writes for caller c.
Consumed(c) == [by |-> c, released |-> FALSE]

\* consume writes nothing for a customer whose lease never ended.
Recorded(c) == record.by = c /\ ~record.released

-----------------------------------------------------------------------------
(* The lease.  Each action below is one section under the lease lock.      *)

Unlocked == up /\ creating = {}
LeaseEnded == lease.holder # Nobody /\ ~lease.live
Leased(c) == lease.holder = c /\ lease.live

\* The lease's expiry passes.
LeaseRunsOut ==
  /\ lease.live
  /\ lease' = [lease EXCEPT !.live = FALSE]
  /\ UNCHANGED <<up, guardVars, draining, tableVars, daemonVars, sweep, restarts>>

\* _expire_locked
ExpireLocked ==
  /\ Unlocked
  /\ LeaseEnded
  /\ lease' = NoLease
  /\ draining' = lease.holder
  /\ Released
  /\ UNCHANGED <<up, boot, rtmr, extended, granted, tableVars, daemonVars, sweep, restarts>>

\* release
Release(c) ==
  /\ Unlocked
  /\ Leased(c)
  /\ lease' = NoLease
  /\ draining' = c
  /\ Released
  /\ UNCHANGED <<up, boot, rtmr, extended, granted, tableVars, daemonVars, sweep, restarts>>

\* acquire up to consume, for a caller without a live lease.
MayAcquire(c) ==
  /\ Unlocked
  /\ lease.holder = Nobody
  /\ MayLease(c)
  /\ draining = Nobody

\* Mutant: the extend is noted but never made.
ExtendOnce_FlagOnly ==
  /\ extended' = TRUE
  /\ UNCHANGED rtmr

\* _extend_once when it succeeds.
ExtendOnce ==
  IF record.by = Nobody /\ ~extended
    THEN /\ rtmr = "fresh"
         /\ rtmr' = "consumed"
         /\ extended' = TRUE
    ELSE UNCHANGED <<rtmr, extended>>

\* acquire: the boot is consumed, then the lease is granted.
Acquire(c) ==
  /\ MayAcquire(c)
  /\ ExtendOnce
  /\ IF Recorded(c)
       THEN UNCHANGED <<record, marker>>
       ELSE /\ record' = Consumed(c)
            /\ marker' = OnDisk(Consumed(c))
  /\ lease' = [holder |-> c, live |-> TRUE]
  /\ granted' = granted \cup {c}
  /\ UNCHANGED <<up, boot, draining, tableVars, daemonVars, sweep, restarts>>

\* acquire refused: the customer could not be recorded.  RTMR3 stays extended.
AcquireUnrecorded(c) ==
  /\ Fault("store")
  /\ MayAcquire(c)
  /\ ~Recorded(c)
  /\ ExtendOnce
  /\ UNCHANGED <<up, boot, marker, record, granted, lease, draining, tableVars, daemonVars,
                 sweep, restarts>>

\* acquire refused: the extend failed, or RTMR3 does not read back as
\* consumed.  landed is what RTMR3 now holds, seen what the guard reads.
AcquireNotExtended(c, landed, seen) ==
  /\ Fault("extend")
  /\ MayAcquire(c)
  /\ record.by = Nobody /\ ~extended
  /\ rtmr' = landed
  /\ \/ /\ seen = "consumed"
        /\ extended' = TRUE
        /\ UNCHANGED <<record, marker>>
     \/ /\ seen = "fresh"
        /\ UNCHANGED <<extended, record, marker>>
     \/ /\ seen # "consumed"  \* "fresh" too, when the extend reported success
        /\ Close
        /\ UNCHANGED extended
  /\ UNCHANGED <<up, boot, granted, lease, draining, tableVars, daemonVars, sweep, restarts>>

-----------------------------------------------------------------------------
(* Sandboxes and the daemon that runs their containers.                    *)

Used == table \cup creating \cup late \cup running
          \cup {s \in Sandboxes : pending[s] # "no"}
          \cup UNION {sweep[w].listed \cup sweep[w].todo : w \in Sweepers}

\* Mutant: the lease is not checked again under the lock.
CreateBegins_NoLease(c, s) ==
  /\ Unlocked
  /\ Cardinality(table) < MaxSandboxes
  /\ s \notin Used
  /\ owner' = [owner EXCEPT ![s] = c]
  /\ creating' = {s}
  /\ late' = late \cup {s}
  /\ UNCHANGED <<up, guardVars, lease, draining, table, deletes, pending, running, sweep, restarts>>

\* _create up to docker run: the lease lock is taken and stays taken.
CreateBegins(c, s) ==
  /\ Unlocked
  /\ Leased(c)
  /\ draining = Nobody
  /\ Cardinality(table) < MaxSandboxes
  /\ s \notin Used
  /\ owner' = [owner EXCEPT ![s] = c]
  /\ creating' = {s}
  /\ late' = late \cup {s}
  /\ UNCHANGED <<up, guardVars, lease, draining, table, deletes, pending, running, sweep, restarts>>

DaemonStarts(s) ==
  /\ s \in late
  /\ late' = late \ {s}
  /\ running' = running \cup {s}
  /\ UNCHANGED <<up, guardVars, lease, draining, tableVars, sweep, restarts>>

DaemonDrops(s) ==
  /\ s \in late
  /\ late' = late \ {s}
  /\ UNCHANGED <<up, guardVars, lease, draining, tableVars, running, sweep, restarts>>

\* docker run succeeded: the sandbox is recorded, then no longer creating.
CreateReturns(s) ==
  /\ up
  /\ s \in creating \cap running
  /\ table' = table \cup {s}
  /\ creating' = creating \ {s}
  /\ UNCHANGED <<up, guardVars, lease, draining, deletes, pending, owner, daemonVars, sweep, restarts>>

\* _remove: true once the container is confirmed gone; a false answer leaves open
\* whether one of its docker calls ended the container.
Remove(s, removed) ==
  \/ /\ removed
     /\ running' = running \ {s}
  \/ /\ ~removed
     /\ Fault("docker")
     /\ running' \in {running, running \ {s}}

\* Mutant: a create that timed out and whose container is not there is done.
CreateFails_NoGrace(s, timedOut, removed) ==
  /\ up
  /\ s \in creating
  /\ IF timedOut THEN Fault("slow") ELSE s \notin late
  /\ Remove(s, removed)
  /\ creating' = creating \ {s}
  /\ pending' = [pending EXCEPT ![s] = IF removed THEN @ ELSE "due"]
  /\ UNCHANGED <<up, guardVars, lease, draining, table, deletes, owner, late, sweep, restarts>>

\* Mutant: a removed name is marked, not forgotten.
CreateFails_Marked(s, timedOut, removed) ==
  /\ up
  /\ s \in creating
  /\ Remove(s, removed)
  /\ creating' = creating \ {s}
  /\ pending' = [pending EXCEPT ![s] = IF removed THEN "removed" ELSE "due"]
  /\ UNCHANGED <<up, guardVars, lease, draining, table, deletes, owner, late, sweep, restarts>>

\* docker run failed or timed out: _abandon, and the create fails.
CreateFails(s, timedOut, removed) ==
  /\ up
  /\ s \in creating
  /\ IF timedOut THEN Fault("slow") ELSE s \notin late
  /\ Remove(s, removed)
  /\ creating' = creating \ {s}
  /\ pending' = [pending EXCEPT ![s] = IF timedOut THEN "grace"
                                       ELSE IF removed THEN @ ELSE "due"]
  /\ UNCHANGED <<up, guardVars, lease, draining, table, deletes, owner, late, sweep, restarts>>

\* PENDING_CLEANUP_GRACE_SECONDS pass; the daemon is taken to have started
\* or dropped the container by then.
GraceEnds(s) ==
  /\ pending[s] = "grace"
  /\ s \notin late
  /\ pending' = [pending EXCEPT ![s] = "due"]
  /\ UNCHANGED <<up, guardVars, lease, draining, table, deletes, creating, owner, daemonVars,
                 sweep, restarts>>

\* delete, by its customer, by reap once its lifetime is over or by a drain, up
\* to the answer of _remove ...
DeleteRemoves(s, removed) ==
  /\ up
  /\ s \in table /\ deletes[s] # "removed"
  /\ Remove(s, removed)
  /\ deletes' = [deletes EXCEPT ![s] = IF removed THEN "removed" ELSE "tried"]
  /\ UNCHANGED <<up, guardVars, lease, draining, table, creating, pending, owner, late, restarts>>

Delete(s, removed) == DeleteRemoves(s, removed) /\ UNCHANGED sweep

\* ... and its end, the table entry.
DeleteForgets(s) ==
  /\ up
  /\ deletes[s] = "removed"
  /\ table' = table \ {s}
  /\ deletes' = [deletes EXCEPT ![s] = "no"]
  /\ UNCHANGED <<up, guardVars, lease, draining, creating, pending, owner, daemonVars, sweep,
                 restarts>>

-----------------------------------------------------------------------------
(* Drains and sweeps.  A drain deletes its target's sandboxes, lists the   *)
(* table again and sweeps; the reaper also sweeps on its own.              *)

SweepChange(w, new) == sweep' = [sweep EXCEPT ![w] = new]

Owned(c) == {s \in table : owner[s] = c}

\* _settle up to the drain, and _drain_owner's first list.
DrainBegins ==
  /\ Unlocked
  /\ ~LeaseEnded
  /\ draining # Nobody
  /\ sweep["drain"].pc = "idle"
  /\ SweepChange("drain", [IdleSweep EXCEPT !.pc = "delete", !.target = draining,
                                            !.todo = Owned(draining)])
  /\ UNCHANGED <<up, guardVars, lease, draining, tableVars, daemonVars, restarts>>

\* One delete of _drain_owner; a failed one leaves the sandbox in the table.
DrainDeletes(s, removed) ==
  /\ sweep["drain"].pc = "delete"
  /\ s \in sweep["drain"].todo
  /\ DeleteRemoves(s, removed)
  /\ IF removed THEN UNCHANGED sweep
                ELSE SweepChange("drain", [sweep["drain"] EXCEPT !.todo = @ \ {s}])

\* It returns: the sandbox is forgotten, by this delete or another.
DrainDeleted(s) ==
  /\ up
  /\ sweep["drain"].pc = "delete"
  /\ s \in sweep["drain"].todo \ table
  /\ SweepChange("drain", [sweep["drain"] EXCEPT !.todo = @ \ {s}])
  /\ UNCHANGED <<up, guardVars, lease, draining, tableVars, daemonVars, restarts>>

\* The end of _settle: the box is no longer draining once it is drained.
Settle(drained) ==
  /\ creating = {}
  /\ draining' = IF drained /\ draining = sweep["drain"].target THEN Nobody ELSE draining
  /\ SweepChange("drain", IdleSweep)

\* The second list of _drain_owner.
DrainLists ==
  /\ up
  /\ sweep["drain"].pc = "delete"
  /\ sweep["drain"].todo = {}
  /\ IF Owned(sweep["drain"].target) # {}
       THEN Settle(FALSE)
       ELSE /\ SweepChange("drain", [sweep["drain"] EXCEPT !.pc = "list"])
            /\ UNCHANGED draining
  /\ UNCHANGED <<up, guardVars, lease, tableVars, daemonVars, restarts>>

ReaperSweeps ==
  /\ up
  /\ sweep["reaper"].pc = "idle"
  /\ SweepChange("reaper", [IdleSweep EXCEPT !.pc = "list"])
  /\ UNCHANGED <<up, guardVars, lease, draining, tableVars, daemonVars, restarts>>

\* sweep ends; the drain takes what it returned, the reaper ignores it.
SweepEnds(w, clean) ==
  \/ /\ w = "drain"
     /\ Settle(clean)
  \/ /\ w = "reaper"
     /\ SweepChange(w, IdleSweep)
     /\ UNCHANGED draining

\* sweep: the daemon lists the box's containers.
SweepListed(w) ==
  /\ up
  /\ sweep[w].pc = "list"
  /\ \/ /\ SweepChange(w, [sweep[w] EXCEPT !.pc = "keep", !.listed = running])
        /\ UNCHANGED draining
     \/ /\ Fault("docker")
        /\ SweepEnds(w, FALSE)
  /\ UNCHANGED <<up, guardVars, lease, tableVars, daemonVars, restarts>>

\* Mutant: creates in flight are not kept.
Keep_TableOnly == table

Keep == table \cup creating
Pending == {s \in Sandboxes : pending[s] # "no"}

\* sweep: what to keep and what is pending, read after the listing.
SweepKeeps(w) ==
  /\ up
  /\ sweep[w].pc = "keep"
  /\ SweepChange(w, [sweep[w] EXCEPT !.pc = "remove",
                                     !.todo = (sweep[w].listed \cup Pending) \ Keep,
                                     !.waiting = {s \in Sandboxes : pending[s] = "grace"}])
  /\ UNCHANGED <<up, guardVars, lease, draining, tableVars, daemonVars, restarts>>

\* Mutant: a pending name that is not listed stays pending.
SweepOne_ListedOnly(w, s, gone) ==
  /\ up
  /\ sweep[w].pc = "remove"
  /\ s \in sweep[w].todo
  /\ Remove(s, gone)
  /\ LET done == gone /\ s \in sweep[w].listed
     IN /\ pending' = IF done THEN [pending EXCEPT ![s] = "no"] ELSE pending
        /\ SweepChange(w, [sweep[w] EXCEPT !.todo = @ \ {s}, !.left = @ \/ ~done])
  /\ UNCHANGED <<up, guardVars, lease, draining, table, deletes, creating, owner, late, restarts>>

\* sweep, one name: a listed container is removed, a pending one that is not
\* listed is looked up.
SweepOne(w, s, gone) ==
  /\ up
  /\ sweep[w].pc = "remove"
  /\ s \in sweep[w].todo
  /\ IF s \in sweep[w].listed
       THEN Remove(s, gone)
       ELSE /\ gone => s \notin running
            /\ ~gone => (s \in running \/ Fault("docker"))
            /\ UNCHANGED running
  /\ LET done == gone /\ s \notin sweep[w].waiting
     IN /\ pending' = IF done THEN [pending EXCEPT ![s] = "no"] ELSE pending
        /\ SweepChange(w, [sweep[w] EXCEPT !.todo = @ \ {s}, !.left = @ \/ ~done])
  /\ UNCHANGED <<up, guardVars, lease, draining, table, deletes, creating, owner, late, restarts>>

\* sweep returns: zero when nothing may be left.
SweepReturns(w) ==
  /\ up
  /\ sweep[w].pc = "remove"
  /\ sweep[w].todo = {}
  /\ SweepEnds(w, ~sweep[w].left)
  /\ UNCHANGED <<up, guardVars, lease, tableVars, daemonVars, restarts>>

-----------------------------------------------------------------------------
(* Crashes, restarts and relaunches.                                       *)

\* The process ends: its memory is gone, containers and daemon requests stay.
Forget ==
  /\ up' = FALSE
  /\ record' = FreshRecord
  /\ extended' = FALSE
  /\ lease' = NoLease
  /\ draining' = BoxStart
  /\ table' = {}
  /\ deletes' = [s \in Sandboxes |-> "no"]
  /\ creating' = {}
  /\ pending' = [s \in Sandboxes |-> "no"]
  /\ sweep' = [w \in Sweepers |-> IdleSweep]

CanCrash ==
  /\ up
  /\ restarts < MaxRestarts
  /\ restarts' = restarts + 1

Crash ==
  /\ CanCrash
  /\ Forget
  /\ UNCHANGED <<boot, rtmr, marker, granted, owner, daemonVars>>

\* The process ends inside consume: after the extend, or after the write.
CrashInConsume(c, written) ==
  /\ CanCrash
  /\ MayAcquire(c)
  /\ ~Recorded(c)
  /\ rtmr' = IF record.by = Nobody THEN "consumed" ELSE rtmr
  /\ marker' = IF written THEN OnDisk(Consumed(c)) ELSE marker
  /\ Forget
  /\ UNCHANGED <<boot, granted, owner, daemonVars>>

\* A worker starts: BootGuard, CustomerLease and the executor are built.
Start ==
  /\ ~up
  /\ late = {} \/ Fault("early")
  /\ up' = TRUE
  /\ LoadGuard
  /\ UNCHANGED <<boot, rtmr, granted, lease, draining, tableVars, daemonVars, sweep, restarts>>

MarkerLost ==
  /\ Fault("marker")
  /\ marker.boot = boot
  /\ marker' = NoMarker
  /\ UNCHANGED <<up, boot, rtmr, record, extended, granted, lease, draining, tableVars,
                 daemonVars, sweep, restarts>>

\* The host launches the VM again: RTMR3 is zero, no container is left.  The
\* marker is gone with tmpfs, or is one of an earlier boot.
Relaunch ==
  /\ boot < MaxBoots
  /\ boot' = boot + 1
  /\ rtmr' = "fresh"
  /\ marker' \in {marker, NoMarker}
  /\ granted' = {}
  /\ running' = {}
  /\ late' = {}
  /\ Forget
  /\ UNCHANGED <<owner, restarts>>

-----------------------------------------------------------------------------
Init ==
  /\ up = FALSE
  /\ boot = 1
  /\ rtmr = "fresh"
  /\ marker = NoMarker
  /\ record = FreshRecord
  /\ extended = FALSE
  /\ lease = NoLease
  /\ draining = BoxStart
  /\ table = {}
  /\ deletes = [s \in Sandboxes |-> "no"]
  /\ creating = {}
  /\ pending = [s \in Sandboxes |-> "no"]
  /\ owner = [s \in Sandboxes |-> Nobody]
  /\ running = {}
  /\ late = {}
  /\ sweep = [w \in Sweepers |-> IdleSweep]
  /\ granted = {}
  /\ closed = FALSE
  /\ restarts = 0

LeaseNext ==
  \/ LeaseRunsOut
  \/ ExpireLocked
  \/ \E c \in Callers :
       \/ Acquire(c)
       \/ AcquireUnrecorded(c)
       \/ \E landed \in {"fresh", "consumed", "other"} :
            \E seen \in {landed, "unreadable"} : AcquireNotExtended(c, landed, seen)
       \/ Release(c)

SandboxNext ==
  \E s \in Sandboxes :
    \/ \E c \in Callers : CreateBegins(c, s)
    \/ DaemonStarts(s)
    \/ DaemonDrops(s)
    \/ CreateReturns(s)
    \/ \E timedOut, removed \in BOOLEAN : CreateFails(s, timedOut, removed)
    \/ GraceEnds(s)
    \/ \E removed \in BOOLEAN : Delete(s, removed)
    \/ DeleteForgets(s)

DrainNext ==
  \/ DrainBegins
  \/ \E s \in Sandboxes, removed \in BOOLEAN : DrainDeletes(s, removed)
  \/ \E s \in Sandboxes : DrainDeleted(s)
  \/ DrainLists

SweepNext(w) ==
  \/ SweepListed(w)
  \/ SweepKeeps(w)
  \/ \E s \in Sandboxes, gone \in BOOLEAN : SweepOne(w, s, gone)
  \/ SweepReturns(w)

BootNext ==
  \/ Crash
  \/ \E c \in Callers, written \in BOOLEAN : CrashInConsume(c, written)
  \/ Start
  \/ MarkerLost
  \/ Relaunch

\* Bookkeeping for ClosedUntilNextBoot.
NoteClosed == closed' = (boot' = boot /\ (closed \/ record'.by = Unknown))

Next ==
  /\ \/ LeaseNext
     \/ SandboxNext
     \/ DrainNext
     \/ ReaperSweeps
     \/ \E w \in Sweepers : SweepNext(w)
     \/ BootNext
  /\ NoteClosed

Spec == Init /\ [][Next]_vars

\* The reaper thread drains every tick, docker calls return and do not fail
\* for ever, the daemon acts on every request, grace windows end and a dead
\* worker is started again.
Fairness ==
  /\ WF_boxVars(DrainNext)
  /\ WF_boxVars(SweepNext("drain"))
  /\ SF_boxVars(SweepListed("drain") /\ sweep'["drain"].pc = "keep")
  /\ SF_boxVars(\E s \in Sandboxes : DrainDeletes(s, TRUE))
  /\ SF_boxVars(\E s \in Sandboxes : SweepOne("drain", s, TRUE))
  /\ WF_boxVars(\E s \in Sandboxes : DeleteForgets(s))
  /\ WF_boxVars(Start)
  /\ WF_boxVars(\E s \in Sandboxes : DaemonStarts(s) \/ DaemonDrops(s))
  /\ WF_boxVars(\E s \in Sandboxes : CreateReturns(s) \/ CreateFails(s, FALSE, TRUE))
  /\ WF_boxVars(\E s \in Sandboxes : GraceEnds(s))

FairSpec == Spec /\ Fairness

-----------------------------------------------------------------------------
(* Properties.                                                             *)

\* At most one customer is ever leased the box between two launches of the
\* VM, whatever the worker crashes do, and whichever marker writes, marker
\* reads and RTMR3 extends fail (BootGuard: "refuse a second customer in one
\* boot").
OneCustomerPerBoot == \A c, d \in granted : c = d

\* A container that runs, or that the daemon may still start, belongs to the
\* one customer this boot was leased to, even when no worker remembers it.
ContainersAreTheCustomers == \A s \in running \cup late : owner[s] \in granted

\* Once a customer was leased the box, RTMR3 shows it until the next boot:
\* consume extends before the lease is granted ("hardware first").
LeaseIsMeasured == granted # {} => rtmr = "consumed"

\* A worker of a boot that had a customer never reports the boot unused:
\* view's "consumed", and so needs_relaunch, come from this record.
UseIsReported == up /\ granted # {} => record.by \in granted \cup {Unknown}

\* A sandbox of the table whose delete nobody tried has its container: no sweep
\* takes it away, as the kept names are read after the daemon's listing and
\* cover creates in flight.
TrackedRuns == \A s \in table : deletes[s] = "no" => s \in running

\* While a customer holds the lease, each container that runs or may still
\* start is one the worker knows: the drain before the lease left nothing
\* behind ("nothing outlives a hand-over or a restart", RunscExecutor).
NothingOutlivesHandOver ==
  lease.holder # Nobody => running \cup late \subseteq Keep \cup Pending

\* A box that closed ("refuse every caller until the next boot",
\* _store_or_close) leases to nobody before the next launch of the VM.
ClosedUntilNextBoot == closed => lease.holder = Nobody

\* A drain ends: the deletes and the sweep come back clean, or the worker
\* crashed and its successor starts over.
DrainEnds == (up /\ draining # Nobody) ~> (~up \/ draining = Nobody)

=============================================================================

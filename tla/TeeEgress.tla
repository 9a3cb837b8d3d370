----------------------------- MODULE TeeEgress -----------------------------
(***************************************************************************)
(* Internet sandboxes of a TEE box: the egress rules, their lapses and the *)
(* quarantine of the sandbox bridge.                                       *)
(*                                                                         *)
(* Models cathedral/tee_box/enforce.py (EgressEnforcer), the internet part *)
(* of create, check_egress, end_lapsed_sandboxes, the removal threads and  *)
(* the verdict of sweep (cathedral/tee_box/executor.py), and the two       *)
(* threads that run them (cathedral/worker.py).  Creates are one at a time *)
(* (the lease lock is held over them, see TeeBox); the egress thread, the  *)
(* removal threads, deletes and the sweep run beside them.  A step ends    *)
(* where a lock is released or a command returns.                          *)
(***************************************************************************)
EXTENDS Naturals

CONSTANTS
    Sandboxes,    \* ids of internet sandboxes, never used twice
    Faults,       \* which kinds of failures happen, see FaultKinds
    MaxLosses,    \* bound: times the kernel loses the rules or apply or a read fails
    MaxRestarts   \* bound: restarts of the worker

\* docker: a container command fails.  network: docker cannot show the bridge
\* network.  nft: an nft command fails.  flush: the quarantine table is lost
\* with the rules.
FaultKinds == {"docker", "network", "nft", "flush"}

Threads == {"create", "check"}
Nobody == "nobody"

ASSUME EgressAssumption == /\ Faults \subseteq FaultKinds
                           /\ MaxLosses \in Nat /\ MaxRestarts \in Nat

VARIABLES
    \* The kernel and the daemon.
    rules,        \* the egress table is there and matches the policy
    cut,          \* the quarantine table is there
    running,      \* containers on the sandbox bridge
    \* EgressEnforcer.
    active,       \* _active
    lapses,       \* _lapses
    quarantined,  \* _quarantined
    leftover,     \* _quarantine_leftover
    caps,         \* _sandboxes: containers whose bandwidth cap is verified
    \* RunscExecutor.
    known,        \* internet sandboxes of _sandboxes
    pending,      \* _pending_cleanup
    seen,         \* _seen_lapses
    lapseCut,     \* _lapse_cut
    removal,      \* sandbox -> step of its thread in _lapse_inflight
    deleting,     \* sandboxes whose delete has discarded but not forgotten them
    swept,        \* _swept_clean
    sweep,        \* the running sweep: where it is, its listing, the names it has left
                  \* to remove, whether one stayed
    \* The two threads.
    th,           \* thread -> where it is
    new,          \* the create: its sandbox and the lapses it started from
    qlock,        \* _quarantine_lock
    serving,      \* the worker's start-up is over
    \* Bookkeeping.
    losses, restarts,
    made,         \* ids given out
    adopted,      \* an apply of this worker has looked for a quarantine table
    exposed,      \* containers that ran when a lapse was counted
    old           \* lapsed containers an earlier worker left behind

kernelVars == <<rules, cut, losses>>
containerVars == <<running, exposed, old>>
enforcerVars == <<active, lapses, quarantined, leftover, qlock>>
tableVars == <<caps, known, pending, made>>
lapseVars == <<seen, lapseCut, removal, deleting>>
sweepVars == <<swept, sweep>>
workerVars == <<serving, adopted, restarts>>
threadVars == <<th, new>>
vars == <<kernelVars, containerVars, enforcerVars, tableVars, lapseVars, sweepVars, workerVars,
          threadVars>>

Fault(kind) == kind \in Faults

\* A command of apply or _verify_table fails.
CommandFails(kind) ==
    /\ Fault(kind) /\ losses < MaxLosses
    /\ losses' = losses + 1

\* Where a thread is; in "list" and "note", what it does with the answer is
\* in next, in the steps of end_lapsed_sandboxes where it returns to.
PC == {"idle", "list", "note", "run", "tc", "abandon", "record", "compare", "cutting",
       "mark", "cut", "lift", "lifted", "spawn", "maintain", "network", "install", "adopt",
       "adopting"}
Returns == {"none", "failed", "verified", "attached", "maintained", "applied", "maintain", "network",
            "end"}

At(t, pc) == th[t].pc = pc
Step(pc, next) == [pc |-> pc, next |-> next, ok |-> FALSE]
Go(t, pc, next) == th' = [th EXCEPT ![t] = Step(pc, next)]
Answer(t, pc, ok) == th' = [th EXCEPT ![t].pc = pc, ![t].ok = ok]

\* A thread at rest: no create, or the wait before an egress tick.
AtRest == [t \in Threads |-> IF t = "create" THEN Step("idle", "none") ELSE Step("mark", "maintain")]
NoCreate == [s |-> Nobody, from |-> 0]
NoSweep == [pc |-> "idle", listed |-> {}, todo |-> {}, left |-> FALSE]

\* The call ends.
Rest(t) ==
    /\ th' = [th EXCEPT ![t] = AtRest[t]]
    /\ new' = IF t = "create" THEN NoCreate ELSE new

\* The types of the enforcer's, the executor's and the threads' fields.
TypeOK ==
    /\ {rules, cut, active, quarantined, leftover, swept, serving, adopted} \subseteq BOOLEAN
    /\ running \cup caps \cup known \cup pending \cup lapseCut \cup deleting \cup made
         \subseteq Sandboxes
    /\ exposed \cup old \subseteq running
    /\ lapses \in Nat /\ seen \in 0..lapses
    /\ removal \in [Sandboxes -> {"none", "start", "removed", "forgotten"}]
    /\ sweep \in [pc : {"idle", "keep", "remove"}, listed : SUBSET Sandboxes,
                  todo : SUBSET Sandboxes, left : BOOLEAN]
    /\ th \in [Threads -> [pc : PC, next : Returns, ok : BOOLEAN]]
    /\ new \in [s : Sandboxes \cup {Nobody}, from : 0..lapses]
    /\ qlock \in Threads \cup {Nobody}
    /\ losses \in 0..MaxLosses /\ restarts \in 0..MaxRestarts

\* The sandbox in _creating; before docker run it has no container.
Creating == {new.s} \ {Nobody}
Keep == known \cup Creating
Inflight == {s \in Sandboxes : removal[s] # "none"}

\* Containers stop; what they saw stops with them.
Stop(gone) ==
    /\ running' = running \ gone
    /\ exposed' = exposed \ gone
    /\ old' = old \ gone

\* _remove: the container is confirmed gone; or a docker call failed, and another
\* of its calls may have ended the container.
Remove(s, removed) ==
    \/ removed /\ Stop({s})
    \/ ~removed /\ Fault("docker") /\ (Stop({s}) \/ UNCHANGED containerVars)

-----------------------------------------------------------------------------
(* The enforcer.                                                           *)

\* The kernel loses the table: flushed, or changed by another tool.
RulesLost ==
    /\ rules /\ losses < MaxLosses
    /\ losses' = losses + 1
    /\ rules' = FALSE
    /\ cut' \in IF Fault("flush") THEN {cut, FALSE} ELSE {cut}
    /\ UNCHANGED <<containerVars, enforcerVars, tableVars, lapseVars, sweepVars, workerVars,
                   threadVars>>

Fail_Flag ==
    /\ active' = FALSE
    /\ lapses' = IF active THEN 1 ELSE 0
    /\ exposed' = IF active THEN running ELSE exposed

\* _fail: a lapse is counted when enforcement was active.
Fail ==
    /\ active' = FALSE
    /\ lapses' = IF active THEN lapses + 1 ELSE lapses
    /\ exposed' = IF active THEN running ELSE exposed

\* _verify_table, first half: nft lists the table.
List(t) ==
    /\ At(t, "list")
    /\ \/ /\ Answer(t, "note", rules)
          /\ UNCHANGED losses
       \/ /\ CommandFails("nft")
          /\ Answer(t, "note", FALSE)
    /\ UNCHANGED <<rules, cut, containerVars, enforcerVars, tableVars, lapseVars, sweepVars,
                   workerVars, new>>

\* apply returns: to configure, and the worker serves, or to check_egress.
ApplyEnds(t) ==
    /\ IF serving THEN Go(t, "mark", "end") /\ UNCHANGED new ELSE Rest(t)
    /\ serving' = TRUE

\* Where a thread goes with the answer of _verify_table; verify also wants
\* the bridge not quarantined.
Verified(t, ok) ==
    LET verify == ok /\ ~quarantined
    IN  \/ /\ th[t].next = "verified"
           /\ IF verify THEN Go(t, "run", "none") ELSE Go(t, "mark", "end")
           /\ UNCHANGED <<serving, new>>
        \/ /\ th[t].next = "attached"
           /\ Go(t, IF verify THEN "tc" ELSE "abandon", "none")
           /\ UNCHANGED <<serving, new>>
        \/ /\ th[t].next = "maintained"
           /\ Go(t, "mark", IF ok THEN "end" ELSE "network")
           /\ UNCHANGED <<serving, new>>
        \/ /\ th[t].next = "applied"
           /\ ApplyEnds(t)

\* _verify_table, second half: the answer is noted, however old it is.
Note(t) ==
    /\ At(t, "note")
    /\ IF th[t].ok
         THEN active' = TRUE /\ UNCHANGED <<lapses, exposed>>
         ELSE Fail
    /\ Verified(t, th[t].ok)
    /\ UNCHANGED <<kernelVars, running, old, quarantined, leftover, qlock, tableVars, lapseVars,
                   sweepVars, adopted, restarts>>

\* apply gives up: the error turns enforcement off.
ApplyFails(t) ==
    /\ Fail
    /\ ApplyEnds(t)
    /\ UNCHANGED <<rules, cut, running, old, quarantined, leftover, qlock, tableVars, lapseVars,
                   sweepVars, adopted, restarts>>

\* apply, one command after another: _ensure_network, the table is replaced,
\* and _reconcile_quarantine lists the quarantine table.
Network(t) ==
    /\ At(t, "network")
    /\ Go(t, "install", "none")
    /\ UNCHANGED <<kernelVars, containerVars, enforcerVars, tableVars, lapseVars, sweepVars,
                   workerVars, new>>

NetworkFails(t) ==
    /\ At(t, "network")
    /\ CommandFails("network")
    /\ ApplyFails(t)

Install(t) ==
    /\ At(t, "install")
    /\ rules' = TRUE
    /\ Go(t, "adopt", "none")
    /\ UNCHANGED <<cut, losses, containerVars, enforcerVars, tableVars, lapseVars, sweepVars,
                   workerVars, new>>

AdoptLists(t) ==
    /\ At(t, "adopt")
    /\ Answer(t, "adopting", cut)
    /\ UNCHANGED <<kernelVars, containerVars, enforcerVars, tableVars, lapseVars, sweepVars,
                   workerVars, new>>

NftFails(t) ==
    /\ At(t, "install") \/ At(t, "adopt")
    /\ CommandFails("nft")
    /\ ApplyFails(t)

Adopt_NotLeftover(t) ==
    /\ At(t, "adopting")
    /\ quarantined' = (quarantined \/ th[t].ok)
    /\ adopted' = TRUE
    /\ Go(t, "list", "applied")
    /\ UNCHANGED <<kernelVars, containerVars, active, lapses, leftover, qlock, tableVars,
                   lapseVars, sweepVars, serving, restarts, new>>

Adopt_Ignored(t) ==
    /\ At(t, "adopting")
    /\ adopted' = TRUE
    /\ Go(t, "list", "applied")
    /\ UNCHANGED <<kernelVars, containerVars, enforcerVars, tableVars, lapseVars, sweepVars,
                   serving, restarts, new>>

\* A quarantine table this process did not install is an earlier run's.
Adopt(t) ==
    /\ At(t, "adopting")
    /\ IF th[t].ok /\ ~quarantined
         THEN quarantined' = TRUE /\ leftover' = TRUE
         ELSE UNCHANGED <<quarantined, leftover>>
    /\ adopted' = TRUE
    /\ Go(t, "list", "applied")
    /\ UNCHANGED <<kernelVars, containerVars, active, lapses, qlock, tableVars, lapseVars,
                   sweepVars, serving, restarts, new>>

-----------------------------------------------------------------------------
(* end_lapsed_sandboxes, called by both threads.                           *)

MayLift_AnyLeftover == quarantined /\ ~leftover

\* An earlier run's quarantine waits for a clean sweep.
MayLift == quarantined /\ (swept \/ ~leftover)

\* The mark, under both locks: a new lapse marks every sandbox of the table.
\* quarantine sets its flag before it calls nft.
Mark(t) ==
    /\ At(t, "mark") /\ qlock = Nobody
    /\ seen' = lapses
    /\ lapseCut' = IF lapses # seen THEN lapseCut \cup known ELSE lapseCut
    /\ LET waiting == lapseCut' # {} \/ Inflight # {}
       IN  \/ /\ waiting
              /\ Go(t, "cut", th[t].next)
              /\ quarantined' = TRUE /\ qlock' = t
           \/ /\ ~waiting /\ MayLift
              /\ Go(t, "lift", th[t].next)
              /\ qlock' = t /\ UNCHANGED quarantined
           \/ /\ ~waiting /\ ~MayLift
              /\ Go(t, "spawn", th[t].next)
              /\ UNCHANGED <<quarantined, qlock>>
    /\ UNCHANGED <<kernelVars, containerVars, active, lapses, leftover, tableVars, removal, deleting,
                   sweepVars, workerVars, new>>

\* quarantine: the table that drops everything on the bridge is installed.
Quarantine(t) ==
    /\ At(t, "cut")
    /\ \/ cut' = TRUE
       \/ Fault("nft") /\ UNCHANGED cut
    /\ qlock' = Nobody
    /\ Go(t, "spawn", th[t].next)
    /\ UNCHANGED <<rules, losses, containerVars, active, lapses, quarantined, leftover, tableVars,
                   lapseVars, sweepVars, workerVars, new>>

\* lift_quarantine: the table is deleted, then the flags are cleared.
LiftDeletes(t) ==
    /\ At(t, "lift")
    /\ cut' = FALSE
    /\ Go(t, "lifted", th[t].next)
    /\ UNCHANGED <<rules, losses, containerVars, enforcerVars, tableVars, lapseVars, sweepVars,
                   workerVars, new>>

LiftFails(t) ==
    /\ At(t, "lift") /\ Fault("nft")
    /\ qlock' = Nobody
    /\ Go(t, "spawn", th[t].next)
    /\ UNCHANGED <<kernelVars, containerVars, active, lapses, quarantined, leftover, tableVars,
                   lapseVars, sweepVars, workerVars, new>>

Lifted(t) ==
    /\ At(t, "lifted")
    /\ quarantined' = FALSE /\ leftover' = FALSE /\ qlock' = Nobody
    /\ Go(t, "spawn", th[t].next)
    /\ UNCHANGED <<kernelVars, containerVars, active, lapses, tableVars, lapseVars, sweepVars,
                   workerVars, new>>

\* A removal thread for every marked sandbox that has none; the call returns.
Spawn(t) ==
    /\ At(t, "spawn")
    /\ removal' = [s \in Sandboxes |->
                     IF s \in lapseCut /\ removal[s] = "none" THEN "start" ELSE removal[s]]
    /\ IF th[t].next = "end" THEN Rest(t) ELSE Go(t, th[t].next, "none") /\ UNCHANGED new
    /\ UNCHANGED <<kernelVars, containerVars, enforcerVars, tableVars, seen, lapseCut, deleting,
                   sweepVars, workerVars>>

\* _end_lapsed_one: _delete removes the container, then its cap and its mark.
RemovalRuns(s) ==
    /\ removal[s] = "start"
    /\ IF s \in known
         THEN /\ Remove(s, TRUE)
              /\ caps' = caps \ {s}
              /\ lapseCut' = lapseCut \ {s}
              /\ removal' = [removal EXCEPT ![s] = "removed"]
         ELSE /\ removal' = [removal EXCEPT ![s] = "forgotten"]
              /\ UNCHANGED <<containerVars, caps, lapseCut>>
    /\ UNCHANGED <<kernelVars, enforcerVars, known, pending, made, seen, deleting, sweepVars,
                   workerVars, threadVars>>

RemovalFails_DetachFirst(s) ==
    /\ removal[s] = "start" /\ s \in known
    /\ Remove(s, FALSE)
    /\ removal' = [removal EXCEPT ![s] = "none"]
    /\ caps' = caps \ {s}
    /\ UNCHANGED <<kernelVars, enforcerVars, known, pending, made, seen, lapseCut,
                   deleting, sweepVars, workerVars, threadVars>>

RemovalFails_ThreadStays(s) ==
    /\ removal[s] = "start" /\ s \in known
    /\ Remove(s, FALSE)
    /\ removal' = [removal EXCEPT ![s] = "failed"]
    /\ UNCHANGED <<kernelVars, enforcerVars, tableVars, seen, lapseCut, deleting,
                   sweepVars, workerVars, threadVars>>

\* The container may still run: the mark stays, for the next call.
RemovalFails(s) ==
    /\ removal[s] = "start" /\ s \in known
    /\ Remove(s, FALSE)
    /\ removal' = [removal EXCEPT ![s] = "none"]
    /\ UNCHANGED <<kernelVars, enforcerVars, tableVars, seen, lapseCut, deleting,
                   sweepVars, workerVars, threadVars>>

RemovalForgets(s) ==
    /\ removal[s] = "removed"
    /\ removal' = [removal EXCEPT ![s] = "forgotten"]
    /\ known' = known \ {s}
    /\ UNCHANGED <<kernelVars, containerVars, enforcerVars, caps, pending, made, seen, lapseCut,
                   deleting, sweepVars, workerVars, threadVars>>

RemovalEnds(s) ==
    /\ removal[s] = "forgotten"
    /\ removal' = [removal EXCEPT ![s] = "none"]
    /\ lapseCut' = lapseCut \ {s}
    /\ UNCHANGED <<kernelVars, containerVars, enforcerVars, tableVars, seen, deleting, sweepVars,
                   workerVars, threadVars>>

-----------------------------------------------------------------------------
(* Creates, deletes and sweeps.                                            *)

\* create up to verify.  A lease, and so a create, needs the start-up drain's
\* clean sweep.
CreateBegins(s) ==
    /\ serving /\ swept /\ At("create", "idle")
    /\ s \notin made
    /\ made' = made \cup {s}
    /\ new' = [s |-> s, from |-> lapses]
    /\ Go("create", "list", "verified")
    /\ UNCHANGED <<kernelVars, containerVars, enforcerVars, caps, known, pending, lapseVars,
                   sweepVars, workerVars>>

\* docker run, then attach.  A start that failed or timed out may have left the
\* container (see TeeBox for one that the daemon starts later).
CreateRuns ==
    /\ At("create", "run")
    /\ \/ /\ running' = running \cup {new.s}
          /\ Go("create", "list", "attached")
       \/ /\ Fault("docker")
          /\ running' \in {running, running \cup {new.s}}
          /\ Go("create", "abandon", "failed")
    /\ UNCHANGED <<kernelVars, exposed, old, enforcerVars, tableVars, lapseVars, sweepVars,
                   workerVars, new>>

\* The rest of attach (the tc cap is applied and read back) and is_enforced.
Attach ==
    /\ At("create", "tc")
    /\ \/ /\ caps' = caps \cup {new.s}
          /\ Go("create", IF active /\ ~quarantined THEN "record" ELSE "abandon", "none")
       \/ /\ Fault("docker")
          /\ Go("create", "abandon", "none")
          /\ UNCHANGED caps
    /\ UNCHANGED <<kernelVars, containerVars, enforcerVars, known, pending, made, lapseVars,
                   sweepVars, workerVars, new>>

\* Not started or not enforced: _abandon, and _detach once the container is gone.
\* A start that timed out stays pending also when it is removed.
CreateAbandons(removed) ==
    /\ At("create", "abandon")
    /\ Remove(new.s, removed)
    /\ caps' = IF removed THEN caps \ {new.s} ELSE caps
    /\ \/ removed /\ UNCHANGED pending
       \/ (~removed \/ th["create"].next = "failed") /\ pending' = pending \cup {new.s}
    /\ IF th["create"].next = "failed" THEN Rest("create")
                                       ELSE Go("create", "mark", "end") /\ UNCHANGED new
    /\ UNCHANGED <<kernelVars, enforcerVars, known, made, lapseVars, sweepVars, workerVars>>

CreateRecords ==
    /\ At("create", "record")
    /\ known' = known \cup {new.s}
    /\ Go("create", "compare", "none")
    /\ UNCHANGED <<kernelVars, containerVars, enforcerVars, caps, pending, made, lapseVars,
                   sweepVars, workerVars, new>>

CreateCompares_Never ==
    /\ At("create", "compare")
    /\ Rest("create")
    /\ UNCHANGED <<kernelVars, containerVars, enforcerVars, tableVars, lapseVars, sweepVars,
                   workerVars>>

\* The rules lapsed while the sandbox started: end it too.
CreateCompares ==
    /\ At("create", "compare")
    /\ IF lapses = new.from
         THEN Rest("create")
         ELSE Go("create", "cutting", "none") /\ UNCHANGED new
    /\ UNCHANGED <<kernelVars, containerVars, enforcerVars, tableVars, lapseVars, sweepVars,
                   workerVars>>

CreateCuts ==
    /\ At("create", "cutting") /\ qlock = Nobody
    /\ lapseCut' = lapseCut \cup {new.s}
    /\ Go("create", "mark", "end")
    /\ UNCHANGED <<kernelVars, containerVars, enforcerVars, tableVars, seen, removal, deleting,
                   sweepVars, workerVars, new>>

\* delete by the customer, the reaper or a drain: the container is removed,
\* its cap and its mark go, and then the table forgets it.
Delete(s, removed) ==
    /\ serving /\ s \in known \ deleting
    /\ Remove(s, removed)
    /\ IF removed
         THEN caps' = caps \ {s} /\ lapseCut' = lapseCut \ {s} /\ deleting' = deleting \cup {s}
         ELSE UNCHANGED <<caps, lapseCut, deleting>>
    /\ UNCHANGED <<kernelVars, enforcerVars, known, pending, made, seen, removal, sweepVars,
                   workerVars, threadVars>>

DeleteForgets(s) ==
    /\ s \in deleting
    /\ known' = known \ {s}
    /\ deleting' = deleting \ {s}
    /\ UNCHANGED <<kernelVars, containerVars, enforcerVars, caps, pending, made, seen, lapseCut,
                   removal, sweepVars, workerVars, threadVars>>

\* sweep: the daemon's listing, what to keep and what is pending, read after it,
SweepLists ==
    /\ serving /\ sweep.pc = "idle"
    /\ sweep' = [NoSweep EXCEPT !.pc = "keep", !.listed = running]
    /\ UNCHANGED <<kernelVars, containerVars, enforcerVars, tableVars, lapseVars, swept, workerVars,
                   threadVars>>

SweepKeeps ==
    /\ sweep.pc = "keep"
    /\ sweep' = [sweep EXCEPT !.pc = "remove", !.listed = @ \ Keep,
                              !.todo = (sweep.listed \cup pending) \ Keep]
    /\ UNCHANGED <<kernelVars, containerVars, enforcerVars, tableVars, lapseVars, swept, workerVars,
                   threadVars>>

\* ... one name after another: a listed one is removed, another is looked up.  One
\* that is not gone, or is in its grace window, stays pending.
SweepOne(s, gone) ==
    /\ s \in sweep.todo
    /\ IF s \in sweep.listed
         THEN Remove(s, gone)
         ELSE gone = (s \notin running) /\ UNCHANGED containerVars
    /\ caps' = IF gone THEN caps \ {s} ELSE caps
    /\ \/ /\ gone
          /\ pending' = pending \ {s}
          /\ sweep' = [sweep EXCEPT !.todo = @ \ {s}, !.listed = @ \ {s}]
       \/ /\ ~gone \/ (s \in pending /\ Fault("docker"))
          /\ sweep' = [sweep EXCEPT !.todo = @ \ {s}, !.listed = @ \ {s}, !.left = TRUE]
          /\ UNCHANGED pending
    /\ UNCHANGED <<kernelVars, enforcerVars, known, made, lapseVars, swept, workerVars, threadVars>>

SweepEnds ==
    /\ sweep.pc = "remove" /\ sweep.todo = {}
    /\ swept' = (swept \/ ~sweep.left)
    /\ sweep' = NoSweep
    /\ UNCHANGED <<kernelVars, containerVars, enforcerVars, tableVars, lapseVars, workerVars,
                   threadVars>>

-----------------------------------------------------------------------------
(* The egress thread and the worker.                                       *)

\* maintain: an active table is read back; an inactive one is applied again,
\* though not at every tick.
Maintain ==
    /\ At("check", "maintain")
    /\ IF active
         THEN Go("check", "list", "maintained")
         ELSE Go("check", "network", "none") \/ Go("check", "mark", "end")
    /\ UNCHANGED <<kernelVars, containerVars, enforcerVars, tableVars, lapseVars, sweepVars,
                   workerVars, new>>

\* A worker that starts: configure applies the rules first.
Starting == [AtRest EXCEPT !["check"] = Step("network", "none")]

\* The worker stops and is started again: its memory is gone, the kernel's
\* tables and the containers stay.
Restart ==
    /\ restarts < MaxRestarts
    /\ restarts' = restarts + 1
    /\ old' = old \cup ((lapseCut \cup exposed) \cap running)
    /\ active' = FALSE /\ lapses' = 0 /\ exposed' = {}
    /\ quarantined' = FALSE /\ leftover' = FALSE /\ qlock' = Nobody
    /\ caps' = {} /\ known' = {} /\ pending' = {}
    /\ seen' = 0 /\ lapseCut' = {} /\ deleting' = {}
    /\ removal' = [s \in Sandboxes |-> "none"]
    /\ swept' = FALSE /\ sweep' = NoSweep
    /\ th' = Starting /\ new' = NoCreate /\ serving' = FALSE /\ adopted' = FALSE
    /\ UNCHANGED <<kernelVars, running, made>>

-----------------------------------------------------------------------------
Init ==
    /\ rules = FALSE /\ cut = FALSE /\ losses = 0
    /\ running = {} /\ exposed = {} /\ old = {}
    /\ active = FALSE /\ lapses = 0
    /\ quarantined = FALSE /\ leftover = FALSE /\ qlock = Nobody
    /\ caps = {} /\ known = {} /\ pending = {} /\ made = {}
    /\ seen = 0 /\ lapseCut = {} /\ deleting = {}
    /\ removal = [s \in Sandboxes |-> "none"]
    /\ swept = FALSE /\ sweep = NoSweep
    /\ th = Starting /\ new = NoCreate
    /\ serving = FALSE /\ adopted = FALSE /\ restarts = 0

EnforcerStep(t) ==
    \/ List(t) \/ Note(t)
    \/ Network(t) \/ NetworkFails(t) \/ Install(t) \/ AdoptLists(t) \/ NftFails(t) \/ Adopt(t)
    \/ Mark(t) \/ Quarantine(t) \/ LiftDeletes(t) \/ LiftFails(t) \/ Lifted(t) \/ Spawn(t)

CreateStep ==
    \/ CreateRuns \/ Attach \/ (\E removed \in BOOLEAN : CreateAbandons(removed))
    \/ CreateRecords \/ CreateCompares \/ CreateCuts

RemovalStep(s) ==
    RemovalRuns(s) \/ RemovalFails(s) \/ RemovalForgets(s) \/ RemovalEnds(s)

DeleteStep(s) == (\E removed \in BOOLEAN : Delete(s, removed)) \/ DeleteForgets(s)

SweepStep ==
    \/ SweepLists \/ SweepKeeps \/ SweepEnds
    \/ \E s \in Sandboxes, gone \in BOOLEAN : SweepOne(s, gone)

Next ==
    \/ RulesLost
    \/ \E t \in Threads : EnforcerStep(t)
    \/ \E s \in Sandboxes : CreateBegins(s)
    \/ CreateStep
    \/ \E s \in Sandboxes : RemovalStep(s) \/ DeleteStep(s)
    \/ SweepStep
    \/ Maintain
    \/ Restart

Spec == Init /\ [][Next]_vars

\* The egress thread ticks, threads run, the retry interval passes, and a
\* command that is repeated succeeds in the end.
Fairness ==
    /\ \A t \in Threads : WF_vars(EnforcerStep(t))
    /\ WF_vars(CreateStep) /\ WF_vars(Maintain) /\ WF_vars(SweepStep)
    /\ SF_vars(Maintain /\ th'["check"].pc = "network")
    /\ SF_vars(\E t \in Threads : LiftDeletes(t))
    /\ \A s \in Sandboxes :
         WF_vars(RemovalStep(s)) /\ SF_vars(RemovalRuns(s)) /\ WF_vars(DeleteForgets(s))
    /\ \A s \in Sandboxes : SF_vars(SweepOne(s, TRUE) /\ ~sweep'.left)

FairSpec == Spec /\ Fairness

-----------------------------------------------------------------------------
(* Properties.                                                             *)

\* Once a lapse has been acted on, every sandbox that ran when it was counted
\* and still runs is refused to its customer (_require) or is still being
\* created: none slips between the mark and the create's own comparison.
LapsedNotServed == seen = lapses => exposed \cap known \subseteq lapseCut \cup Creating

\* The bridge is opened again only when no sandbox an earlier worker's lapse left
\* behind runs on it and, once this worker's lapses are acted on, none that ran
\* when one was counted.  Two kinds are spared: a sandbox whose create has not
\* compared the lapses yet, and one an aborted create could not remove, which is
\* left to the sweep (_pending_cleanup).
LiftWhenClear ==
    \A t \in Threads : At(t, "lift") =>
      /\ (lapseCut \cup old) \cap running = {}
      /\ seen = lapses => exposed \cap running \subseteq Creating \cup pending

\* A sandbox of the table that runs is capped: attach comes before the table
\* entry and detach after the container is gone.
RunningIsCapped == known \cap running \subseteq caps

\* Once an apply of this worker got as far as _reconcile_quarantine, enforcement
\* is not reported while a quarantine table, also one that an earlier worker
\* installed, cuts the bridge off.
EnforcedIsOpen == adopted /\ active /\ ~quarantined => ~cut

\* A sandbox that ran when a lapse was counted is removed, whatever fails on the
\* way: a failed removal is tried again, by a later call or by the sweep.
LapsedRemoved == \A s \in Sandboxes : s \in lapseCut \cup exposed ~> s \notin running

\* The kernel does not keep a quarantine table for ever, this worker's or an
\* earlier one's, once an apply of this worker has looked for one.
QuarantineLifts == []<>(adopted => ~cut)

\* Enforcement is never reported while a quarantine table cuts the bridge off
\* (_reconcile_quarantine: "It stays, and enforcement is not reported, until the
\* executor lifts it").
CutNotEnforced == active /\ ~quarantined => ~cut

=============================================================================

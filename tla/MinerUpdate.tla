----------------------------- MODULE MinerUpdate ----------------------------
(***************************************************************************)
(* How an installed miner takes a release: prepare, latch, flip, restart,  *)
(* probation, commit, roll back, halt and resolve.                         *)
(*                                                                         *)
(* Models the activation half of cathedral/miner_updater.py: _activate,    *)
(* _prove_start, _fail, _rollback, _confirm_probation,                     *)
(* reconcile_interrupted_activation, _confirm_current and resolve.  One    *)
(* check, or one operator command, holds the updater lock; systemd, docker *)
(* and the operator's hands on the unit run beside it.  A step ends where  *)
(* the state file or miner/current is written and where a command returns, *)
(* so a crash or a reboot falls between any two of them.  Looking at the   *)
(* container and the write that follows are one step: nothing else reads   *)
(* the state file.                                                         *)
(*                                                                         *)
(* Verifying records and updating the updater itself come before           *)
(* _activate; here the channel may offer any authenticated release at any  *)
(* check, or none.  All releases run in one container name.                *)
(***************************************************************************)
EXTENDS Integers

CONSTANTS
    Releases,      \* release contents: an image and a tree
    Images,        \* image digests
    ImageOf,       \* release -> its image
    LegacyImage,   \* the image of the unit's own launcher
    Schema,        \* image -> the state schema it writes and reads up to
    Labelled,      \* images that carry the state-schema label
    Declared,      \* release -> the state schemas its records may declare
    Faults,        \* see FaultKinds
    MaxRestarts    \* bound: automatic restarts in a probation

\* crash: the updater dies.  reboot: so does the host.  exit: the container
\* exits.  stop: the operator stops the unit.  systemctl: a restart fails.
\* disk: miner/current cannot be written.  resolve: operator commands.
FaultKinds == {"crash", "reboot", "exit", "stop", "systemctl", "disk", "resolve"}

Legacy == "legacy"
Unknown == 0   \* a schema that is not verified
None == "none"

ASSUME ReleaseAssumption ==
    /\ Faults \subseteq FaultKinds
    /\ Legacy \notin Releases /\ None \notin Releases \cup Images
    /\ LegacyImage \in Images /\ Labelled \subseteq Images
    /\ ImageOf \in [Releases -> Images] /\ Schema \in [Images -> Nat \ {0}]
    /\ Declared \in [Releases -> SUBSET (Nat \ {0})]
    /\ MaxRestarts \in Nat

\* Images from before the label write the oldest schema.
ASSUME UnlabelledAssumption ==
    \A old \in Images \ Labelled, i \in Images : Schema[old] <= Schema[i]

VARIABLES
    \* Files.
    link,        \* miner/current
    stage,       \* miner.stage
    pending,     \* miner.pending
    current,     \* miner.current
    failed,      \* failed: the release remembered as failed
    high,        \* schema_high_water
    \* The miner unit and its container.
    unit,        \* "on" or "stopped"
    run,         \* the container, or NoRun
    restarts,    \* the unit's NRestarts, counted during a probation
    \* The updater process.
    pc,          \* where it is
    operator,    \* its rollback was ordered by resolve
    \* Bookkeeping.
    written,     \* the highest state schema that an image has written here,
                 \* or Unknown once the operator has ordered a rollback and
                 \* so answers for the state
    home         \* the target last committed or left by the operator

fileVars == <<stage, pending, current, failed, high>>
unitVars == <<unit, run, restarts, written>>
updaterVars == <<pc, operator>>
vars == <<link, fileVars, unitVars, updaterVars, home>>

Fault(kind) == kind \in Faults
Targets == Releases \cup {Legacy}
Image(t) == IF t = Legacy THEN LegacyImage ELSE ImageOf[t]
Schemas == {Schema[i] : i \in Images} \cup UNION {Declared[r] : r \in Releases}

NoRun == [image |-> None]

\* The record of a probation; rebooted and aged are what its boot id and its
\* time of entry amount to by now.
Probation(n, forgiven) ==
    [restarts |-> n, forgiven |-> forgiven, rebooted |-> FALSE, aged |-> FALSE]
NoProbation == Probation(0, -1)
NoPending == [release |-> None]
NoCurrent == [target |-> Legacy, schema |-> 0, verified |-> FALSE]
NoHigh == [schema |-> 0, image |-> None]

\* What docker and systemd report of the container: fresh, it started after
\* the latch; same, it is the one last recorded; old, it was up through the
\* last probation period.
Runs == [image : Images, fresh : BOOLEAN, same : BOOLEAN, old : BOOLEAN]

Unmarked(r) ==
    IF r = NoRun THEN r ELSE [r EXCEPT !.fresh = FALSE, !.same = FALSE, !.old = FALSE]

PC == {"idle", "resee", "retry", "lookback", "channel", "pull", "flip", "start", "settle",
       "restart", "resettle", "again", "fail", "back1", "look1", "back2", "look2", "accept"}

Pendings ==
    [release : Releases, schema : Schemas, prev : Targets, prevImage : Images \cup {None},
     prevSchema : Schemas \cup {Unknown}, verified : BOOLEAN, failure : BOOLEAN,
     probation : [restarts : 0..MaxRestarts, forgiven : -1..1, rebooted : BOOLEAN,
                  aged : BOOLEAN]]

\* The fields of the state file and the unit have their types, and a stage
\* past "prepared" has the record that _valid_pending asks for.
TypeOK ==
    /\ link \in Targets /\ home \in Targets
    /\ stage \in {None, "prepared", "may_have_run", "probation"}
    /\ pending \in {NoPending} \cup Pendings
    /\ stage = None <=> pending = NoPending
    /\ stage = "probation" => pending.probation.forgiven >= 0
    /\ current \in [target : Targets, schema : Schemas \cup {0}, verified : BOOLEAN]
    /\ failed \in Releases \cup {None}
    /\ high \in {NoHigh} \cup [schema : Schemas, image : Images]
    /\ unit \in {"on", "stopped"} /\ run \in Runs \cup {NoRun}
    /\ restarts \in 0..MaxRestarts
    /\ unit = "stopped" => run = NoRun
    /\ operator \in BOOLEAN
    /\ pc \in PC /\ written \in Schemas \cup {Unknown}

-----------------------------------------------------------------------------
(* The unit.                                                               *)

\* A container starts from what miner/current selects, and may migrate the
\* durable state; n is the unit's restart count from then on.
Begins(n) ==
    /\ run' = [image |-> Image(link), fresh |-> stage = "may_have_run", same |-> FALSE,
               old |-> FALSE]
    /\ restarts' = n
    /\ written' = IF written = Unknown \/ written > Schema[Image(link)] THEN written
                  ELSE Schema[Image(link)]

Exits ==
    /\ Fault("exit") /\ run # NoRun
    /\ run' = NoRun
    /\ UNCHANGED <<link, fileVars, unit, restarts, written, updaterVars,
                   home>>

\* Restart=always.  The count is kept while a probation compares it.
AutoRestart ==
    /\ run = NoRun /\ unit = "on"
    /\ \/ stage # "probation" /\ Begins(0)
       \/ stage = "probation" /\ restarts < MaxRestarts /\ Begins(restarts + 1)
    /\ UNCHANGED <<link, fileVars, unit, updaterVars, home>>

Stops ==
    /\ Fault("stop") /\ unit = "on"
    /\ unit' = "stopped" /\ run' = NoRun
    /\ UNCHANGED <<link, fileVars, restarts, written, updaterVars, home>>

StartsByHand ==
    /\ unit = "stopped"
    /\ unit' = "on" /\ Begins(0)
    /\ UNCHANGED <<link, fileVars, updaterVars, home>>

\* A probation period passes.
Tick ==
    /\ stage = "probation" /\ ~pending.probation.aged
    /\ pending' = [pending EXCEPT !.probation.aged = TRUE]
    /\ run' = IF run = NoRun THEN run ELSE [run EXCEPT !.old = TRUE]
    /\ UNCHANGED <<link, stage, current, failed, high, unit, restarts, written, updaterVars,
                   home>>

\* systemctl restart, by the updater: it fails, or the unit starts, whether
\* or not the image then comes up.
RestartMiner ==
    /\ unit' = "on"
    /\ \/ Begins(0)
       \/ /\ Fault("exit")
          /\ run' = NoRun /\ restarts' = 0
          /\ UNCHANGED written

\* What observe and settle see: this image, up.
Up(image) == run # NoRun /\ run.image = image

-----------------------------------------------------------------------------
(* The updater's process.                                                  *)

Goto(p) == pc' = p /\ UNCHANGED operator

\* The check, or the command, ends: done, deferred, refused or halted.
Ends == pc' = "idle" /\ operator' = FALSE

Crash ==
    /\ Fault("crash") /\ pc # "idle"
    /\ pc' = "idle" /\ operator' = FALSE
    /\ UNCHANGED <<link, fileVars, unitVars, home>>

Reboot ==
    /\ Fault("reboot")
    /\ pc' = "idle" /\ operator' = FALSE
    /\ pending' = IF stage = "probation" THEN [pending EXCEPT !.probation.rebooted = TRUE]
                  ELSE pending
    /\ unit' = "on" /\ Begins(0)
    /\ UNCHANGED <<link, stage, current, failed, high, home>>

ClearStage_KeepsPending ==
    /\ stage' = None /\ UNCHANGED pending
    /\ run' = Unmarked(run) /\ restarts' = 0

\* The pending record goes, and with it what the container is compared with.
ClearStage ==
    /\ stage' = None /\ pending' = NoPending
    /\ run' = Unmarked(run) /\ restarts' = 0

Commit(target, schema, verified) ==
    /\ ClearStage
    /\ current' = [target |-> target, schema |-> schema, verified |-> verified]
    /\ failed' = None
    /\ home' = target

\* A step that changes only where the process is.
Moves(p) == Goto(p) /\ UNCHANGED <<link, fileVars, unitVars, home>>
Leaves == Ends /\ UNCHANGED <<link, fileVars, unitVars, home>>

\* The previous release is back: forget the activation, and remember a
\* release that failed.
BackDone(isFailure) ==
    /\ ClearStage
    /\ failed' = IF isFailure THEN pending.release ELSE failed
    /\ UNCHANGED <<link, current, high, unit, written, home>>

-----------------------------------------------------------------------------
(* reconcile_interrupted_activation, and _confirm_probation.               *)

Reconcile_ClearsLatch ==
    /\ pc = "idle" /\ stage \in {None, "prepared", "may_have_run"}
    /\ ClearStage
    /\ Goto("channel")
    /\ UNCHANGED <<link, current, failed, high, unit, written, home>>

\* Nothing was left, or only a preparation.
Reconcile ==
    /\ pc = "idle" /\ stage \in {None, "prepared"}
    /\ ClearStage
    /\ Goto("channel")
    /\ UNCHANGED <<link, current, failed, high, unit, written, home>>

\* The swap never happened, or a rollback already put the previous release
\* back.  If it does not run it gets one more start.
ReconcileBack ==
    /\ pc = "idle" /\ stage = "may_have_run" /\ link = pending.prev
    /\ \/ Up(pending.prevImage) /\ BackDone(pending.failure) /\ Goto("channel")
       \/ ~Up(pending.prevImage) /\ Moves("retry")

RetryBack ==
    /\ pc = "retry"
    /\ \/ /\ RestartMiner
          /\ Goto("lookback")
          /\ UNCHANGED <<link, fileVars, home>>
       \/ Fault("systemctl") /\ Leaves

LookBack ==
    /\ pc = "lookback"
    /\ \/ Up(pending.prevImage) /\ BackDone(pending.failure) /\ Goto("channel")
       \/ ~Up(pending.prevImage) /\ Leaves

\* The release is selected: judge it if it started after the latch, and
\* start it otherwise.
ReconcileForward ==
    /\ pc = "idle" /\ stage = "may_have_run" /\ link = pending.release
    /\ Moves(IF Up(ImageOf[link]) /\ run.fresh THEN "settle" ELSE "start")

NewProbation_KeepsAge(forgiven) ==
    /\ stage' = "probation"
    /\ pending' = [pending EXCEPT !.probation =
         [Probation(restarts, forgiven) EXCEPT !.aged = pending.probation.aged]]
    /\ run' = [run EXCEPT !.same = TRUE, !.old = FALSE]
    /\ UNCHANGED <<link, current, failed, high, unit, restarts, written, home>>

\* The container that is up now is the one a later check must find.
NewProbation(forgiven) ==
    /\ stage' = "probation"
    /\ pending' = [pending EXCEPT !.probation = Probation(restarts, forgiven)]
    /\ run' = [run EXCEPT !.same = TRUE, !.old = FALSE]
    /\ UNCHANGED <<link, current, failed, high, unit, restarts, written, home>>

OnProbation == pc = "idle" /\ stage = "probation"
ProbationStands == OnProbation /\ link = pending.release /\ unit = "on"
Rebooted == pending.probation.rebooted
Aged == pending.probation.aged
SameContainer == Up(ImageOf[pending.release]) /\ run.same

ProbationHalts == OnProbation /\ link # pending.release /\ Leaves

ProbationWaits ==
    /\ OnProbation /\ link = pending.release
    /\ unit = "stopped" \/ (~Rebooted /\ SameContainer /\ ~Aged)
    /\ Leaves

ProbationRebooted ==
    /\ ProbationStands /\ Rebooted
    /\ \/ /\ Up(ImageOf[pending.release])
          /\ NewProbation(pending.probation.forgiven)
          /\ Ends
       \/ ~Up(ImageOf[pending.release]) /\ Moves("fail")

ProbationCommits ==
    /\ ProbationStands /\ ~Rebooted /\ SameContainer /\ Aged
    /\ Commit(pending.release, pending.schema, pending.verified)
    /\ Goto("channel")
    /\ UNCHANGED <<link, high, unit, written>>

\* The container changed: one restart is forgiven, once it is seen up.
ProbationChanged == ProbationStands /\ ~Rebooted /\ ~SameContainer /\ Moves("resee")

ProbationForgives ==
    /\ pc = "resee"
    /\ \/ /\ pending.probation.forgiven < 1 /\ Up(ImageOf[pending.release])
          /\ restarts - pending.probation.restarts <= 1
          /\ NewProbation(pending.probation.forgiven + 1)
          /\ Ends
       \/ /\ \/ pending.probation.forgiven >= 1 \/ ~Up(ImageOf[pending.release])
             \/ restarts - pending.probation.restarts > 1
          /\ Moves("fail")

-----------------------------------------------------------------------------
(* _check_channel, _activate and _prove_start.                             *)

\* No record, or one that is refused, held or deferred without a trace.
ChannelEnds == pc = "channel" /\ Leaves

\* _confirm_current: the channel names what miner/current selects.
ConfirmCurrent ==
    /\ pc = "channel" /\ link \in Releases /\ failed # link
    /\ \E schema \in Declared[link] :
         Commit(link, schema, current.target = link /\ current.verified)
    /\ Ends
    /\ UNCHANGED <<link, high, unit, written>>

\* _refuse_schema_decrease
SchemaKept(r, schema) ==
    /\ schema >= high.schema \/ ImageOf[r] = high.image
    /\ (current.target = link /\ current.verified)
         => schema >= current.schema \/ ImageOf[r] = Image(link)

\* _previous: what a rollback would put back.
Previous == [
    target |-> link,
    image |-> IF link # Legacy THEN Image(link) ELSE IF run # NoRun THEN run.image ELSE None,
    schema |-> IF link # Legacy /\ current.target = link /\ current.verified
               THEN current.schema ELSE Unknown]

Prepare ==
    /\ pc = "channel" /\ unit = "on"
    /\ \E r \in Releases \ {link, failed} : \E schema \in Declared[r] :
         /\ SchemaKept(r, schema)
         /\ pending' = [release |-> r, schema |-> schema, prev |-> Previous.target,
                        prevImage |-> Previous.image, prevSchema |-> Previous.schema,
                        verified |-> FALSE, failure |-> FALSE, probation |-> NoProbation]
    /\ stage' = "prepared"
    /\ Goto("pull")
    /\ UNCHANGED <<link, current, failed, high, unitVars, home>>

HasLabel == ImageOf[pending.release] \in Labelled
LabelFits ==
    IF HasLabel THEN Schema[ImageOf[pending.release]] = pending.schema
    ELSE ImageOf[pending.release] = pending.prevImage

\* The pull fails, or the restart gate closes during it.
PullFails ==
    /\ pc = "pull"
    /\ ClearStage
    /\ Ends
    /\ UNCHANGED <<link, current, failed, high, unit, written, home>>

\* The label is refused: the stage is cleared, then the release remembered.
LabelRefused ==
    /\ pc = "pull" /\ ~LabelFits
    /\ ClearStage
    /\ failed' = pending.release \/ (Fault("crash") /\ UNCHANGED failed)
    /\ Ends
    /\ UNCHANGED <<link, current, high, unit, written, home>>

\* The latch: from here the image may start at any moment.
Latch ==
    /\ pc = "pull" /\ LabelFits
    /\ stage' = "may_have_run"
    /\ pending' = [pending EXCEPT !.verified = HasLabel]
    /\ high' = IF HasLabel /\ pending.schema > high.schema
               THEN [schema |-> pending.schema, image |-> ImageOf[pending.release]] ELSE high
    /\ run' = Unmarked(run)
    /\ Goto("flip")
    /\ UNCHANGED <<link, current, failed, unit, restarts, written, home>>

Flip ==
    /\ pc = "flip"
    /\ link' = pending.release
    /\ Goto("start")
    /\ UNCHANGED <<fileVars, unitVars, home>>

\* _start: once, and once more if the container is from before the latch.
Start ==
    \E at \in {<<"start", "settle">>, <<"restart", "resettle">>} :
      /\ pc = at[1]
      /\ \/ /\ RestartMiner
            /\ Goto(at[2])
            /\ UNCHANGED <<link, fileVars, home>>
         \/ Fault("systemctl") /\ Moves("fail")

Started == Up(ImageOf[pending.release]) /\ run.fresh
FromBefore == run # NoRun /\ ~run.fresh

Settle ==
    /\ pc \in {"settle", "resettle"}
    /\ \/ /\ Started
          /\ run' = [run EXCEPT !.same = TRUE]
          /\ Goto("again")
          /\ UNCHANGED <<link, fileVars, unit, restarts, written, home>>
       \/ pc = "settle" /\ FromBefore /\ Moves("restart")
       \/ /\ ~Started /\ ~(pc = "settle" /\ FromBefore)
          /\ Moves("fail")

Again ==
    /\ pc = "again"
    /\ \/ SameContainer /\ NewProbation(0) /\ Ends
       \/ ~SameContainer /\ Moves("fail")

-----------------------------------------------------------------------------
(* _fail and _rollback.                                                    *)

RollbackAllowed_Unverified ==
    /\ pending.prevImage # None
    /\ \/ pending.prevImage = ImageOf[pending.release]
       \/ pending.prevSchema = Unknown \/ pending.prevSchema >= pending.schema

RollbackAllowed ==
    /\ pending.prevImage # None
    /\ \/ pending.prevImage = ImageOf[pending.release]
       \/ pending.prevSchema # Unknown /\ pending.prevSchema >= pending.schema

\* The failure is written with the stage, for the check that finishes it.
FailHalts ==
    /\ pc = "fail" /\ ~RollbackAllowed
    /\ pending' = [pending EXCEPT !.failure = TRUE]
    /\ Ends
    /\ UNCHANGED <<link, stage, current, failed, high, unitVars, home>>

\* The previous release cannot be selected, or its image did not come back after
\* two starts.
RollbackHalts ==
    /\ pending' = [pending EXCEPT !.failure = pending.failure \/ ~operator]
    /\ Ends
    /\ UNCHANGED <<link, stage, current, failed, high, unitVars, home>>

Rollback ==
    /\ pc = "fail" /\ RollbackAllowed
    /\ \/ /\ link' = pending.prev
          /\ Goto("back1")
          /\ UNCHANGED <<fileVars, unitVars, home>>
       \/ Fault("disk") /\ RollbackHalts

StartBack ==
    /\ pc \in {"back1", "back2"}
    /\ \/ /\ RestartMiner
          /\ Goto(IF pc = "back1" THEN "look1" ELSE "look2")
          /\ UNCHANGED <<link, fileVars, home>>
       \/ pc = "back1" /\ Fault("systemctl") /\ Moves("back2")
       \/ pc = "back2" /\ Fault("systemctl") /\ RollbackHalts

SettleBack ==
    /\ pc \in {"look1", "look2"}
    /\ \/ Up(pending.prevImage) /\ BackDone(TRUE) /\ Ends
       \/ /\ ~Up(pending.prevImage)
          /\ \/ pc = "look1" /\ Moves("back2")
             \/ pc = "look2" /\ RollbackHalts

-----------------------------------------------------------------------------
(* resolve.                                                                *)

Command == Fault("resolve") /\ pc = "idle"
ToResolve == Command /\ stage \in {"may_have_run", "probation"}

ResolveRetry ==
    /\ Command /\ failed # None
    /\ failed' = None
    /\ Ends
    /\ UNCHANGED <<link, stage, pending, current, high, unitVars, home>>

\* The release is remembered first, the stage cleared after it.
ResolveAbandon ==
    /\ ToResolve
    /\ failed' = pending.release
    /\ \/ ClearStage /\ home' = link
       \/ Fault("crash") /\ UNCHANGED <<stage, pending, run, restarts, home>>
    /\ Ends
    /\ UNCHANGED <<link, current, high, unit, written>>

ResolveAccept ==
    /\ ToResolve /\ Up(ImageOf[pending.release])
    /\ link' = pending.release
    /\ \/ Goto("accept")
       \/ Fault("systemctl") /\ link # pending.release /\ Ends
    /\ UNCHANGED <<fileVars, unitVars, home>>

AcceptCommits ==
    /\ pc = "accept"
    /\ Commit(pending.release, pending.schema, pending.verified)
    /\ Ends
    /\ UNCHANGED <<link, high, unit, written>>

ResolveRestore ==
    /\ ToResolve
    /\ link' = pending.prev /\ written' = Unknown
    /\ pc' = "back1" /\ operator' = TRUE
    /\ UNCHANGED <<fileVars, unit, run, restarts, home>>

-----------------------------------------------------------------------------
Init ==
    /\ link = Legacy /\ home = Legacy
    /\ stage = None /\ pending = NoPending /\ current = NoCurrent
    /\ failed = None /\ high = NoHigh
    /\ unit = "on" /\ restarts = 0
    /\ run = [image |-> LegacyImage, fresh |-> FALSE, same |-> FALSE, old |-> FALSE]
    /\ written = Schema[LegacyImage]
    /\ pc = "idle" /\ operator = FALSE

\* The updater's own steps: the timer starts every check.
Check ==
    \/ Reconcile \/ ReconcileBack \/ RetryBack \/ LookBack \/ ReconcileForward
    \/ ProbationHalts \/ ProbationWaits \/ ProbationRebooted \/ ProbationCommits
    \/ ProbationChanged \/ ProbationForgives
    \/ ChannelEnds \/ ConfirmCurrent \/ Prepare \/ PullFails \/ LabelRefused \/ Latch \/ Flip
    \/ Start \/ Settle \/ Again \/ FailHalts \/ Rollback \/ StartBack \/ SettleBack
    \/ AcceptCommits

Next ==
    \/ Check
    \/ Exits \/ AutoRestart \/ Stops \/ StartsByHand \/ Tick \/ Crash \/ Reboot
    \/ ResolveRetry \/ ResolveAbandon \/ ResolveAccept \/ ResolveRestore

Spec == Init /\ [][Next]_vars
FairSpec == Spec /\ WF_vars(Check)

-----------------------------------------------------------------------------
(* Properties.                                                             *)

\* The container that runs reads the state that earlier images may have
\* migrated, until the operator orders a rollback: no rollback of the
\* updater's own and no later release takes the schema down.
RunsReadable == run # NoRun => Schema[run.image] >= written

\* While miner/current selects a release that nobody committed, the state
\* file says that it may have run, whatever crashed in between.
MayRunIsLatched == link # home => stage \in {"may_have_run", "probation"}

\* A check takes a release out of probation only when the container that is
\* up has been up for a whole probation period.
CommitsSteady == [][ProbationCommits => run.old]_vars

\* "If it does not come back, the check halts; a later check starts the
\* previous release once more, and if it then runs, clears the halt"
\* (docs/MINER_AUTO_UPDATE.md): no halt outlasts a previous release that is
\* selected and up for good.
HaltClears ==
    []<>~(pc = "idle" /\ stage # None /\ link = pending.prev /\ Up(pending.prevImage))
=============================================================================

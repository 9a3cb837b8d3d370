-------------------------- MODULE MinerUpdateProofs -------------------------
(***************************************************************************)
(* That an uncommitted release is selected only under the latch, and that  *)
(* a release that runs can read the state it finds, for all releases,      *)
(* images, schemas and faults.                                             *)
(***************************************************************************)
EXTENDS MinerUpdate, TLAPS

Latched == stage \in {"may_have_run", "probation"}

\* Where the process is tells which stage the file is in and what
\* miner/current selects; a pending record names the committed target.
Places ==
    /\ pc = "channel" => stage = None
    /\ pc = "pull" => stage = "prepared"
    /\ pc \notin {"idle", "channel", "pull"} => Latched
    /\ pc \in {"retry", "lookback", "back1", "look1", "back2", "look2"} => link = pending.prev
    /\ pc = "accept" => link = pending.release
    /\ stage # None => pending.prev = home

IInv == TypeOK /\ Places /\ MayRunIsLatched

-----------------------------------------------------------------------------
USE DEF None, Unknown

\* A pending record that the stage vouches for has its fields.
LEMMA PendingTyped ==
    ASSUME TypeOK, stage # None
    PROVE  /\ pending \in Pendings
           /\ pending # NoPending
BY DEF TypeOK

\* A record that carries a release is not the empty one.
LEMMA RecordIsNotEmpty ==
    ASSUME NEW p \in Pendings
    PROVE  p # NoPending
<1>1. p.release \in Releases
  BY DEF Pendings
<1>2. NoPending.release = None
  BY DEF NoPending
<1> QED
  BY <1>1, <1>2, ReleaseAssumption

\* Releases and the launcher of the unit itself have an image.
LEMMA ImageTyped ==
    ASSUME NEW t \in Targets
    PROVE  Image(t) \in Images
BY ReleaseAssumption DEF Targets, Image

\* The schema of an image is one of those the model speaks of.
LEMMA SchemaTyped ==
    ASSUME NEW i \in Images
    PROVE  Schema[i] \in Schemas
BY DEF Schemas

\* Schemas are numbers.
LEMMA SchemasAreNumbers == Schemas \subseteq Nat
<1>1. \A i \in Images : Schema[i] \in Nat
  BY ReleaseAssumption
<1>2. \A r \in Releases : Declared[r] \subseteq Nat
  BY ReleaseAssumption
<1> QED
  BY <1>1, <1>2 DEF Schemas

\* A container start keeps the unit's types.
LEMMA BeginsTyped ==
    ASSUME TypeOK, NEW n \in 0..MaxRestarts, Begins(n)
    PROVE  run' \in Runs /\ restarts' \in 0..MaxRestarts /\ written' \in Schemas \cup {Unknown}
<1>1. Image(link) \in Images
  BY ImageTyped DEF TypeOK
<1>2. Schema[Image(link)] \in Schemas
  BY <1>1, SchemaTyped
<1> QED
  BY <1>1, <1>2 DEF Begins, Runs, TypeOK

\* The initial state satisfies the inductive invariant.
LEMMA InitIInv == Init => IInv
<1> SUFFICES ASSUME Init PROVE IInv
  OBVIOUS
<1>1. Schema[LegacyImage] \in Schemas
  BY SchemaTyped, ReleaseAssumption
<1>2. TypeOK
  <2>1. current \in [target : Targets, schema : Schemas \cup {0}, verified : BOOLEAN]
    BY DEF Init, NoCurrent, Targets
  <2>2. run \in Runs
    BY ReleaseAssumption DEF Init, Runs
  <2>3. restarts \in 0..MaxRestarts
    BY ReleaseAssumption DEF Init
  <2> QED
    BY <1>1, <2>1, <2>2, <2>3, Zenon DEF Init, TypeOK, Targets, PC
<1>3. Places /\ MayRunIsLatched
  BY DEF Init, Places, MayRunIsLatched
<1> QED
  BY <1>2, <1>3 DEF IInv

-----------------------------------------------------------------------------
\* Types, action by action.

\* Clearing the stage.
LEMMA ClearStageTyped ==
    ASSUME TypeOK, ClearStage
    PROVE  /\ stage' = None /\ pending' = NoPending
           /\ run' \in Runs \cup {NoRun} /\ (run = NoRun => run' = NoRun)
           /\ restarts' \in 0..MaxRestarts
<1>1. Unmarked(run) \in Runs \cup {NoRun} /\ (run = NoRun => Unmarked(run) = NoRun)
  BY Zenon DEF TypeOK, Unmarked, Runs
<1> QED
  BY <1>1, ReleaseAssumption DEF ClearStage

\* A restart by the updater.
LEMMA RestartMinerTyped ==
    ASSUME TypeOK, RestartMiner
    PROVE  /\ unit' = "on" /\ run' \in Runs \cup {NoRun}
           /\ restarts' \in 0..MaxRestarts /\ written' \in Schemas \cup {Unknown}
<1>1. 0 \in 0..MaxRestarts
  BY ReleaseAssumption
<1>2. CASE Begins(0)
  BY <1>1, <1>2, BeginsTyped DEF RestartMiner
<1>3. CASE run' = NoRun /\ restarts' = 0 /\ UNCHANGED written
  BY <1>1, <1>3 DEF RestartMiner, TypeOK
<1> QED
  BY <1>2, <1>3 DEF RestartMiner

\* A probation that begins or is renewed.
LEMMA NewProbationTyped ==
    ASSUME TypeOK, stage # None, run # NoRun, NEW n \in 0..1, NewProbation(n)
    PROVE  /\ stage' = "probation" /\ pending' \in Pendings /\ pending' # NoPending
           /\ pending'.probation.forgiven >= 0 /\ pending'.prev = pending.prev
           /\ run' \in Runs
<1>1. pending \in Pendings
  BY PendingTyped
<1>2. Probation(restarts, n) \in
        [restarts : 0..MaxRestarts, forgiven : -1..1, rebooted : BOOLEAN, aged : BOOLEAN]
  BY DEF Probation, TypeOK
<1>3. pending' \in Pendings /\ pending'.prev = pending.prev
  BY <1>1, <1>2 DEF NewProbation, Pendings
<1>4. pending'.probation.forgiven >= 0
  BY <1>1 DEF NewProbation, Pendings, Probation
<1>5. run' \in Runs
  BY Zenon DEF NewProbation, TypeOK, Runs
<1> QED
  BY <1>3, <1>4, <1>5, RecordIsNotEmpty DEF NewProbation

\* A step that only moves the process keeps everything else.
LEMMA MovesKeep ==
    ASSUME IInv, NEW p \in PC, Moves(p)
    PROVE  /\ TypeOK' /\ MayRunIsLatched'
           /\ pc' = p /\ UNCHANGED <<link, stage, pending, home>>
BY DEF IInv, TypeOK, MayRunIsLatched, Moves, Goto, fileVars, unitVars

\* A check that ends and writes nothing keeps the invariant.
LEMMA LeavesKeeps ==
    ASSUME IInv, Leaves
    PROVE  IInv'
<1>1. TypeOK'
  BY ZenonT(40) DEF IInv, TypeOK, Leaves, Ends, fileVars, unitVars, PC
<1>2. Places' /\ MayRunIsLatched'
  BY DEF IInv, Places, Latched, MayRunIsLatched, Leaves, Ends, fileVars
<1> QED
  BY <1>1, <1>2 DEF IInv

\* A step that clears the stage while the committed target is selected.
LEMMA ClearsKeeps ==
    ASSUME IInv, ClearStage, link' = home', link' \in Targets,
           UNCHANGED <<high, unit, written>>,
           failed' \in Releases \cup {None},
           current' \in [target : Targets, schema : Schemas \cup {0}, verified : BOOLEAN],
           operator' \in BOOLEAN, pc' \in {"idle", "channel"}
    PROVE  IInv'
<1>1. TypeOK'
  BY ClearStageTyped DEF IInv, TypeOK, PC
<1>2. Places' /\ MayRunIsLatched'
  BY DEF IInv, ClearStage, Places, Latched, MayRunIsLatched
<1> QED
  BY <1>1, <1>2 DEF IInv

\* A restart by the updater that leads to another place.
LEMMA RestartKeeps ==
    ASSUME IInv, RestartMiner, NEW p \in PC, Goto(p), UNCHANGED <<link, fileVars, home>>
    PROVE  /\ TypeOK' /\ MayRunIsLatched'
           /\ pc' = p /\ UNCHANGED <<link, stage, pending, home>>
BY RestartMinerTyped DEF IInv, TypeOK, MayRunIsLatched, Goto, fileVars

\* The steps of the unit, the host and the clock keep the invariant.
LEMMA UnitSteps ==
    ASSUME IInv, Exits \/ AutoRestart \/ Stops \/ StartsByHand \/ Tick \/ Crash \/ Reboot
    PROVE  IInv'
<1> USE DEF IInv
<1>0. 0 \in 0..MaxRestarts
  BY ReleaseAssumption
<1>1. CASE Exits
  BY <1>1 DEF Exits, TypeOK, Places, Latched, MayRunIsLatched, fileVars, updaterVars
<1>2. CASE AutoRestart
  <2>2. run' \in Runs /\ restarts' \in 0..MaxRestarts /\ written' \in Schemas \cup {Unknown}
    <3>1. CASE Begins(0)
      BY <1>0, <3>1, BeginsTyped
    <3>2. CASE restarts < MaxRestarts /\ Begins(restarts + 1)
      <4>1. restarts + 1 \in 0..MaxRestarts
        BY <3>2, ReleaseAssumption DEF TypeOK
      <4> QED
        BY <3>2, <4>1, BeginsTyped
    <3> QED
      BY <1>2, <3>1, <3>2 DEF AutoRestart
  <2> QED
    BY <1>2, <2>2 DEF AutoRestart, TypeOK, Places, Latched, MayRunIsLatched, fileVars, updaterVars
<1>3. CASE Stops
  BY <1>3 DEF Stops, TypeOK, Places, Latched, MayRunIsLatched, fileVars, updaterVars
<1>4. CASE StartsByHand
  BY <1>0, <1>4, BeginsTyped
     DEF StartsByHand, TypeOK, Places, Latched, MayRunIsLatched, fileVars, updaterVars
<1>5. CASE Tick
  <2>1. pending \in Pendings
    BY <1>5, PendingTyped DEF Tick
  <2>2. /\ pending' \in Pendings /\ pending'.prev = pending.prev
        /\ pending'.release = pending.release
        /\ pending'.probation.forgiven = pending.probation.forgiven
    BY <1>5, <2>1, Zenon DEF Tick, Pendings
  <2>3. pending' # NoPending
    BY <2>2, RecordIsNotEmpty
  <2>4. run' \in Runs \cup {NoRun} /\ (run = NoRun => run' = NoRun)
    BY <1>5, Zenon DEF Tick, TypeOK, Runs
  <2> QED
    BY <1>5, <2>2, <2>3, <2>4 DEF Tick, TypeOK, Places, Latched, MayRunIsLatched, updaterVars
<1>6. CASE Crash
  <2>1. TypeOK'
    BY <1>6, ZenonT(40) DEF Crash, TypeOK, fileVars, unitVars, PC
  <2>2. Places' /\ MayRunIsLatched'
    BY <1>6 DEF Crash, Places, Latched, MayRunIsLatched, fileVars
  <2> QED
    BY <2>1, <2>2
<1>7. CASE Reboot
  <2>1. run' \in Runs /\ restarts' \in 0..MaxRestarts /\ written' \in Schemas \cup {Unknown}
    BY <1>0, <1>7, BeginsTyped DEF Reboot
  <2>2. CASE stage = "probation"
    <3>1. pending \in Pendings
      BY <2>2, PendingTyped
    <3>2. /\ pending' \in Pendings /\ pending'.prev = pending.prev
          /\ pending'.probation.forgiven = pending.probation.forgiven
      BY <1>7, <2>2, <3>1, Zenon DEF Reboot, Pendings
    <3>3. pending' # NoPending
      BY <3>2, RecordIsNotEmpty
    <3> QED
      BY <1>7, <2>1, <2>2, <3>2, <3>3, Zenon DEF Reboot, TypeOK, Places, Latched, MayRunIsLatched, PC
  <2>3. CASE stage # "probation"
    BY <1>7, <2>1, <2>3, Zenon DEF Reboot, TypeOK, Places, Latched, MayRunIsLatched, PC
  <2> QED
    BY <2>2, <2>3
<1> QED
  BY <1>1, <1>2, <1>3, <1>4, <1>5, <1>6, <1>7

\* The steps that settle what an earlier check left keep the invariant.
LEMMA ReconcileSteps ==
    ASSUME IInv, Reconcile \/ ReconcileBack \/ RetryBack \/ LookBack \/ ReconcileForward
    PROVE  IInv'
<1> USE DEF IInv
<1>1. CASE Reconcile
  BY <1>1, ClearsKeeps DEF Reconcile, Goto, TypeOK, MayRunIsLatched
<1>2. ASSUME stage # None, link = pending.prev, BackDone(pending.failure), Goto("channel")
      PROVE  IInv'
  <2>1. pending.release \in Releases /\ link = home
    BY <1>2, PendingTyped DEF Places, Pendings
  <2> QED
    BY <1>2, <2>1, ClearsKeeps DEF BackDone, Goto, TypeOK
<1>3. CASE ReconcileBack
  <2>1. CASE Moves("retry")
    BY <1>3, <2>1, MovesKeep DEF ReconcileBack, Places, Latched, PC
  <2> QED
    BY <1>2, <1>3, <2>1 DEF ReconcileBack
<1>4. CASE RetryBack
  <2>1. CASE RestartMiner /\ Goto("lookback") /\ UNCHANGED <<link, fileVars, home>>
    BY <1>4, <2>1, RestartKeeps DEF RetryBack, Places, Latched, PC
  <2> QED
    BY <1>4, <2>1, LeavesKeeps DEF RetryBack
<1>5. CASE LookBack
  BY <1>2, <1>5, LeavesKeeps DEF LookBack, Places, Latched
<1>6. CASE ReconcileForward
  <2>1. \E p \in {"settle", "start"} : Moves(p)
    BY <1>6 DEF ReconcileForward
  <2> QED
    BY <1>6, <2>1, MovesKeep DEF ReconcileForward, Places, Latched, PC
<1> QED
  BY <1>1, <1>3, <1>4, <1>5, <1>6

\* A probation that begins or is renewed ends the check and keeps the
\* invariant.
LEMMA ProbationKeeps ==
    ASSUME IInv, stage # None, Latched, run # NoRun, NEW n \in 0..1, NewProbation(n), Ends
    PROVE  IInv'
<1>1. TypeOK'
  BY NewProbationTyped, Zenon DEF IInv, TypeOK, NewProbation, Ends, PC
<1>2. Places' /\ MayRunIsLatched'
  BY NewProbationTyped DEF IInv, Places, Latched, MayRunIsLatched, NewProbation, Ends
<1> QED
  BY <1>1, <1>2 DEF IInv

\* The steps of a probation keep the invariant.
LEMMA ProbationSteps ==
    ASSUME IInv,
           \/ ProbationHalts \/ ProbationWaits \/ ProbationRebooted \/ ProbationCommits
           \/ ProbationChanged \/ ProbationForgives
    PROVE  IInv'
<1> USE DEF IInv
<1>1. CASE ProbationHalts \/ ProbationWaits
  BY <1>1, LeavesKeeps DEF ProbationHalts, ProbationWaits
<1>2. ASSUME Latched, NEW p \in {"resee", "fail"}, Moves(p)
      PROVE  IInv'
  BY <1>2, MovesKeep DEF Places, Latched, PC
<1>3. CASE ProbationRebooted
  <2>1. stage = "probation" /\ Latched
    BY <1>3 DEF ProbationRebooted, ProbationStands, OnProbation, Latched
  <2>2. pending.probation.forgiven \in 0..1
    BY <2>1, PendingTyped DEF TypeOK, Pendings
  <2>3. CASE /\ Up(ImageOf[pending.release]) /\ NewProbation(pending.probation.forgiven) /\ Ends
    BY <2>1, <2>2, <2>3, ProbationKeeps, ZenonT(40) DEF Up
  <2> QED
    BY <1>2, <1>3, <2>1, <2>3 DEF ProbationRebooted
<1>4. CASE ProbationCommits
  <2>1. pending \in Pendings /\ link = pending.release
    BY <1>4, PendingTyped DEF ProbationCommits, ProbationStands, OnProbation
  <2>2. current' \in [target : Targets, schema : Schemas \cup {0}, verified : BOOLEAN]
    BY <1>4, <2>1 DEF ProbationCommits, Commit, Pendings, Targets
  <2> QED
    BY <1>4, <2>1, <2>2, ClearsKeeps DEF ProbationCommits, Commit, Goto, TypeOK
<1>5. CASE ProbationChanged
  BY <1>2, <1>5 DEF ProbationChanged, ProbationStands, OnProbation, Latched
<1>6. CASE ProbationForgives
  <2>1. stage # None /\ Latched
    BY <1>6 DEF ProbationForgives, Places, Latched
  <2>2. CASE /\ pending.probation.forgiven < 1 /\ Up(ImageOf[pending.release])
             /\ NewProbation(pending.probation.forgiven + 1) /\ Ends
    <3>1. pending.probation.forgiven + 1 \in 0..1
      BY <2>1, <2>2, PendingTyped DEF Pendings
    <3> QED
      BY <2>1, <2>2, <3>1, ProbationKeeps DEF Up
  <2> QED
    BY <1>2, <1>6, <2>1, <2>2 DEF ProbationForgives
<1> QED
  BY <1>1, <1>3, <1>4, <1>5, <1>6

\* What a rollback would put back has its types.
LEMMA PreviousTyped ==
    ASSUME TypeOK
    PROVE  /\ Previous.target = link /\ Previous.image \in Images \cup {None}
           /\ Previous.schema \in Schemas \cup {Unknown}
<1>1. run # NoRun => run.image \in Images
  BY DEF TypeOK, Runs
<1>2. link # Legacy => Image(link) \in Images
  BY ImageTyped DEF TypeOK
<1>3. current.schema \in Schemas \cup {Unknown}
  BY DEF TypeOK
<1> QED
  BY <1>1, <1>2, <1>3 DEF Previous

\* The steps from the channel to the flip keep the invariant.
LEMMA ChannelSteps ==
    ASSUME IInv,
           \/ ChannelEnds \/ ConfirmCurrent \/ Prepare \/ PullFails \/ LabelRefused \/ Latch
           \/ Flip
    PROVE  IInv'
<1> USE DEF IInv
<1>1. CASE ChannelEnds
  BY <1>1, LeavesKeeps DEF ChannelEnds
<1>2. CASE ConfirmCurrent
  <2>1. PICK schema \in Declared[link] :
          Commit(link, schema, current.target = link /\ current.verified)
    BY <1>2 DEF ConfirmCurrent
  <2>2. schema \in Schemas
    BY <1>2, <2>1 DEF ConfirmCurrent, Schemas
  <2>3. current' \in [target : Targets, schema : Schemas \cup {0}, verified : BOOLEAN]
    BY <2>1, <2>2, ZenonT(40) DEF Commit, TypeOK
  <2> QED
    BY <1>2, <2>1, <2>3, ClearsKeeps, ZenonT(40) DEF ConfirmCurrent, Commit, Ends, TypeOK
<1>3. CASE Prepare
  <2>1. PICK r \in Releases : \E schema \in Declared[r] :
          pending' = [release |-> r, schema |-> schema, prev |-> Previous.target,
                      prevImage |-> Previous.image, prevSchema |-> Previous.schema,
                      verified |-> FALSE, failure |-> FALSE, probation |-> NoProbation]
    BY <1>3, Zenon DEF Prepare
  <2>2. Declared[r] \subseteq Schemas
    BY DEF Schemas
  <2>3. NoProbation \in
          [restarts : 0..MaxRestarts, forgiven : -1..1, rebooted : BOOLEAN, aged : BOOLEAN]
    BY ReleaseAssumption, SMTT(30) DEF NoProbation, Probation
  <2>4. pending' \in Pendings /\ pending'.prev = link
    BY <2>1, <2>2, <2>3, PreviousTyped, SMTT(30) DEF Pendings, TypeOK
  <2>5. link = home
    BY <1>3, Zenon DEF Prepare, Places, MayRunIsLatched
  <2>6. pending' # NoPending
    BY <2>4, RecordIsNotEmpty, ZenonT(40)
  <2> QED
    BY <1>3, <2>4, <2>5, <2>6
       DEF Prepare, TypeOK, Places, Latched, MayRunIsLatched, Goto, unitVars, PC
<1>4. CASE PullFails
  BY <1>4, ClearsKeeps, Zenon DEF PullFails, Ends, TypeOK, Places, MayRunIsLatched
<1>5. CASE LabelRefused
  <2>1. pending.release \in Releases
    BY <1>5, PendingTyped DEF LabelRefused, Places, Pendings
  <2> QED
    BY <1>5, <2>1, ClearsKeeps, Zenon DEF LabelRefused, Ends, TypeOK, Places, MayRunIsLatched
<1>6. CASE Latch
  <2>1. pending \in Pendings /\ stage = "prepared"
    BY <1>6, PendingTyped DEF Latch, Places
  <2>2. pending' \in Pendings /\ pending'.prev = pending.prev
    <3>1. HasLabel \in BOOLEAN
      BY DEF HasLabel
    <3> QED
      BY <1>6, <2>1, <3>1 DEF Latch, Pendings
  <2>3. pending' # NoPending
    BY <2>2, RecordIsNotEmpty
  <2>4. high' \in {NoHigh} \cup [schema : Schemas, image : Images]
    BY <1>6, <2>1, ReleaseAssumption DEF Latch, Pendings, TypeOK
  <2>5. run' \in Runs \cup {NoRun} /\ (run = NoRun => run' = NoRun)
    BY <1>6, Zenon DEF Latch, Unmarked, TypeOK, Runs
  <2> QED
    BY <1>6, <2>1, <2>2, <2>3, <2>4, <2>5
       DEF Latch, TypeOK, Places, Latched, MayRunIsLatched, Goto, PC
<1>7. CASE Flip
  <2>1. pending.release \in Targets /\ Latched
    BY <1>7, PendingTyped DEF Flip, Places, Latched, Pendings, Targets
  <2> QED
    BY <1>7, <2>1 DEF Flip, TypeOK, Places, Latched, MayRunIsLatched, Goto, fileVars, unitVars, PC
<1> QED
  BY <1>1, <1>2, <1>3, <1>4, <1>5, <1>6, <1>7

\* The steps that start and judge a release keep the invariant.
LEMMA StartSteps ==
    ASSUME IInv, Start \/ Settle \/ Again
    PROVE  IInv'
<1> USE DEF IInv
<1>1. Latched /\ stage # None
  BY DEF Start, Settle, Again, Places, Latched
<1>2. ASSUME NEW p \in {"restart", "fail"}, Moves(p)
      PROVE  IInv'
  BY <1>1, <1>2, MovesKeep DEF Places, Latched, PC
<1>3. CASE Start
  <2>1. ASSUME NEW p \in {"settle", "resettle"}, RestartMiner, Goto(p),
               UNCHANGED <<link, fileVars, home>>
        PROVE  IInv'
    BY <1>1, <2>1, RestartKeeps DEF Places, Latched, PC
  <2> QED
    BY <1>2, <1>3, <2>1 DEF Start
<1>4. CASE Settle
  <2>1. CASE /\ Started /\ run' = [run EXCEPT !.same = TRUE] /\ Goto("again")
             /\ UNCHANGED <<link, fileVars, unit, restarts, written, home>>
    <3>1. run' \in Runs /\ run # NoRun
      BY <2>1, Zenon DEF Started, Up, TypeOK, Runs
    <3> QED
      BY <1>1, <2>1, <3>1
         DEF TypeOK, Places, Latched, MayRunIsLatched, Goto, fileVars, PC
  <2> QED
    BY <1>2, <1>4, <2>1 DEF Settle
<1>5. CASE Again
  <2>1. CASE SameContainer /\ NewProbation(0) /\ Ends
    BY <1>1, <2>1, ProbationKeeps DEF SameContainer, Up
  <2> QED
    BY <1>2, <1>5, <2>1 DEF Again
<1> QED
  BY <1>3, <1>4, <1>5

\* Writing a failure into the pending record and ending keeps the invariant.
LEMMA FailureKeeps ==
    ASSUME IInv, stage # None, NEW b \in BOOLEAN,
           pending' = [pending EXCEPT !.failure = b], Ends,
           UNCHANGED <<link, stage, current, failed, high, unitVars, home>>
    PROVE  IInv'
<1>1. pending \in Pendings
  BY PendingTyped DEF IInv
<1>2. /\ pending' \in Pendings /\ pending'.prev = pending.prev
      /\ pending'.probation = pending.probation
  BY <1>1 DEF Pendings
<1>3. pending' # NoPending
  BY <1>2, RecordIsNotEmpty
<1> QED
  BY <1>2, <1>3, ZenonT(40) DEF IInv, TypeOK, Places, Latched, MayRunIsLatched, Ends, unitVars, PC

\* The steps of a failure and of a rollback keep the invariant.
LEMMA BackSteps ==
    ASSUME IInv, FailHalts \/ Rollback \/ StartBack \/ SettleBack
    PROVE  IInv'
<1> USE DEF IInv
<1>1. Latched /\ stage # None /\ pending \in Pendings
  <2>1. Latched /\ stage # None
    BY Zenon DEF FailHalts, Rollback, StartBack, SettleBack, Places, Latched
  <2> QED
    BY <2>1, PendingTyped
<1>2. ASSUME RollbackHalts
      PROVE  IInv'
  <2>1. (pending.failure \/ ~operator) \in BOOLEAN
    OBVIOUS
  <2> QED
    BY <1>1, <1>2, <2>1, FailureKeeps, Zenon DEF RollbackHalts
<1>3. CASE FailHalts
  BY <1>1, <1>3, FailureKeeps, Zenon DEF FailHalts
<1>4. CASE Rollback
  <2>1. pending.prev \in Targets
    BY <1>1 DEF Pendings
  <2>2. CASE link' = pending.prev /\ Goto("back1") /\ UNCHANGED <<fileVars, unitVars, home>>
    BY <1>1, <1>4, <2>1, <2>2
       DEF Rollback, TypeOK, Places, Latched, MayRunIsLatched, Goto, fileVars, unitVars, PC
  <2> QED
    BY <1>2, <1>4, <2>2, ZenonT(40) DEF Rollback
<1>5. ASSUME link = pending.prev, Moves("back2")
      PROVE  IInv'
  BY <1>1, <1>5, MovesKeep DEF Places, Latched, PC
<1>6. CASE StartBack
  <2>1. link = pending.prev
    BY <1>6 DEF StartBack, Places
  <2>2. ASSUME NEW p \in {"look1", "look2"}, RestartMiner, Goto(p),
               UNCHANGED <<link, fileVars, home>>
        PROVE  IInv'
    BY <1>1, <2>1, <2>2, RestartKeeps DEF Places, Latched, PC
  <2> QED
    BY <1>2, <1>5, <1>6, <2>1, <2>2 DEF StartBack
<1>7. CASE SettleBack
  <2>1. link = pending.prev /\ link = home
    BY <1>1, <1>7 DEF SettleBack, Places
  <2>2. CASE BackDone(TRUE) /\ Ends
    <3>1. pending.release \in Releases
      BY <1>1 DEF Pendings
    <3> QED
      BY <2>1, <2>2, <3>1, ClearsKeeps, Zenon DEF BackDone, Ends, TypeOK
  <2> QED
    BY <1>2, <1>5, <1>7, <2>1, <2>2, Zenon DEF SettleBack
<1> QED
  BY <1>3, <1>4, <1>6, <1>7

\* The operator's commands keep the invariant.
LEMMA ResolveSteps ==
    ASSUME IInv,
           ResolveRetry \/ ResolveAbandon \/ ResolveAccept \/ AcceptCommits \/ ResolveRestore
    PROVE  IInv'
<1> USE DEF IInv
<1>1. CASE ResolveRetry
  BY <1>1, ZenonT(40) DEF ResolveRetry, Command, Ends, TypeOK, Places, Latched, MayRunIsLatched, unitVars, PC
<1>2. ASSUME ToResolve \/ AcceptCommits
      PROVE  Latched /\ stage # None /\ pending \in Pendings
  <2>1. Latched /\ stage # None
    BY <1>2 DEF ToResolve, AcceptCommits, Places, Latched
  <2> QED
    BY <2>1, PendingTyped
<1>3. ASSUME pending \in Pendings
      PROVE  pending.release \in Releases /\ pending.prev \in Targets
  BY <1>3 DEF Pendings
<1>4. CASE ResolveAbandon
  <2>1. pending.release \in Releases
    BY <1>2, <1>3, <1>4 DEF ResolveAbandon
  <2>2. CASE ClearStage /\ home' = link
    BY <1>4, <2>1, <2>2, ClearsKeeps, ZenonT(40) DEF ResolveAbandon, Ends, TypeOK
  <2>3. CASE UNCHANGED <<stage, pending, run, restarts, home>>
    BY <1>4, <2>1, <2>3, ZenonT(40)
       DEF ResolveAbandon, Ends, TypeOK, Places, Latched, MayRunIsLatched, PC
  <2> QED
    BY <1>4, <2>2, <2>3 DEF ResolveAbandon
<1>5. CASE ResolveAccept
  <2>1. Latched /\ stage # None /\ pending.release \in Targets
    BY <1>2, <1>3, <1>5, Zenon DEF ResolveAccept, Targets
  <2>2. /\ pc' \in {"idle", "accept"} /\ operator' \in BOOLEAN /\ link' = pending.release
        /\ UNCHANGED <<stage, pending, current, failed, high, unitVars, home>>
    BY <1>5, Zenon DEF ResolveAccept, Goto, Ends, TypeOK, fileVars
  <2>3. TypeOK'
    BY <2>1, <2>2 DEF TypeOK, unitVars, PC
  <2>4. Places' /\ MayRunIsLatched'
    BY <2>1, <2>2 DEF Places, Latched, MayRunIsLatched
  <2> QED
    BY <2>3, <2>4
<1>6. CASE AcceptCommits
  <2>1. pending \in Pendings /\ link = pending.release
    BY <1>2, <1>6 DEF AcceptCommits, Places
  <2>2. current' \in [target : Targets, schema : Schemas \cup {0}, verified : BOOLEAN]
    BY <1>6, <2>1 DEF AcceptCommits, Commit, Pendings, Targets
  <2> QED
    BY <1>6, <2>1, <2>2, ClearsKeeps, ZenonT(40) DEF AcceptCommits, Commit, Ends, TypeOK
<1>7. CASE ResolveRestore
  <2>1. Latched /\ stage # None /\ pending.prev \in Targets
    BY <1>2, <1>3, <1>7, ZenonT(40) DEF ResolveRestore
  <2>2. TypeOK'
    BY <1>7, <2>1 DEF ResolveRestore, TypeOK, fileVars, PC
  <2>3. Places' /\ MayRunIsLatched'
    BY <1>7, <2>1, Zenon DEF ResolveRestore, Places, Latched, MayRunIsLatched, fileVars
  <2> QED
    BY <2>2, <2>3
<1> QED
  BY <1>1, <1>4, <1>5, <1>6, <1>7

\* Every step keeps the inductive invariant.
LEMMA NextIInv == IInv /\ [Next]_vars => IInv'
<1> SUFFICES ASSUME IInv, [Next]_vars PROVE IInv'
  BY ZenonT(40)
<1>1. CASE UNCHANGED vars
  <2>1. TypeOK'
    BY <1>1, ZenonT(40) DEF IInv, TypeOK, vars, fileVars, unitVars, updaterVars
  <2>2. Places'
    BY <1>1 DEF IInv, Places, Latched, vars, fileVars, unitVars, updaterVars
  <2>3. MayRunIsLatched'
    BY <1>1 DEF IInv, MayRunIsLatched, Latched, vars, fileVars, unitVars, updaterVars
  <2> QED
    BY <2>1, <2>2, <2>3, ZenonT(40) DEF IInv
<1>2. CASE Next
  BY <1>2, UnitSteps, ReconcileSteps, ProbationSteps, ChannelSteps, StartSteps, BackSteps,
     ResolveSteps, Zenon DEF Next, Check
<1> QED
  BY <1>1, <1>2

\* The state file, the link and the unit keep their types, whatever crashes,
\* reboots and commands interrupt the updater.
THEOREM TypeCorrect == Spec => []TypeOK
<1>1. IInv => TypeOK
  BY DEF IInv
<1> QED
  BY <1>1, InitIInv, NextIInv, PTL DEF Spec

\* Through every crash, reboot and command, miner/current selects a target
\* that was never committed only while the state file says it may have run.
THEOREM LatchHolds == Spec => []MayRunIsLatched
<1>1. IInv => MayRunIsLatched
  BY DEF IInv
<1> QED
  BY <1>1, InitIInv, NextIInv, PTL DEF Spec

-----------------------------------------------------------------------------
(* The container that runs reads the state.                                *)

\* The launcher that was there before the updater runs an image of the oldest
\* schema, as every image from before the label does.
LegacyIsOldest == \A i \in Images : Schema[LegacyImage] <= Schema[i]

\* Every record of a release declares the same schema.
OneDeclaration == \A r \in Releases : \A s, t \in Declared[r] : s = t

\* The schema of what a target runs.
SchemaOf(t) == Schema[Image(t)]

\* A target that the high-water mark covers: it writes nothing above the mark,
\* or the oldest schema there is.
Covered(t) == SchemaOf(t) <= high.schema \/ SchemaOf(t) = SchemaOf(Legacy)

\* What the state file records of schemas is what the images write.
Recorded ==
    /\ high # NoHigh => high.schema = Schema[high.image] /\ high.image \in Labelled
    /\ current.verified => /\ current.target \in Releases
                           /\ current.schema = SchemaOf(current.target)
                           /\ current.schema \in Declared[current.target]
    /\ stage # None =>
         /\ pending.schema \in Declared[pending.release]
         /\ pending.verified => pending.schema = SchemaOf(pending.release)
         /\ pending.prevImage # None => Schema[pending.prevImage] = SchemaOf(pending.prev)
         /\ pending.prevSchema # Unknown => pending.prevSchema = SchemaOf(pending.prev)

\* What runs, and what miner/current would start, reads what was written,
\* and the mark covers both.
NowReads ==
    /\ written <= SchemaOf(link) /\ Covered(link)
    /\ run # NoRun => Schema[run.image] = written
    /\ written <= high.schema \/ written = SchemaOf(Legacy)

\* A preparation is at the mark or above it, or of the image that set it.
PrepareReads ==
    /\ stage # None => Covered(pending.prev)
    /\ stage = "prepared" => pending.schema >= high.schema \/ ImageOf[pending.release] = high.image

\* What is latched reads what was written and what the previous target may
\* yet write, and its label was compared.
LatchReads == Latched =>
    /\ link \in {pending.prev, pending.release}
    /\ Covered(pending.release)
    /\ written <= SchemaOf(pending.release)
    /\ SchemaOf(pending.prev) <= SchemaOf(pending.release)
    /\ ImageOf[pending.release] \in Labelled => pending.schema = SchemaOf(pending.release)

Readable == NowReads /\ PrepareReads /\ LatchReads


\* The pending record stays what it was, apart from its probation and its
\* failure.
SameRecord ==
    /\ stage' = None <=> stage = None
    /\ stage' = "prepared" <=> stage = "prepared"
    /\ stage # None =>
         /\ pending'.release = pending.release /\ pending'.schema = pending.schema
         /\ pending'.prev = pending.prev /\ pending'.prevImage = pending.prevImage
         /\ pending'.prevSchema = pending.prevSchema /\ pending'.verified = pending.verified

\* No container starts.
NoStart == run' # NoRun => run # NoRun /\ run'.image = run.image

\* Targets write some schema.
LEMMA SchemaOfTyped ==
    ASSUME NEW t \in Targets
    PROVE  SchemaOf(t) \in Nat \ {0}
BY ImageTyped, ReleaseAssumption DEF SchemaOf

\* What is linked and what was written are numbers.
LEMMA NumbersNow ==
    ASSUME IInv, written # Unknown
    PROVE  SchemaOf(link) \in Nat /\ written \in Nat
<1>1. link \in Targets /\ written \in Schemas \cup {Unknown}
  BY Zenon DEF IInv, TypeOK
<1>2. written \in Nat
  BY <1>1, SchemasAreNumbers
<1> QED
  BY <1>1, <1>2, SchemaOfTyped

\* A step that starts nothing and writes no schema keeps the records.
LEMMA QuietKeeps ==
    ASSUME IInv, IInv', Recorded, Readable, SameRecord, NoStart,
           UNCHANGED <<link, current, high, written>>
    PROVE  Recorded' /\ Readable'
<1>1. Latched' <=> Latched
  BY ZenonT(40) DEF IInv, SameRecord, TypeOK, Latched
<1>2. Recorded'
  BY DEF Recorded, SameRecord
<1>3. NowReads'
  BY DEF Readable, NowReads, NoStart, Covered
<1>4. PrepareReads'
  BY DEF Readable, PrepareReads, Covered, SameRecord
<1>5. LatchReads'
  BY <1>1 DEF Readable, LatchReads, Covered, SameRecord, Latched
<1> QED
  BY <1>2, <1>3, <1>4, <1>5 DEF Readable

\* A container that starts raises what was written to its own schema at most.
LEMMA StartKeeps ==
    ASSUME IInv, IInv', Recorded, Readable, SameRecord, NEW n, Begins(n), written # Unknown,
           UNCHANGED <<link, current, high>>
    PROVE  Recorded' /\ Readable'
<1>1. Latched' <=> Latched
  BY Zenon DEF IInv, SameRecord, TypeOK, Latched
<1>2. Recorded'
  BY DEF Recorded, SameRecord
<1>3. written \in Nat /\ SchemaOf(link) \in Nat
  BY NumbersNow, ZenonT(40)
<1>4. written' = SchemaOf(link) /\ Schema[run'.image] = SchemaOf(link)
  BY <1>3, SMTT(30) DEF Begins, Readable, NowReads, SchemaOf
<1>5. NowReads'
  BY <1>3, <1>4 DEF Readable, NowReads, Covered
<1>6. PrepareReads'
  BY ZenonT(40) DEF Readable, PrepareReads, Covered, SameRecord
<1>7. LatchReads'
  <2>1. ASSUME Latched PROVE SchemaOf(pending.release) \in Nat
    BY <2>1, PendingTyped, SchemaOfTyped DEF IInv, Pendings, Targets, Latched
  <2>2. Latched => written' <= SchemaOf(pending.release)
    BY <1>4, <2>1 DEF Readable, LatchReads
  <2> QED
    BY <1>1, <2>2 DEF Readable, LatchReads, Covered, SameRecord, Latched
<1> QED
  BY <1>2, <1>5, <1>6, <1>7 DEF Readable

\* A step that clears the stage keeps the records, when what it writes of the
\* current target is true.
LEMMA ClearKeeps ==
    ASSUME IInv, IInv', Recorded, Readable, ClearStage, UNCHANGED <<link, high, written>>,
           current'.verified => /\ current'.target \in Releases
                                /\ current'.schema = SchemaOf(current'.target)
                                /\ current'.schema \in Declared[current'.target]
    PROVE  Recorded' /\ Readable'
<1>1. stage' = None /\ ~Latched'
  BY DEF ClearStage, Latched
<1>2. run' # NoRun => run # NoRun /\ run'.image = run.image
  BY Zenon DEF ClearStage, Unmarked, IInv, TypeOK, Runs
<1>3. Recorded'
  BY <1>1 DEF Recorded
<1>4. NowReads'
  BY <1>2 DEF Readable, NowReads, Covered
<1>5. PrepareReads' /\ LatchReads'
  BY <1>1 DEF PrepareReads, LatchReads
<1> QED
  BY <1>3, <1>4, <1>5 DEF Readable
\* miner/current moves between the two targets of a latched record only to
\* one that reads what was written.
LEMMA LinkKeeps ==
    ASSUME IInv, Recorded, Readable, UNCHANGED <<fileVars, run, written>>, Latched,
           link' \in {pending.prev, pending.release}, written <= SchemaOf(link')
    PROVE  Recorded' /\ Readable'
<1>1. Recorded'
  BY DEF Recorded, fileVars
<1>2. stage # None
  BY DEF Latched
<1>3. SchemaOf(link') <= high.schema \/ SchemaOf(link') = SchemaOf(Legacy)
  BY <1>2 DEF Readable, PrepareReads, LatchReads, Covered
<1>4. NowReads'
  BY <1>3 DEF Readable, NowReads, Covered, fileVars
<1>5. PrepareReads'
  BY DEF Readable, PrepareReads, Covered, fileVars
<1>6. LatchReads'
  BY SMTT(30) DEF Readable, LatchReads, Latched, Covered, fileVars
<1> QED
  BY <1>1, <1>4, <1>5, <1>6, ZenonT(40) DEF Readable

\* What _previous reads of the target that a rollback would put back is true,
\* and so is what the preparation records.
LEMMA PrepareKeeps ==
    ASSUME IInv, IInv', Recorded, Readable, LegacyIsOldest, written # Unknown, Prepare
    PROVE  Recorded' /\ Readable'
<1>0. PICK r \in Releases : \E schema \in Declared[r] :
        /\ SchemaKept(r, schema)
        /\ pending' = [release |-> r, schema |-> schema, prev |-> Previous.target,
                       prevImage |-> Previous.image, prevSchema |-> Previous.schema,
                       verified |-> FALSE, failure |-> FALSE, probation |-> NoProbation]
  BY Zenon DEF Prepare
<1>1. PICK schema \in Declared[r] :
        /\ SchemaKept(r, schema)
        /\ pending' = [release |-> r, schema |-> schema, prev |-> Previous.target,
                       prevImage |-> Previous.image, prevSchema |-> Previous.schema,
                       verified |-> FALSE, failure |-> FALSE, probation |-> NoProbation]
  BY <1>0, ZenonT(40)
<1>2. /\ pending'.release = r /\ pending'.schema = schema /\ pending'.prev = link
      /\ pending'.prevImage = Previous.image /\ pending'.prevSchema = Previous.schema
      /\ pending'.verified = FALSE
  <2>1. Previous.target = link
    BY DEF Previous
  <2> QED
    BY <1>1, <2>1
<1>3. /\ stage' = "prepared" /\ ~Latched'
      /\ UNCHANGED <<link, current, high, run, written>>
  BY ZenonT(40) DEF Prepare, Latched, unitVars
<1>4. SchemaOf(link) \in Nat /\ written \in Nat
  BY NumbersNow
<1>5. Previous.image # None => Schema[Previous.image] = SchemaOf(link)
  <2>1. CASE link # Legacy
    <3>1. Previous.image = Image(link)
      BY <2>1 DEF Previous
    <3> QED
      BY <3>1, Zenon DEF SchemaOf
  <2>2. CASE link = Legacy /\ run # NoRun
    <3>1. Schema[LegacyImage] <= Schema[run.image]
      BY <2>2 DEF LegacyIsOldest, IInv, TypeOK, Runs
    <3>2. Previous.image = run.image
      BY <2>2 DEF Previous
    <3>3. Schema[run.image] = written /\ written <= SchemaOf(link)
      BY <2>2 DEF Readable, NowReads
    <3>4. SchemaOf(link) = Schema[LegacyImage]
      BY <2>2, ZenonT(40) DEF SchemaOf, Image
    <3> QED
      BY ONLY <1>4, <3>1, <3>2, <3>3, <3>4
  <2>3. CASE link = Legacy /\ run = NoRun
    BY <2>3 DEF Previous
  <2> QED
    BY <2>1, <2>2, <2>3, Zenon
<1>6. Previous.schema # Unknown => Previous.schema = SchemaOf(link)
  <2>1. Previous.schema # Unknown
          => current.target = link /\ current.verified /\ Previous.schema = current.schema
    BY DEF Previous
  <2> QED
    BY <2>1, Zenon DEF Recorded
<1>7. Recorded'
  BY <1>1, <1>2, <1>3, <1>5, <1>6, Zenon DEF Recorded, SchemaOf, Image
<1>8. NowReads'
  BY <1>3, SMTT(30) DEF Readable, NowReads, Covered
<1>9. PrepareReads'
  <2>1. schema >= high.schema \/ ImageOf[r] = high.image
    BY <1>1 DEF SchemaKept
  <2> QED
    BY <1>2, <1>3, <2>1, ZenonT(40) DEF Readable, NowReads, PrepareReads, Covered
<1> QED
  BY <1>3, <1>7, <1>8, <1>9, Zenon DEF Readable, LatchReads

\* The label is what makes the latch safe: an image with one is at the mark
\* or above it, and an image without one is the previous one.
LEMMA LatchKeeps ==
    ASSUME IInv, IInv', Recorded, Readable, LegacyIsOldest, written # Unknown, Latch
    PROVE  Recorded' /\ Readable'
<1> DEFINE r == pending.release
<1>1. /\ stage = "prepared" /\ pending \in Pendings /\ LabelFits /\ link = pending.prev
      /\ stage' = "may_have_run" /\ Latched' /\ UNCHANGED <<link, current, written>>
  BY PendingTyped, Zenon DEF IInv, Latch, Latched, Places, MayRunIsLatched
<1>2. /\ pending'.release = r /\ pending'.schema = pending.schema
      /\ pending'.prev = pending.prev /\ pending'.prevImage = pending.prevImage
      /\ pending'.prevSchema = pending.prevSchema /\ pending'.verified = HasLabel
  BY <1>1, Zenon DEF Latch, Pendings
<1>3. run' # NoRun => run # NoRun /\ run'.image = run.image
  BY Zenon DEF Latch, Unmarked, IInv, TypeOK, Runs
<1>4. /\ r \in Releases /\ r \in Targets /\ Image(r) = ImageOf[r] /\ ImageOf[r] \in Images
      /\ pending.schema \in Nat /\ pending.prevImage \in Images \cup {None}
  BY <1>1, ReleaseAssumption, SchemasAreNumbers, Zenon DEF Pendings, Targets, Image
<1>5. /\ SchemaOf(r) \in Nat /\ SchemaOf(pending.prev) \in Nat /\ SchemaOf(Legacy) \in Nat
      /\ written \in Nat /\ high.schema \in Nat /\ high'.schema \in Nat
  <2>1. written \in Nat /\ high.schema \in Nat /\ high'.schema \in Nat
    <3>0. NoHigh.schema \in Nat
      BY DEF NoHigh
    <3>1. ASSUME NEW h \in {NoHigh} \cup [schema : Schemas, image : Images]
          PROVE  h.schema \in Nat
      <4>1. h = NoHigh \/ h.schema \in Schemas
        OBVIOUS
      <4> QED
        BY <3>0, <4>1, SchemasAreNumbers, Zenon
    <3>2. /\ high \in {NoHigh} \cup [schema : Schemas, image : Images]
          /\ high' \in {NoHigh} \cup [schema : Schemas, image : Images]
          /\ written \in Schemas \cup {Unknown}
      BY Zenon DEF IInv, TypeOK
    <3> QED
      BY <3>1, <3>2, SchemasAreNumbers
  <2> QED
    BY <1>1, <1>4, <2>1, SchemaOfTyped DEF Pendings, Targets
<1>6. SchemaOf(Legacy) <= SchemaOf(r)
  BY <1>4, ZenonT(40) DEF LegacyIsOldest, SchemaOf, Image
<1>7. /\ written <= SchemaOf(r) /\ SchemaOf(pending.prev) <= SchemaOf(r)
      /\ SchemaOf(r) <= high'.schema \/ SchemaOf(r) = SchemaOf(Legacy)
      /\ high.schema <= high'.schema
      /\ HasLabel => pending.schema = SchemaOf(r)
      /\ high' # NoHigh => high'.schema = Schema[high'.image] /\ high'.image \in Labelled
  <2>1. CASE HasLabel
    <3>1. pending.schema = SchemaOf(r)
      BY <1>1, <1>4, <2>1 DEF LabelFits, SchemaOf
    <3>2. pending.schema >= high.schema
      <4>1. CASE ImageOf[r] = high.image
        <5>1. high # NoHigh
          BY <1>4, <4>1, ReleaseAssumption DEF NoHigh
        <5> QED
          BY <1>4, <1>5, <3>1, <4>1, <5>1 DEF Recorded, SchemaOf
      <4> QED
        BY <1>1, <4>1, ZenonT(40) DEF Readable, PrepareReads
    <3>3. high' = IF pending.schema > high.schema
                  THEN [schema |-> pending.schema, image |-> ImageOf[r]] ELSE high
      BY <2>1, ZenonT(40) DEF Latch
    <3>4. high'.schema = pending.schema
      <4>1. pending.schema \in Nat /\ high.schema \in Nat
        BY <1>4, <1>5, ZenonT(40)
      <4> QED
        BY <3>2, <3>3, <4>1
    <3>5. high' # NoHigh => high'.schema = Schema[high'.image] /\ high'.image \in Labelled
      BY <1>4, <2>1, <3>1, <3>3, ZenonT(40) DEF Recorded, SchemaOf, HasLabel
    <3>6. written <= SchemaOf(r)
      BY <1>5, <1>6, <3>1, <3>2 DEF Readable, NowReads
    <3>7. SchemaOf(pending.prev) <= SchemaOf(r)
      <4>1. SchemaOf(pending.prev) <= high.schema \/ SchemaOf(pending.prev) = SchemaOf(Legacy)
        BY <1>1, ZenonT(40) DEF Readable, PrepareReads, Covered
      <4> QED
        BY <1>5, <1>6, <3>1, <3>2, <4>1
    <3> QED
      BY ONLY <1>5, <3>1, <3>2, <3>4, <3>5, <3>6, <3>7
  <2>2. CASE ~HasLabel
    <3>1. ImageOf[r] = pending.prevImage /\ high' = high
      BY <1>1, <2>2, ZenonT(40) DEF LabelFits, Latch
    <3>2. SchemaOf(r) = SchemaOf(pending.prev)
      BY <1>1, <1>4, <3>1, ReleaseAssumption, SMTT(30) DEF Recorded, SchemaOf
    <3> QED
      BY <1>1, <1>5, <2>2, <3>1, <3>2
         DEF Readable, NowReads, PrepareReads, Covered, Recorded
  <2> QED
    BY <2>1, <2>2, ZenonT(40)
<1>8. Recorded'
  <2>1. pending'.verified => pending'.schema = SchemaOf(pending'.release)
    BY <1>2, <1>7
  <2>2. (current.verified => /\ current.target \in Releases
                             /\ current.schema = SchemaOf(current.target)
                             /\ current.schema \in Declared[current.target])'
    BY <1>1, Zenon DEF Recorded
  <2> QED
    BY <1>1, <1>2, <1>7, <2>1, <2>2, Zenon DEF Recorded, SchemaOf, Image
<1>9. NowReads'
  <2>1. /\ written <= SchemaOf(link)
        /\ SchemaOf(link) <= high.schema \/ SchemaOf(link) = SchemaOf(Legacy)
        /\ run # NoRun => Schema[run.image] = written
        /\ written <= high.schema \/ written = SchemaOf(Legacy)
    BY Zenon DEF Readable, NowReads, Covered
  <2>2. SchemaOf(link) \in Nat
    BY <1>1, <1>5, Zenon
  <2>3. SchemaOf(link) <= high'.schema \/ SchemaOf(link) = SchemaOf(Legacy)
    BY <1>5, <1>7, <2>1, <2>2
  <2>4. written <= high'.schema \/ written = SchemaOf(Legacy)
    BY <1>5, <1>7, <2>1
  <2> QED
    BY <1>1, <1>3, <2>1, <2>3, <2>4, Zenon DEF NowReads, Covered
<1>10. PrepareReads'
  <2>1. SchemaOf(pending.prev) <= high.schema \/ SchemaOf(pending.prev) = SchemaOf(Legacy)
    BY <1>1, Zenon DEF Readable, PrepareReads, Covered
  <2>2. SchemaOf(pending.prev) <= high'.schema \/ SchemaOf(pending.prev) = SchemaOf(Legacy)
    BY <1>5, <1>7, <2>1
  <2> QED
    BY <1>1, <1>2, <2>2 DEF PrepareReads, Covered
<1>11. LatchReads'
  BY <1>1, <1>2, <1>7 DEF LatchReads, Covered, HasLabel
<1> QED
  BY <1>8, <1>9, <1>10, <1>11 DEF Readable
\* A rollback of the updater's own goes back only to what reads the state.
LEMMA RollbackReads ==
    ASSUME IInv, Recorded, Readable, Latched, RollbackAllowed, written # Unknown
    PROVE  written <= SchemaOf(pending.prev)
<1> DEFINE r == pending.release
<1>1. stage # None /\ pending \in Pendings
  BY PendingTyped DEF IInv, Latched
<1>2. /\ r \in Releases /\ r \in Targets /\ Image(r) = ImageOf[r] /\ ImageOf[r] \in Images
      /\ pending.prev \in Targets /\ Image(pending.prev) \in Images
  BY <1>1, ReleaseAssumption, ImageTyped DEF Pendings, Targets, Image
<1>3. SchemaOf(r) \in Nat /\ SchemaOf(pending.prev) \in Nat /\ written \in Nat
  BY <1>2, SchemaOfTyped, NumbersNow
<1>4. written <= SchemaOf(r)
  BY ZenonT(40) DEF Readable, LatchReads
<1>5. CASE pending.prevImage = ImageOf[r]
  BY <1>1, <1>2, <1>3, <1>4, <1>5 DEF RollbackAllowed, Recorded, SchemaOf
<1>6. CASE pending.prevSchema # Unknown /\ pending.prevSchema >= pending.schema
  <2>1. pending.prevSchema = SchemaOf(pending.prev)
    BY <1>1, <1>6 DEF Recorded
  <2>2. CASE ImageOf[r] \in Labelled
    <3>1. pending.schema = SchemaOf(r)
      BY <2>2 DEF Readable, LatchReads
    <3> QED
      BY <1>3, <1>4, <1>6, <2>1, <3>1
  <2>3. CASE ImageOf[r] \notin Labelled
    <3>1. SchemaOf(r) <= SchemaOf(pending.prev)
      <4>1. Schema[Image(r)] <= Schema[Image(pending.prev)]
        BY <1>2, <2>3, UnlabelledAssumption, ZenonT(40)
      <4> QED
        BY <4>1, Zenon DEF SchemaOf
    <3> QED
      BY <1>3, <1>4, <3>1
  <2> QED
    BY <2>2, <2>3
<1> QED
  BY <1>5, <1>6 DEF RollbackAllowed

\* What a commit writes of a pending record is true.
LEMMA CommitKeeps ==
    ASSUME IInv, IInv', Recorded, Readable, stage # None, UNCHANGED <<link, high, written>>,
           Commit(pending.release, pending.schema, pending.verified)
    PROVE  Recorded' /\ Readable'
<1>1. pending.release \in Releases
  BY PendingTyped DEF IInv, Pendings
<1>2. /\ current'.target = pending.release /\ current'.schema = pending.schema
      /\ current'.verified = pending.verified /\ ClearStage
  BY DEF Commit
<1> QED
  BY <1>1, <1>2, ClearKeeps DEF Recorded

\* The records of the channel say the same of one release every time.
LEMMA ConfirmKeeps ==
    ASSUME IInv, IInv', Recorded, Readable, OneDeclaration, ConfirmCurrent
    PROVE  Recorded' /\ Readable'
<1>1. PICK schema \in Declared[link] :
        Commit(link, schema, current.target = link /\ current.verified)
  BY DEF ConfirmCurrent
<1>2. link \in Releases /\ UNCHANGED <<link, high, written>>
  BY DEF ConfirmCurrent
<1>3. current' = [target |-> link, schema |-> schema,
                  verified |-> current.target = link /\ current.verified]
  BY <1>1 DEF Commit
<1>4. current'.target = link /\ current'.schema = schema
      /\ (current'.verified => current.target = link /\ current.verified)
  BY <1>3, Zenon
<1>5. current'.verified => schema = SchemaOf(link)
  BY <1>1, <1>2, <1>4 DEF Recorded, OneDeclaration
<1> QED
  BY <1>1, <1>2, <1>4, <1>5, ClearKeeps DEF Commit
-----------------------------------------------------------------------------
\* The same, action by action.

RR == Recorded /\ Readable

\* The inductive invariant: true until the operator orders a rollback.
RInv == IInv /\ (written # Unknown => RR)

\* The steps of the unit, the host and the clock.
LEMMA UnitReads ==
    ASSUME IInv, IInv', RR, written # Unknown,
           Exits \/ AutoRestart \/ Stops \/ StartsByHand \/ Tick \/ Crash \/ Reboot
    PROVE  RR'
<1> USE DEF RR
<1>1. CASE Exits \/ Stops \/ Crash
  BY <1>1, QuietKeeps DEF Exits, Stops, Crash, SameRecord, NoStart, fileVars, unitVars
<1>2. CASE AutoRestart \/ StartsByHand
  BY <1>2, StartKeeps DEF AutoRestart, StartsByHand, SameRecord, fileVars
<1>3. CASE Tick
  <2>1. pending \in Pendings
    BY <1>3, PendingTyped DEF IInv, Tick
  <2>2. SameRecord
    BY <1>3, <2>1 DEF Tick, SameRecord, Pendings
  <2>3. NoStart
    BY <1>3, Zenon DEF Tick, NoStart, IInv, TypeOK, Runs
  <2> QED
    BY <1>3, <2>2, <2>3, QuietKeeps DEF Tick
<1>4. CASE Reboot
  <2>1. SameRecord
    <3>1. stage # None => pending \in Pendings
      BY PendingTyped DEF IInv
    <3> QED
      BY <1>4, <3>1 DEF Reboot, SameRecord, Pendings
  <2> QED
    BY <1>4, <2>1, StartKeeps DEF Reboot
<1> QED
  BY <1>1, <1>2, <1>3, <1>4

\* A step that only moves the process, or ends the check.
LEMMA MovesReads ==
    ASSUME IInv, IInv', RR, UNCHANGED <<link, fileVars, unitVars, home>>
    PROVE  RR'
BY QuietKeeps DEF RR, SameRecord, NoStart, fileVars, unitVars

\* A restart by the updater.
LEMMA RestartReads ==
    ASSUME IInv, IInv', RR, written # Unknown, RestartMiner, UNCHANGED <<link, fileVars, home>>
    PROVE  RR'
<1>1. SameRecord /\ UNCHANGED <<link, current, high>>
  BY DEF SameRecord, fileVars
<1>2. CASE Begins(0)
  BY <1>1, <1>2, StartKeeps DEF RR
<1>3. CASE run' = NoRun /\ UNCHANGED written
  <2>1. NoStart
    BY <1>3, ZenonT(40) DEF NoStart
  <2> QED
    BY <1>1, <1>3, <2>1, QuietKeeps, Zenon DEF RR
<1> QED
  BY <1>2, <1>3 DEF RestartMiner

\* The stage is cleared and the current target stays.
LEMMA BackReads ==
    ASSUME IInv, IInv', RR, ClearStage, UNCHANGED <<link, current, high, written>>
    PROVE  RR'
BY ClearKeeps DEF RR, Recorded

\* A probation that begins or is renewed.
LEMMA ProbationReads ==
    ASSUME IInv, IInv', RR, Latched, run # NoRun, NEW n, NewProbation(n)
    PROVE  RR'
<1>1. stage # None /\ stage # "prepared" /\ pending \in Pendings
  BY PendingTyped DEF IInv, Latched
<1>2. SameRecord
  BY <1>1, Zenon DEF NewProbation, SameRecord, Pendings
<1>3. NoStart
  BY Zenon DEF NewProbation, NoStart, IInv, TypeOK, Runs
<1> QED
  BY <1>2, <1>3, QuietKeeps DEF RR, NewProbation

\* A failure written into the pending record.
LEMMA FailureReads ==
    ASSUME IInv, IInv', RR, stage # None, NEW b, pending' = [pending EXCEPT !.failure = b],
           UNCHANGED <<link, stage, current, failed, high, unitVars, home>>
    PROVE  RR'
<1>1. pending \in Pendings
  BY PendingTyped DEF IInv
<1>2. SameRecord /\ NoStart
  BY <1>1, Zenon DEF SameRecord, NoStart, Pendings, unitVars
<1> QED
  BY <1>2, QuietKeeps DEF RR, unitVars
\* The steps that settle what an earlier check left.
LEMMA ReconcileReads ==
    ASSUME IInv, IInv', RR, written # Unknown,
           Reconcile \/ ReconcileBack \/ RetryBack \/ LookBack \/ ReconcileForward
    PROVE  RR'
<1>1. CASE Reconcile
  BY <1>1, BackReads DEF Reconcile
<1>2. ASSUME NEW b, BackDone(b)
      PROVE  RR'
  BY <1>2, BackReads DEF BackDone
<1>3. ASSUME NEW p, Moves(p) \/ Leaves
      PROVE  RR'
  BY <1>3, MovesReads DEF Moves, Leaves
<1>4. CASE ReconcileBack \/ LookBack
  BY <1>2, <1>3, <1>4 DEF ReconcileBack, LookBack
<1>5. CASE RetryBack
  BY <1>3, <1>5, RestartReads DEF RetryBack
<1>6. CASE ReconcileForward
  BY <1>3, <1>6 DEF ReconcileForward
<1> QED
  BY <1>1, <1>4, <1>5, <1>6

\* The steps of a probation.
LEMMA ProbationStepReads ==
    ASSUME IInv, IInv', RR, written # Unknown,
           \/ ProbationHalts \/ ProbationWaits \/ ProbationRebooted \/ ProbationCommits
           \/ ProbationChanged \/ ProbationForgives
    PROVE  RR'
<1>1. ASSUME NEW p, Moves(p) \/ Leaves
      PROVE  RR'
  BY <1>1, MovesReads DEF Moves, Leaves
<1>2. CASE ProbationHalts \/ ProbationWaits \/ ProbationChanged
  BY <1>1, <1>2, ZenonT(40) DEF ProbationHalts, ProbationWaits, ProbationChanged
<1>3. CASE ProbationRebooted
  <2>1. Latched
    BY <1>3, ZenonT(40) DEF ProbationRebooted, ProbationStands, OnProbation, Latched
  <2> QED
    BY <1>1, <1>3, <2>1, ProbationReads, ZenonT(40) DEF ProbationRebooted, Up
<1>4. CASE ProbationForgives
  <2>1. Latched
    BY <1>4 DEF ProbationForgives, IInv, Places
  <2> QED
    BY <1>1, <1>4, <2>1, ProbationReads, ZenonT(40) DEF ProbationForgives, Up
<1>5. CASE ProbationCommits
  BY <1>5, CommitKeeps DEF ProbationCommits, ProbationStands, OnProbation, RR
<1> QED
  BY <1>2, <1>3, <1>4, <1>5

\* The steps from the channel to the flip.
LEMMA ChannelReads ==
    ASSUME IInv, IInv', RR, written # Unknown, LegacyIsOldest, OneDeclaration,
           \/ ChannelEnds \/ ConfirmCurrent \/ Prepare \/ PullFails \/ LabelRefused \/ Latch
           \/ Flip
    PROVE  RR'
<1>1. CASE ChannelEnds
  BY <1>1, MovesReads DEF ChannelEnds, Leaves
<1>2. CASE ConfirmCurrent
  BY <1>2, ConfirmKeeps DEF RR
<1>3. CASE Prepare
  BY <1>3, PrepareKeeps DEF RR
<1>4. CASE PullFails \/ LabelRefused
  BY <1>4, BackReads DEF PullFails, LabelRefused
<1>5. CASE Latch
  BY <1>5, LatchKeeps DEF RR
<1>6. CASE Flip
  <2>1. Latched
    BY <1>6 DEF Flip, IInv, Places
  <2>2. /\ link' = pending.release /\ UNCHANGED <<fileVars, run, written>>
    BY <1>6 DEF Flip, unitVars
  <2>3. written <= SchemaOf(link')
    BY <2>1, <2>2 DEF RR, Readable, LatchReads
  <2> QED
    BY <2>1, <2>2, <2>3, LinkKeeps, ZenonT(40) DEF RR
<1> QED
  BY <1>1, <1>2, <1>3, <1>4, <1>5, <1>6

\* The steps that start and judge a release.
LEMMA StartReads ==
    ASSUME IInv, IInv', RR, written # Unknown, Start \/ Settle \/ Again
    PROVE  RR'
<1>1. ASSUME NEW p, Moves(p)
      PROVE  RR'
  BY <1>1, MovesReads DEF Moves
<1>2. CASE Start
  BY <1>1, <1>2, RestartReads DEF Start
<1>3. CASE Settle
  <2>1. CASE /\ Started /\ run' = [run EXCEPT !.same = TRUE]
             /\ UNCHANGED <<link, fileVars, unit, restarts, written, home>>
    <3>1. NoStart
      BY <2>1, ZenonT(40) DEF Started, Up, NoStart, IInv, TypeOK, Runs
    <3> QED
      BY <2>1, <3>1, QuietKeeps DEF RR, SameRecord, fileVars
  <2> QED
    BY <1>1, <1>3, <2>1 DEF Settle
<1>4. CASE Again
  <2>1. Latched
    BY <1>4 DEF Again, IInv, Places
  <2> QED
    BY <1>1, <1>4, <2>1, ProbationReads, ZenonT(40) DEF Again, SameContainer, Up
<1> QED
  BY <1>2, <1>3, <1>4

\* The steps of a failure and of a rollback.
LEMMA BackStepReads ==
    ASSUME IInv, IInv', RR, written # Unknown, FailHalts \/ Rollback \/ StartBack \/ SettleBack
    PROVE  RR'
<1>1. Latched /\ stage # None
  BY Zenon DEF FailHalts, Rollback, StartBack, SettleBack, IInv, Places, Latched
<1>2. ASSUME NEW p, Moves(p)
      PROVE  RR'
  BY <1>2, MovesReads DEF Moves
<1>3. ASSUME RollbackHalts
      PROVE  RR'
  BY <1>1, <1>3, FailureReads, Zenon DEF RollbackHalts
<1>4. CASE FailHalts
  BY <1>1, <1>4, FailureReads DEF FailHalts
<1>5. CASE Rollback
  <2>1. CASE link' = pending.prev /\ Goto("back1") /\ UNCHANGED <<fileVars, unitVars, home>>
    <3>1. link' = pending.prev /\ UNCHANGED <<fileVars, run, written>>
      BY <2>1 DEF unitVars
    <3>2. written <= SchemaOf(link')
      BY <1>1, <1>5, <3>1, RollbackReads DEF Rollback, RR
    <3> QED
      BY <1>1, <3>1, <3>2, LinkKeeps DEF RR
  <2> QED
    BY <1>3, <1>5, <2>1, ZenonT(40) DEF Rollback
<1>6. CASE StartBack
  BY <1>2, <1>3, <1>6, RestartReads, ZenonT(40) DEF StartBack
<1>7. CASE SettleBack
  BY <1>2, <1>3, <1>7, BackReads DEF SettleBack, BackDone
<1> QED
  BY <1>4, <1>5, <1>6, <1>7

\* The operator's commands.  A restore by hand ends what is promised.
LEMMA ResolveReads ==
    ASSUME IInv, IInv', RR, written # Unknown, written' # Unknown,
           ResolveRetry \/ ResolveAbandon \/ ResolveAccept \/ AcceptCommits \/ ResolveRestore
    PROVE  RR'
<1>1. CASE ResolveRetry
  BY <1>1, QuietKeeps DEF ResolveRetry, RR, SameRecord, NoStart, unitVars
<1>2. CASE ResolveAbandon
  <2>1. CASE ClearStage
    BY <1>2, <2>1, BackReads, ZenonT(40) DEF ResolveAbandon
  <2>2. CASE UNCHANGED <<stage, pending, run, restarts, home>>
    BY <1>2, <2>2, QuietKeeps DEF ResolveAbandon, RR, SameRecord, NoStart
  <2> QED
    BY <1>2, <2>1, <2>2 DEF ResolveAbandon
<1>3. CASE ResolveAccept
  <2>1. /\ Latched /\ link' = pending.release /\ UNCHANGED <<fileVars, run, written>>
    BY <1>3 DEF ResolveAccept, ToResolve, Latched, unitVars
  <2>2. written <= SchemaOf(link')
    BY <2>1 DEF RR, Readable, LatchReads
  <2> QED
    BY <2>1, <2>2, LinkKeeps DEF RR
<1>4. CASE AcceptCommits
  <2>1. stage # None
    BY <1>4 DEF AcceptCommits, IInv, Places, Latched
  <2> QED
    BY <1>4, <2>1, CommitKeeps, ZenonT(40) DEF AcceptCommits, RR
<1>5. CASE ResolveRestore
  BY <1>5 DEF ResolveRestore
<1> QED
  BY <1>1, <1>2, <1>3, <1>4, <1>5, ZenonT(40)
\* The launcher runs first, and the records are empty.
LEMMA InitRInv == Init => RInv
<1> SUFFICES ASSUME Init PROVE RInv
  OBVIOUS
<1>1. IInv
  BY InitIInv
<1>2. SchemaOf(Legacy) \in Nat /\ written = SchemaOf(Legacy) /\ link = Legacy
  BY SchemaOfTyped, ZenonT(40) DEF Init, Targets, SchemaOf, Image
<1>3. Recorded
  BY ZenonT(40) DEF Init, Recorded, NoCurrent
<1>4. NowReads
  <2>1. run.image = LegacyImage
    <3>1. run = [image |-> LegacyImage, fresh |-> FALSE, same |-> FALSE, old |-> FALSE]
      BY ZenonT(40) DEF Init
    <3> QED
      BY <3>1
  <2> QED
    BY <1>2, <2>1 DEF NowReads, Covered, SchemaOf, Image
<1>5. PrepareReads /\ LatchReads
  BY DEF Init, PrepareReads, LatchReads, Latched
<1> QED
  BY <1>1, <1>3, <1>4, <1>5, Zenon DEF RInv, RR, Readable

\* Every step keeps it.
LEMMA NextRInv ==
    ASSUME LegacyIsOldest, OneDeclaration
    PROVE  RInv /\ [Next]_vars => RInv'
<1> SUFFICES ASSUME RInv, [Next]_vars, written' # Unknown PROVE RR'
  BY NextIInv DEF RInv
<1>1. IInv /\ IInv'
  BY NextIInv DEF RInv
<1>2. CASE UNCHANGED vars
  <2>1. UNCHANGED <<link, fileVars, unitVars, home>>
    BY <1>2 DEF vars
  <2> QED
    BY <1>1, <2>1, MovesReads DEF RInv, unitVars
<1>3. CASE Next
  <2>1. written # Unknown
    <3>1. ASSUME NEW n, Begins(n) PROVE written # Unknown
      BY <3>1 DEF Begins
    <3>2. RestartMiner => written # Unknown
      BY <3>1 DEF RestartMiner
    <3> HIDE DEF Unknown
    <3>3. UNCHANGED written => written # Unknown
      BY Zenon
    <3>4. CASE Exits \/ AutoRestart \/ Stops \/ StartsByHand \/ Tick \/ Crash \/ Reboot
      BY <3>1, <3>3, <3>4, Zenon
         DEF Exits, AutoRestart, Stops, StartsByHand, Tick, Crash, Reboot, unitVars
    <3>5. CASE ResolveRetry \/ ResolveAbandon \/ ResolveAccept \/ ResolveRestore
      BY <3>3, <3>5, Zenon
         DEF ResolveRetry, ResolveAbandon, ResolveAccept, ResolveRestore, unitVars
    <3>6. CASE \/ Reconcile \/ ReconcileBack \/ RetryBack \/ LookBack \/ ReconcileForward
      BY <3>2, <3>3, <3>6, Zenon
         DEF Reconcile, ReconcileBack, RetryBack, LookBack, ReconcileForward, BackDone, Moves,
             Leaves, unitVars
    <3>7. CASE \/ ProbationHalts \/ ProbationWaits \/ ProbationRebooted \/ ProbationCommits
               \/ ProbationChanged \/ ProbationForgives
      BY <3>3, <3>7, Zenon
         DEF ProbationHalts, ProbationWaits, ProbationRebooted, ProbationCommits,
             ProbationChanged, ProbationForgives, NewProbation, Moves, Leaves, unitVars
    <3>8. CASE \/ ChannelEnds \/ ConfirmCurrent \/ Prepare \/ PullFails \/ LabelRefused
               \/ Latch \/ Flip
      BY <3>3, <3>8, Zenon
         DEF ChannelEnds, ConfirmCurrent, Prepare, PullFails, LabelRefused, Latch, Flip, Leaves,
             unitVars
    <3>9. CASE Start \/ Settle \/ Again
      BY <3>2, <3>3, <3>9, Zenon DEF Start, Settle, Again, NewProbation, Moves, unitVars
    <3>10. CASE FailHalts \/ Rollback \/ StartBack \/ SettleBack \/ AcceptCommits
      BY <3>2, <3>3, <3>10, Zenon
         DEF FailHalts, Rollback, StartBack, SettleBack, AcceptCommits, RollbackHalts, BackDone,
             Moves, unitVars
    <3> QED
      BY <1>3, <3>4, <3>5, <3>6, <3>7, <3>8, <3>9, <3>10, Zenon DEF Next, Check
  <2>2. RR
    BY <2>1 DEF RInv
  <2> QED
    BY <1>1, <1>3, <2>1, <2>2, UnitReads, ReconcileReads, ProbationStepReads, ChannelReads,
       StartReads, BackStepReads, ResolveReads, Zenon DEF Next, Check
<1> QED
  BY <1>2, <1>3

\* Whatever crashes, reboots, fails or is abandoned: until the operator orders
\* a rollback, the container that runs reads everything that an earlier image
\* may have written.  It takes a launcher whose image is of the oldest schema,
\* and records that declare one schema for one release.
THEOREM RunsWhatItReads ==
    ASSUME LegacyIsOldest, OneDeclaration
    PROVE  Spec => []RunsReadable
<1>1. RInv => RunsReadable
  <2> SUFFICES ASSUME RInv, run # NoRun PROVE Schema[run.image] >= written
    BY ZenonT(40) DEF RunsReadable
  <2>1. run.image \in Images
    <3>1. run \in Runs
      BY ZenonT(40) DEF RInv, IInv, TypeOK
    <3> QED
      BY ONLY <3>1, SMTT(30) DEF Runs
  <2>2. Schema[run.image] \in Nat
    BY <2>1, SchemaTyped, SchemasAreNumbers, ZenonT(40)
  <2>3. CASE written = Unknown
    BY ONLY <2>2, <2>3 DEF Unknown
  <2>4. CASE written # Unknown
    <3>1. Schema[run.image] = written
      BY <2>4, ZenonT(40) DEF RInv, RR, Readable, NowReads
    <3> QED
      BY ONLY <2>2, <3>1, SMTT(30)
  <2> QED
    BY <2>3, <2>4, ZenonT(40)
<1> QED
  BY <1>1, InitRInv, NextRInv, PTL DEF Spec
=============================================================================

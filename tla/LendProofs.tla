---------------------------- MODULE LendProofs ------------------------------
(***************************************************************************)
(* Lend holds its safety properties for every set of guests and creates,   *)
(* every fault set and every bound.                                        *)
(***************************************************************************)
EXTENDS Lend, FiniteSetTheorems, TLAPS

\* A room that ever ran has call "started": a room id is never started twice,
\* so a list taken later than another shows every live room of the first.
RoomsStarted ==
    /\ \A c \in live \cup listed \cup sync.list \cup Table : call[c] = "started"
    /\ \A c \in Creates : pc[c] \in {"new", "queued"} => call[c] = "none"
    /\ \A c \in Creates : pc[c] \in {"released", "orphan"} => call[c] = "started"
    /\ \A c \in Creates : pc[c] = "orphan" => c \notin live

\* What a list showed stays in the table while it runs.
ListedKept ==
    /\ live \cap listed \subseteq Table
    /\ sync.pc = "listed" => live \cap listed \subseteq sync.list

\* Launch ids only grow, so whatever was recorded is at most the running one.
LaunchOrder ==
    /\ \A h \in {cfg, disk} : h.LentReportID \in Launches => h.LentReportID <= launch
    /\ sync.id \in Launches => sync.id <= launch
    /\ patch.id \in Launches => patch.id <= launch
    /\ patch.op = "reclaim" => patch.lentID \in Launches /\ patch.lentID <= launch
    /\ patch.op = "reclaim" /\ patch.stage = "ready" =>
           patch.id \in Launches /\ patch.lentID < patch.id
    /\ patch.op = "lend" => patch.owner # None
    /\ patch.op = "none" => patch.stage = "idle"
    /\ disk.LentFrom # None => cfg.LentFrom # None

IInv ==
    /\ TypeOK
    /\ NoStrangerOnReserved
    /\ ListedStrangersRefused
    /\ LendStateLoads
    /\ RoomsStarted
    /\ ListedKept
    /\ LaunchOrder

-----------------------------------------------------------------------------
USE NoneAssumption, UnknownAssumption, ReservedAssumption, RuntimeAssumption,
    BoundsAssumption

\* Launches are numbers, so neither "none" nor "unknown" is one.
LEMMA LaunchFacts ==
    Launches \subseteq Nat /\ None \notin Launches /\ Unknown \notin Launches /\ Unknown # None
BY DEF Launches

\* What is written to disk, and what is read back, has the type of the fields.
LEMMA StoredType ==
    ASSUME NEW h \in HotelCfg
    PROVE  /\ Saved(h) \in HotelCfg /\ Saved(h).LentFrom = h.LentFrom
           /\ Saved(h).LentReportID = h.LentReportID /\ Saved(h).ReservedFor \in {h.ReservedFor, None}
           /\ Loaded(h) \in HotelCfg /\ Loaded(h).LentFrom = h.LentFrom
           /\ Loaded(h).LentReportID = h.LentReportID
           /\ h.LentFrom # None => Loaded(h).ReservedFor \in {h.ReservedFor, None}
<1>1. CASE Runtime
    BY <1>1 DEF Saved, Loaded
<1>2. CASE ~Runtime
    BY <1>2, Zenon DEF Saved, Loaded, HotelCfg
<1> QED
    BY <1>1, <1>2

\* The broker starts with a hotel it has not lent, and the inductive invariant holds.
LEMMA InitIInv == Init => IInv
<1> SUFFICES ASSUME Init PROVE IInv
    OBVIOUS
<1> DEFINE h0 == [ReservedFor |-> ConfigReserved, LentFrom |-> None, LentReportID |-> None,
                  Drain |-> FALSE]
<1>0. /\ cfg \in HotelCfg /\ disk \in HotelCfg
      /\ cfg.LentFrom = None /\ disk.LentFrom = None
      /\ cfg.LentReportID = None /\ disk.LentReportID = None
    <2>1. h0 \in HotelCfg /\ h0.LentFrom = None /\ h0.LentReportID = None
        BY DEF HotelCfg
    <2>2. disk = Saved(h0) /\ cfg = Loaded(disk)
        BY DEF Init
    <2> HIDE DEF h0
    <2>3. disk \in HotelCfg /\ disk.LentFrom = None /\ disk.LentReportID = None
        BY <2>1, <2>2, StoredType
    <2> QED
        BY <2>2, <2>3, StoredType
<1>1. TypeOK
    <2>1. sync \in SyncType /\ patch \in PatchType
        BY DEF Init, SyncIdle, SyncType, NoPatch, PatchType
    <2>2. sync.pc = "idle" /\ patch.stage = "idle"
        BY DEF Init, SyncIdle, NoPatch
    <2>3. unchecked \in BOOLEAN
        BY Zenon DEF Init
    <2> QED
        BY <1>0, <2>1, <2>2, <2>3 DEF Init, TypeOK, Launches, RoomState, CreatePC, CallState
<1>2. NoStrangerOnReserved /\ ListedStrangersRefused
    BY DEF Init, NoStrangerOnReserved, ListedStrangersRefused, InFlight
<1>3. LendStateLoads
    BY <1>0 DEF LendStateLoads, FieldsAgree
<1>4. RoomsStarted /\ ListedKept
    BY DEF Init, SyncIdle, RoomsStarted, ListedKept, Table
<1>5. LaunchOrder
    BY <1>0 DEF Init, LaunchOrder, Launches, SyncIdle, NoPatch
<1> QED
    BY <1>1, <1>2, <1>3, <1>4, <1>5 DEF IInv

\* A room the round releases is deleting and not listed.
LEMMA ReleasedFacts ==
    ASSUME NEW list, NEW vanished, NEW gone \in Released(list, vanished)
    PROVE  \A c \in gone : c \in Creates \ list /\ rooms[c] \in {"deleting", "deleteSent"}
BY Zenon DEF Released

\* The hidden rooms, their count and the order of the deleting rooms keep their types.
HiddenOK == hidden \subseteq Creates /\ later \subseteq Creates \X Creates /\ apiDeleting \in Nat

\* The order of the deleting rooms relates creates.
LEMMA VanishType ==
    ASSUME NEW new \in SUBSET Creates, VanishNow(new)
    PROVE  later' \subseteq Creates \X Creates
BY Zenon DEF VanishNow

\* Every step keeps what the machine hides and what the broker knows of it.
LEMMA HiddenStep == TypeOK /\ [Next]_vars => HiddenOK'
<1> SUFFICES ASSUME TypeOK, [Next]_vars PROVE HiddenOK'
    BY ZenonT(40)
<1>0. HiddenOK
    BY Zenon DEF TypeOK, HiddenOK
<1> USE DEF machineVars, createVars, roomVars, hotelVars, syncVars
<1>1. ASSUME NEW c \in Creates, CreateStep(c) PROVE HiddenOK'
    <2>1. CASE \/ \E g \in Guests : Place(c, g)
               \/ Abandon(c) \/ Dispatch(c) \/ AnswerUnwanted(c) \/ AnswerFailed(c)
               \/ AnswerLost(c) \/ OrphanGiveUp(c)
        BY <1>0, <2>1, ZenonT(40) DEF HiddenOK, Place, Abandon, Dispatch, AnswerUnwanted,
            AnswerFailed, AnswerLost, OrphanGiveUp
    <2>2. CASE AnswerRunning(c) \/ OrphanRelease(c)
        BY <1>0, <2>2, VanishType, {} \in SUBSET Creates, ZenonT(40) DEF HiddenOK, AnswerRunning, OrphanRelease
    <2>3. CASE ReapInsert(c)
        BY <1>0, <2>3, VanishType, {c} \in SUBSET Creates, ZenonT(40) DEF HiddenOK, ReapInsert
    <2>4. CASE DeleteNote(c)
        <3>1. (IF rooms[c] = "running" THEN {c} ELSE {}) \in SUBSET Creates
            BY SMTT(30)
        <3> QED
            BY <1>0, <2>4, <3>1, VanishType, ZenonT(40) DEF HiddenOK, DeleteNote
    <2>5. CASE ReapDelete(c) \/ OrphanDelete(c) \/ DeleteCall(c)
        <3>1. hidden' \subseteq Creates
            BY <1>0, <2>5, SMTT(30) DEF HiddenOK, ReapDelete, OrphanDelete, DeleteCall, Retire
        <3> QED
            BY <1>0, <2>5, <3>1, ZenonT(40) DEF HiddenOK, ReapDelete, OrphanDelete, DeleteCall
    <2> QED
        BY <1>1, <2>1, <2>2, <2>3, <2>4, <2>5, ZenonT(40) DEF CreateStep
<1>2. CASE MachineStep
    <2>1. hidden' \subseteq Creates
        BY <1>0, <1>2, SMTT(30) DEF HiddenOK, MachineStep, HotelStarts, HotelRefuses, RoomEnds,
            ContainerGone, Relaunch, Retire
    <2> QED
        BY <1>0, <1>2, <2>1, ZenonT(40) DEF HiddenOK, MachineStep, HotelStarts, HotelRefuses,
            RoomEnds, ContainerGone, Relaunch
<1>3. CASE SyncStep
    <2>1. CASE SyncQuota
        <3>1. Cardinality(hidden) \in Nat
            BY <1>0, CreatesAssumption, FS_Subset, FS_CardinalityType, ZenonT(40) DEF HiddenOK
        <3> QED
            BY <1>0, <2>1, <3>1, ZenonT(40) DEF HiddenOK, SyncQuota
    <2>2. CASE SyncApply
        BY <1>0, <2>2, VanishType, ZenonT(40) DEF HiddenOK, SyncApply
    <2>3. CASE \/ SyncList \/ SyncListFails \/ SyncSave
               \/ BaselineSkip \/ BaselineFetch \/ BaselineRecord
        BY <1>0, <2>3, ZenonT(40) DEF HiddenOK, SyncList, SyncListFails, SyncSave, BaselineSkip,
            BaselineFetch, BaselineRecord
    <2> QED
        BY <1>3, <2>1, <2>2, <2>3, ZenonT(40) DEF SyncStep
<1>4. CASE PatchStep
    BY <1>0, <1>4, ZenonT(40) DEF HiddenOK, PatchStep, PatchLend, PatchReclaim, PatchReserve,
        PatchAttest, PatchApply, PatchRefused, PatchDrain
<1>5. CASE Restart
    <2>1. {} \subseteq Creates \X Creates /\ 0 \in Nat
        BY SMTT(30)
    <2> QED
        BY <1>0, <1>5, <2>1, ZenonT(40) DEF HiddenOK, Restart
<1>6. CASE UNCHANGED vars
    BY <1>0, <1>6, ZenonT(40) DEF HiddenOK, vars
<1> QED
    BY <1>1, <1>2, <1>3, <1>4, <1>5, <1>6, ZenonT(40) DEF Next

\* The type invariant is inductive by itself.
LEMMA TypeStep == TypeOK /\ [Next]_vars => TypeOK'
<1> SUFFICES ASSUME TypeOK, [Next]_vars PROVE TypeOK'
    BY ZenonT(40)
<1>h. hidden' \subseteq Creates /\ later' \subseteq Creates \X Creates /\ apiDeleting' \in Nat
    BY HiddenStep, ZenonT(40) DEF HiddenOK
<1> USE <1>h DEF TypeOK, Launches, CallState, CreatePC, RoomState, machineVars, createVars, roomVars,
            hotelVars, syncVars
<1>1. ASSUME NEW c \in Creates, CreateStep(c) PROVE TypeOK'
    <2>1. ASSUME NEW g \in Guests, Place(c, g) PROVE TypeOK'
        BY <2>1 DEF Place
    <2>2. CASE Abandon(c) \/ Dispatch(c)
        BY <2>2 DEF Abandon, Dispatch
    <2>3. CASE AnswerRunning(c) \/ AnswerUnwanted(c) \/ AnswerFailed(c) \/ AnswerLost(c)
        BY <2>3 DEF AnswerRunning, AnswerUnwanted, AnswerFailed, AnswerLost
    <2>4. CASE ReapInsert(c) \/ ReapDelete(c)
        BY <2>4 DEF ReapInsert, ReapDelete, Retire
    <2>5. CASE OrphanDelete(c) \/ OrphanRelease(c) \/ OrphanGiveUp(c)
        BY <2>5 DEF Retire, OrphanDelete, OrphanRelease, OrphanGiveUp
    <2>6. CASE DeleteCall(c) \/ DeleteNote(c)
        BY <2>6 DEF DeleteCall, DeleteNote, Retire
    <2> QED
        BY <1>1, <2>1, <2>2, <2>3, <2>4, <2>5, <2>6 DEF CreateStep
<1>2. CASE MachineStep
    <2>1. ASSUME NEW c \in Creates,
                 HotelStarts(c) \/ HotelRefuses(c) \/ RoomEnds(c) \/ ContainerGone(c)
          PROVE TypeOK'
        BY <2>1 DEF HotelStarts, HotelRefuses, RoomEnds, ContainerGone, Retire
    <2>2. CASE Relaunch
        BY <2>2, SMTT(30) DEF Relaunch, SyncType, PatchType
    <2> QED
        BY <1>2, <2>1, <2>2 DEF MachineStep
<1>3. CASE SyncStep
    <2> USE DEF SyncType, SyncIdle
    <2>1. CASE SyncList \/ SyncListFails
        <3>1. sync' \in SyncType /\ sync'.pc # "fetched"
            <4>1. CASE SyncList
                BY <4>1, Zenon DEF SyncList
            <4>2. CASE SyncListFails
                BY <4>2 DEF SyncListFails
            <4> QED
                BY <2>1, <4>1, <4>2
        <3> QED
            BY <2>1, <3>1 DEF SyncList, SyncListFails
    <2>q. CASE SyncQuota
        BY <2>q DEF SyncQuota
    <2>2. CASE SyncApply
        <3>1. rooms' \in [Creates -> RoomState]
            BY <2>2 DEF SyncApply, Relisted
        <3>2. cfg' \in HotelCfg
            BY <2>2, Zenon DEF SyncApply, CheckReservedRooms, HotelCfg
        <3> QED
            BY <2>2, <3>1, <3>2, Zenon DEF SyncApply
    <2>3. CASE SyncSave
        BY <2>3, StoredType DEF SyncSave
    <2>4. CASE BaselineSkip
        BY <2>4 DEF BaselineSkip
    <2>5. CASE BaselineFetch
        <3>1. sync' \in SyncType /\ sync'.id \in Launches
            BY <2>5, Zenon DEF BaselineFetch
        <3> QED
            BY <2>5, <3>1 DEF BaselineFetch
    <2>6. CASE BaselineRecord
        BY <2>6, SMTT(30) DEF BaselineRecord, HotelCfg
    <2> QED
        BY <1>3, <2>1, <2>q, <2>2, <2>3, <2>4, <2>5, <2>6 DEF SyncStep
<1>4. CASE PatchStep
    <2>0. cfg.ReservedFor \in Guests \cup {None} /\ cfg.LentReportID \in Launches \cup {None, Unknown}
        BY DEF HotelCfg
    <2>1. CASE PatchLend
        <3>1. patch' \in PatchType /\ patch'.stage = "fetching"
            BY <2>0, <2>1, ZenonT(40) DEF PatchLend, PatchType, NoPatch
        <3> QED
            BY <2>1, <3>1 DEF PatchLend
    <2>2. ASSUME NEW g \in Guests, PatchReclaim(g) PROVE TypeOK'
        <3>1. patch' \in PatchType /\ patch'.stage = "fetching"
            BY <2>0, <2>2, Zenon DEF PatchReclaim, PatchType, NoPatch
        <3> QED
            BY <2>2, <3>1 DEF PatchReclaim
    <2>3. ASSUME NEW g \in Guests \cup {None}, PatchReserve(g) PROVE TypeOK'
        <3>1. patch' \in PatchType /\ patch'.op = "reserve"
            BY <2>3, ZenonT(40) DEF PatchReserve, PatchType, NoPatch
        <3> QED
            BY <2>3, <3>1 DEF PatchReserve
    <2>4. CASE PatchAttest
        <3>1. patch' \in PatchType /\ patch'.id \in Launches
            BY <2>4, Zenon DEF PatchAttest, PatchType
        <3> QED
            BY <2>4, <3>1 DEF PatchAttest
    <2>5. CASE PatchApply
        <3>1. cfg' \in HotelCfg
            BY <2>5 DEF PatchApply, Patched, HotelCfg, PatchType
        <3>2. disk' \in HotelCfg
            BY <2>5, <3>1, StoredType DEF PatchApply
        <3> QED
            BY <2>5, <3>1, <3>2 DEF PatchApply, PatchType, NoPatch
    <2>6. CASE PatchDrain
        <3>1. cfg' \in HotelCfg
            BY <2>6, Zenon DEF PatchDrain, HotelCfg
        <3> QED
            BY <2>6, <3>1, StoredType DEF PatchDrain
    <2>7. CASE PatchRefused
        BY <2>7, ZenonT(40) DEF PatchRefused, PatchType, NoPatch
    <2> QED
        BY <1>4, <2>1, <2>2, <2>3, <2>4, <2>5, <2>6, <2>7 DEF PatchStep
<1>5. CASE Restart
    BY <1>5, StoredType DEF Restart, SyncType, SyncIdle, PatchType, NoPatch
<1>6. CASE UNCHANGED vars
    BY <1>6, ZenonT(40) DEF vars
<1> QED
    BY <1>1, <1>2, <1>3, <1>4, <1>5, <1>6 DEF Next

\* A room id has one start: RoomsStarted is preserved.
LEMMA StartedStep == TypeOK /\ RoomsStarted /\ [Next]_vars => RoomsStarted'
<1> SUFFICES ASSUME TypeOK, RoomsStarted, [Next]_vars PROVE RoomsStarted'
    OBVIOUS
<1> USE DEF RoomsStarted, Table, machineVars, createVars, roomVars, hotelVars, syncVars
<1>0. /\ call \in [Creates -> CallState] /\ rooms \in [Creates -> RoomState]
      /\ pc \in [Creates -> CreatePC] /\ live \subseteq Creates /\ listed \subseteq Creates
      /\ sync \in SyncType /\ sync.list \subseteq Creates
    BY ZenonT(40) DEF TypeOK, SyncType
<1>1. ASSUME NEW c \in Creates, CreateStep(c) PROVE RoomsStarted'
    <2>1. ASSUME NEW g \in Guests, Place(c, g) PROVE RoomsStarted'
        BY <1>0, <2>1 DEF Place
    <2>2. CASE Abandon(c) \/ Dispatch(c)
        BY <1>0, <2>2 DEF Abandon, Dispatch
    <2>3. CASE AnswerRunning(c) \/ AnswerFailed(c) \/ AnswerLost(c)
        BY <1>0, <2>3 DEF AnswerRunning, AnswerFailed, AnswerLost
    <2>4. CASE AnswerUnwanted(c)
        BY <1>0, <2>4 DEF AnswerUnwanted
    <2>5. CASE ReapInsert(c)
        BY <1>0, <2>5 DEF ReapInsert
    <2>6. CASE ReapDelete(c) \/ OrphanDelete(c) \/ OrphanRelease(c) \/ OrphanGiveUp(c)
        BY <1>0, <2>6, ZenonT(40) DEF Retire, ReapDelete, OrphanDelete, OrphanRelease, OrphanGiveUp
    <2>7. CASE DeleteCall(c) \/ DeleteNote(c)
        BY <1>0, <2>7 DEF Retire, DeleteCall, DeleteNote
    <2> QED
        BY <1>1, <2>1, <2>2, <2>3, <2>4, <2>5, <2>6, <2>7, Zenon DEF CreateStep
<1>2. CASE MachineStep
    <2>1. ASSUME NEW c \in Creates, HotelStarts(c) PROVE RoomsStarted'
        BY <1>0, <2>1 DEF HotelStarts
    <2>2. ASSUME NEW c \in Creates, HotelRefuses(c) \/ RoomEnds(c) \/ ContainerGone(c) PROVE RoomsStarted'
        BY <1>0, <2>2 DEF HotelRefuses, RoomEnds, ContainerGone, Retire
    <2>3. CASE Relaunch
        BY <1>0, <2>3 DEF Relaunch
    <2> QED
        BY <1>2, <2>1, <2>2, <2>3 DEF MachineStep
<1>3. CASE SyncStep
    <2>1. CASE SyncQuota \/ SyncList \/ SyncListFails
        BY <1>0, <2>1, ZenonT(40) DEF SyncQuota, SyncList, SyncListFails, SyncType
    <2>2. CASE SyncApply
        <3>1. \A c \in Creates : rooms'[c] # "none" => rooms[c] # "none" \/ c \in sync.list
            BY <1>0, <2>2 DEF SyncApply, Relisted
        <3> QED
            BY <1>0, <2>2, <3>1 DEF SyncApply, SyncIdle
    <2>3. CASE SyncSave \/ BaselineSkip \/ BaselineFetch \/ BaselineRecord
        <3>1. sync'.list \subseteq sync.list
            <4>1. CASE BaselineFetch
                BY <1>0, <4>1 DEF BaselineFetch, SyncType
            <4>2. CASE SyncSave \/ BaselineSkip
                BY <4>2 DEF SyncSave, BaselineSkip, SyncIdle
            <4>3. CASE BaselineRecord
                BY <4>3 DEF BaselineRecord, SyncIdle
            <4> QED
                BY <2>3, <4>1, <4>2, <4>3
        <3>2. UNCHANGED <<call, live, rooms, pc, listed>>
            BY <2>3 DEF SyncSave, BaselineSkip, BaselineFetch, BaselineRecord
        <3> QED
            BY <1>0, <3>1, <3>2
    <2> QED
        BY <1>3, <2>1, <2>2, <2>3 DEF SyncStep
<1>4. CASE PatchStep
    BY <1>0, <1>4, Zenon DEF PatchStep, PatchLend, PatchReclaim, PatchReserve, PatchAttest, PatchApply,
                      PatchRefused, PatchDrain
<1>5. CASE Restart
    BY <1>0, <1>5 DEF Restart, SyncIdle
<1>6. CASE UNCHANGED vars
    BY <1>6 DEF vars
<1> QED
    BY <1>1, <1>2, <1>3, <1>4, <1>5, <1>6 DEF Next

\* A room a list showed is in the table as long as it runs, and so in every
\* later list.
LEMMA ListedStep == TypeOK /\ RoomsStarted /\ ListedKept /\ [Next]_vars => ListedKept'
<1> SUFFICES ASSUME TypeOK, RoomsStarted, ListedKept, [Next]_vars PROVE ListedKept'
    OBVIOUS
<1> USE DEF ListedKept, Table, machineVars, createVars, roomVars, hotelVars, syncVars
<1>0. /\ call \in [Creates -> CallState] /\ rooms \in [Creates -> RoomState]
      /\ pc \in [Creates -> CreatePC] /\ live \subseteq Creates /\ listed \subseteq Creates
      /\ sync \in SyncType /\ sync.list \subseteq Creates
    BY ZenonT(40) DEF TypeOK, SyncType
<1>1. ASSUME NEW c \in Creates, CreateStep(c) PROVE ListedKept'
    <2>1. ASSUME NEW g \in Guests, Place(c, g) PROVE ListedKept'
        BY <2>1 DEF Place
    <2>2. CASE Abandon(c) \/ Dispatch(c)
        BY <2>2 DEF Abandon, Dispatch
    <2>3. CASE AnswerRunning(c) \/ ReapInsert(c)
        BY <1>0, <2>3, ZenonT(40) DEF AnswerRunning, ReapInsert
    <2>4. CASE AnswerUnwanted(c) \/ AnswerFailed(c) \/ AnswerLost(c)
        BY <2>4 DEF AnswerUnwanted, AnswerFailed, AnswerLost
    <2>5. CASE ReapDelete(c) \/ OrphanDelete(c) \/ OrphanGiveUp(c) \/ DeleteCall(c)
        BY <2>5, ZenonT(40) DEF Retire, ReapDelete, OrphanDelete, OrphanGiveUp, DeleteCall
    <2>6. CASE OrphanRelease(c)
        BY <1>0, <2>6 DEF OrphanRelease, RoomsStarted
    <2>7. CASE DeleteNote(c)
        BY <1>0, <2>7 DEF DeleteNote
    <2> QED
        BY <1>1, <2>1, <2>2, <2>3, <2>4, <2>5, <2>6, <2>7 DEF CreateStep
<1>2. CASE MachineStep
    <2>1. ASSUME NEW c \in Creates, HotelStarts(c) PROVE ListedKept'
        BY <1>0, <2>1 DEF HotelStarts, RoomsStarted
    <2>2. ASSUME NEW c \in Creates, HotelRefuses(c) \/ RoomEnds(c) \/ ContainerGone(c) PROVE ListedKept'
        BY <2>2 DEF HotelRefuses, RoomEnds, ContainerGone, Retire
    <2>3. CASE Relaunch
        BY <2>3 DEF Relaunch
    <2> QED
        BY <1>2, <2>1, <2>2, <2>3 DEF MachineStep
<1>3. CASE SyncStep
    <2>1. CASE SyncQuota \/ SyncList \/ SyncListFails
        BY <1>0, <2>1, Zenon DEF SyncQuota, SyncList, SyncListFails, SyncType
    <2>2. CASE SyncApply
        <3>1. \A c \in sync.list : rooms'[c] # "none"
            <4>1. PICK vanished \in SUBSET {c \in Creates \ sync.list : rooms[c] = "running"} :
                  \E gone \in Released(sync.list, vanished) :
                      rooms' = Relisted(sync.list, vanished, gone)
                BY <2>2, ZenonT(40) DEF SyncApply
            <4>2. PICK gone \in Released(sync.list, vanished) :
                      rooms' = Relisted(sync.list, vanished, gone)
                BY <4>1, ZenonT(40)
            <4>3. \A c \in gone : c \notin sync.list
                BY ReleasedFacts, ZenonT(40)
            <4> QED
                BY <1>0, <4>1, <4>2, <4>3, SMTT(30) DEF Relisted, RoomState
        <3>2. sync'.pc # "listed"
            BY <2>2 DEF SyncApply, SyncIdle
        <3> QED
            BY <1>0, <2>2, <3>1, <3>2 DEF SyncApply
    <2>3. CASE SyncSave \/ BaselineSkip \/ BaselineFetch \/ BaselineRecord
        <3>1. sync'.pc # "listed"
            <4>1. CASE BaselineFetch
                BY <1>0, <4>1 DEF BaselineFetch, SyncType
            <4>2. CASE SyncSave \/ BaselineSkip
                BY <4>2 DEF SyncSave, BaselineSkip, SyncIdle
            <4>3. CASE BaselineRecord
                BY <4>3 DEF BaselineRecord, SyncIdle
            <4> QED
                BY <2>3, <4>1, <4>2, <4>3
        <3>2. UNCHANGED <<live, rooms, listed>>
            BY <2>3 DEF SyncSave, BaselineSkip, BaselineFetch, BaselineRecord
        <3> QED
            BY <3>1, <3>2
    <2> QED
        BY <1>3, <2>1, <2>2, <2>3 DEF SyncStep
<1>4. CASE PatchStep
    BY <1>4, Zenon DEF PatchStep, PatchLend, PatchReclaim, PatchReserve, PatchAttest, PatchApply,
                PatchRefused, PatchDrain
<1>5. CASE Restart
    BY <1>5 DEF Restart, SyncIdle
<1>6. CASE UNCHANGED vars
    BY <1>6 DEF vars
<1> QED
    BY <1>1, <1>2, <1>3, <1>4, <1>5, <1>6 DEF Next

\* The lend fields agree, and every launch on record is at most the running one.
LEMMA LendStep ==
    TypeOK /\ LendStateLoads /\ LaunchOrder /\ [Next]_vars => LendStateLoads' /\ LaunchOrder'
<1> SUFFICES ASSUME TypeOK, LendStateLoads, LaunchOrder, [Next]_vars
             PROVE  LendStateLoads' /\ LaunchOrder'
    OBVIOUS
<1> USE DEF LendStateLoads, FieldsAgree, machineVars, createVars, roomVars, hotelVars, syncVars
<1>a. /\ launch \in Launches /\ cfg \in HotelCfg /\ disk \in HotelCfg
      /\ sync \in SyncType /\ patch \in PatchType
    BY DEF TypeOK
<1>b. /\ launch \in Nat /\ Unknown # None /\ None \notin Launches /\ Unknown \notin Launches
    BY <1>a, LaunchFacts, ZenonT(40)
<1>c. /\ cfg.LentFrom \in Guests \cup {None}
      /\ cfg.LentReportID \in Launches \cup {None, Unknown}
    BY <1>a DEF HotelCfg
<1>0. /\ launch \in Launches /\ launch \in Nat
      /\ cfg \in HotelCfg /\ disk \in HotelCfg /\ sync \in SyncType /\ patch \in PatchType
      /\ cfg.LentFrom \in Guests \cup {None} /\ cfg.LentReportID \in Launches \cup {None, Unknown}
      /\ Unknown # None /\ None \notin Launches /\ Unknown \notin Launches
    BY <1>a, <1>b, <1>c
<1>1. ASSUME NEW c \in Creates, CreateStep(c) PROVE LendStateLoads' /\ LaunchOrder'
    <2>1. UNCHANGED <<launch, cfg, disk, patch, sync>>
        BY <1>1, ZenonT(40) DEF CreateStep, Place, Abandon, Dispatch, AnswerRunning, AnswerUnwanted,
                    AnswerFailed, AnswerLost, ReapInsert, ReapDelete, OrphanDelete,
                    OrphanRelease, OrphanGiveUp, DeleteCall, DeleteNote
    <2> QED
        BY <2>1, ZenonT(40) DEF LaunchOrder
<1>2. CASE MachineStep
    <2>1. UNCHANGED <<cfg, disk, patch, sync>> /\ launch' \in Nat /\ launch <= launch'
        BY <1>0, <1>2, SMTT(30) DEF MachineStep, HotelStarts, HotelRefuses, RoomEnds, ContainerGone, Retire, Relaunch
    <2>2. \A i \in Launches : i <= launch => i <= launch'
        BY <1>0, <2>1 DEF Launches
    <2> QED
        BY <1>0, <2>1, <2>2, Zenon DEF LaunchOrder
<1>3. CASE SyncStep
    <2>1. CASE SyncQuota \/ SyncList \/ SyncListFails \/ BaselineSkip
        <3>1. UNCHANGED <<launch, cfg, disk, patch>> /\ sync'.id \in {sync.id, None}
            <4>1. CASE SyncQuota \/ SyncList \/ SyncListFails
                BY <1>0, <4>1, Zenon DEF SyncQuota, SyncList, SyncListFails, SyncType
            <4>2. CASE BaselineSkip
                BY <4>2 DEF BaselineSkip, SyncIdle
            <4> QED
                BY <2>1, <4>1, <4>2
        <3> QED
            BY <1>0, <3>1 DEF LaunchOrder
    <2>2. CASE SyncApply
        <3>1. UNCHANGED <<launch, disk, patch>> /\ sync'.id = None
            BY <2>2 DEF SyncApply, SyncIdle
        <3>2. \/ cfg' = cfg
              \/ /\ cfg'.LentFrom = cfg.ReservedFor /\ cfg.ReservedFor # None
                 /\ cfg'.LentReportID = Unknown /\ cfg'.ReservedFor = None
            BY <1>0, <2>2 DEF SyncApply, CheckReservedRooms, HotelCfg
        <3> QED
            BY <1>0, <3>1, <3>2 DEF LaunchOrder
    <2>3. CASE SyncSave
        <3>1. UNCHANGED <<launch, cfg, patch>> /\ sync'.id = None
            BY <2>3 DEF SyncSave, SyncIdle
        <3>2. disk' = disk \/ disk' = Saved(cfg)
            BY <2>3 DEF SyncSave
        <3> QED
            BY <1>0, <3>1, <3>2, StoredType, SMTT(30) DEF LaunchOrder
    <2>4. CASE BaselineFetch
        <3>1. UNCHANGED <<launch, cfg, disk, patch>> /\ sync'.id = launch
            BY <1>0, <2>4 DEF BaselineFetch, SyncType
        <3>2. launch <= launch
            BY <1>0
        <3>3. LendStateLoads'
            BY <3>1
        <3> QED
            BY <3>1, <3>2, <3>3 DEF LaunchOrder
    <2>5. CASE BaselineRecord
        <3>1. UNCHANGED <<launch, disk, patch>> /\ sync'.id = None
            BY <2>5 DEF BaselineRecord, SyncIdle
        <3>2. sync.id \in Launches
            BY <2>5 DEF BaselineRecord, TypeOK
        <3>3. \/ cfg' = cfg
              \/ /\ cfg'.LentFrom = cfg.LentFrom /\ cfg'.ReservedFor = cfg.ReservedFor
                 /\ cfg.LentReportID = Unknown /\ cfg'.LentReportID = sync.id
            BY <1>0, <2>5, ZenonT(40) DEF BaselineRecord, HotelCfg
        <3> QED
            BY <1>0, <3>1, <3>2, <3>3 DEF LaunchOrder
    <2> QED
        BY <1>3, <2>1, <2>2, <2>3, <2>4, <2>5 DEF SyncStep
<1>4. CASE PatchStep
    <2>1. CASE PatchLend
        <3>1. /\ UNCHANGED <<launch, cfg, disk, sync>> /\ patch'.op = "lend"
              /\ patch'.owner # None /\ patch'.id = None
            BY <1>0, <2>1 DEF PatchLend, NoPatch
        <3> QED
            BY <1>0, <3>1 DEF LaunchOrder
    <2>2. ASSUME NEW g \in Guests, PatchReclaim(g) PROVE LendStateLoads' /\ LaunchOrder'
        <3>1. /\ UNCHANGED <<launch, cfg, disk, sync>> /\ patch'.op = "reclaim"
              /\ patch'.stage = "fetching" /\ patch'.id = None
              /\ patch'.lentID = cfg.LentReportID /\ cfg.LentReportID \in Launches
            BY <1>0, <2>2 DEF PatchReclaim, NoPatch
        <3> QED
            BY <1>0, <3>1 DEF LaunchOrder
    <2>3. ASSUME NEW g \in Guests \cup {None}, PatchReserve(g)
          PROVE  LendStateLoads' /\ LaunchOrder'
        <3>1. UNCHANGED <<launch, cfg, disk, sync>> /\ patch'.op = "reserve" /\ patch'.id = None
            BY <2>3 DEF PatchReserve, NoPatch
        <3> QED
            BY <1>0, <3>1 DEF LaunchOrder
    <2>4. CASE PatchAttest
        <3>1. /\ UNCHANGED <<launch, cfg, disk, sync>> /\ patch'.op = patch.op
              /\ patch'.owner = patch.owner /\ patch'.lentID = patch.lentID
              /\ patch'.id = launch /\ launch # patch.lentID /\ patch.stage # "idle"
            BY <1>0, <2>4 DEF PatchAttest, PatchType
        <3> QED
            BY <1>0, <3>1, SMTT(30) DEF LaunchOrder, Launches
    <2>5. CASE PatchApply
        <3>1. /\ UNCHANGED <<launch, sync>>
              /\ patch'.op = "none" /\ patch'.stage = "idle" /\ patch'.id = None
            BY <2>5, Zenon DEF PatchApply, NoPatch
        <3>2. cfg' \in HotelCfg
            BY <2>5, TypeStep DEF TypeOK
        <3>3. FieldsAgree(cfg)' /\ (cfg'.LentReportID \in Launches => cfg'.LentReportID <= launch)
            BY <1>0, <2>5 DEF PatchApply, Patched, LaunchOrder, PatchType, TypeOK
        <3>4. \/ disk' = Saved(cfg')
              \/ disk' = disk /\ disk.LentFrom = None
            BY <1>0, <2>5 DEF PatchApply, Applicable, PatchType, LaunchOrder
        <3>5. \/ /\ disk'.LentFrom = cfg'.LentFrom /\ disk'.LentReportID = cfg'.LentReportID
                 /\ disk'.ReservedFor \in {cfg'.ReservedFor, None}
              \/ disk' = disk /\ disk.LentFrom = None
            BY <3>2, <3>4, StoredType
        <3> QED
            BY <1>0, <3>1, <3>3, <3>5, ZenonT(40) DEF LaunchOrder
    <2>6. CASE PatchDrain
        <3>1. UNCHANGED <<launch, sync, patch>> /\ cfg' \in HotelCfg
            BY <2>6, TypeStep DEF PatchDrain, TypeOK
        <3>2. /\ cfg'.LentFrom = cfg.LentFrom /\ cfg'.ReservedFor = cfg.ReservedFor
              /\ cfg'.LentReportID = cfg.LentReportID
            BY <1>0, <2>6 DEF PatchDrain, HotelCfg
        <3>3. disk' = disk \/ disk' = Saved(cfg')
            BY <2>6 DEF PatchDrain
        <3>4. \/ disk' = disk
              \/ /\ disk'.LentFrom = cfg'.LentFrom /\ disk'.LentReportID = cfg'.LentReportID
                 /\ disk'.ReservedFor \in {cfg'.ReservedFor, None}
            BY <3>1, <3>3, StoredType
        <3>5. LendStateLoads'
            BY <3>2, <3>4
        <3>6. LaunchOrder'
            BY <3>1, <3>2, <3>4, ZenonT(40) DEF LaunchOrder
        <3> QED
            BY <3>5, <3>6
    <2>7. CASE PatchRefused
        <3>1. /\ UNCHANGED <<launch, cfg, disk, sync>>
              /\ patch'.op = "none" /\ patch'.stage = "idle" /\ patch'.id = None
            BY <2>7, ZenonT(40) DEF PatchRefused, NoPatch
        <3> QED
            BY <1>0, <3>1, ZenonT(40) DEF LaunchOrder
    <2> QED
        BY <1>4, <2>1, <2>2, <2>3, <2>4, <2>5, <2>6, <2>7, ZenonT(40) DEF PatchStep
<1>5. CASE Restart
    <2>1. /\ UNCHANGED <<launch, disk>> /\ cfg' = Loaded(disk) /\ sync'.id = None
          /\ patch'.op = "none" /\ patch'.stage = "idle" /\ patch'.id = None
        BY <1>5, ZenonT(40) DEF Restart, SyncIdle, NoPatch
    <2>2. /\ cfg'.LentReportID = disk.LentReportID /\ cfg'.LentFrom = disk.LentFrom
          /\ disk.LentFrom # None => cfg'.ReservedFor \in {disk.ReservedFor, None}
        BY <1>0, <2>1, StoredType, ZenonT(40) DEF TypeOK
    <2> QED
        BY <1>0, <2>1, <2>2, ZenonT(40) DEF LaunchOrder
<1>6. CASE UNCHANGED vars
    BY <1>6, ZenonT(40) DEF vars, LaunchOrder
<1> QED
    BY <1>1, <1>2, <1>3, <1>4, <1>5, <1>6 DEF Next

\* Strangers stay out: the reservation appears only over a table without them,
\* and once it stands they come in only by a list, which ends it.
LEMMA StrangerStep ==
    IInv /\ [Next]_vars => NoStrangerOnReserved' /\ ListedStrangersRefused'
<1> SUFFICES ASSUME IInv, [Next]_vars PROVE NoStrangerOnReserved' /\ ListedStrangersRefused'
    BY ZenonT(40)
<1> USE DEF NoStrangerOnReserved, ListedStrangersRefused, InFlight, machineVars, createVars, roomVars,
            hotelVars, syncVars
<1>0. /\ call \in [Creates -> CallState] /\ rooms \in [Creates -> RoomState]
      /\ pc \in [Creates -> CreatePC] /\ live \subseteq Creates /\ listed \subseteq Creates
      /\ owner \in [Creates -> Guests \cup {None}] /\ cfg \in HotelCfg
      /\ sync.list \subseteq Creates /\ RoomsStarted /\ ListedKept
      /\ NoStrangerOnReserved /\ ListedStrangersRefused
    BY DEF IInv, TypeOK, SyncType
<1>k. ListedKept'
    BY ListedStep, ZenonT(40) DEF IInv
<1>1. ASSUME NEW c \in Creates, CreateStep(c)
      PROVE  NoStrangerOnReserved' /\ ListedStrangersRefused'
    <2>1. ASSUME NEW g \in Guests, Place(c, g)
          PROVE  NoStrangerOnReserved' /\ ListedStrangersRefused'
        BY <1>0, <2>1 DEF Place
    <2>2. CASE Abandon(c) \/ Dispatch(c)
        BY <1>0, <2>2, ZenonT(40) DEF Abandon, Dispatch
    <2>3. CASE AnswerRunning(c)
        BY <1>0, <2>3 DEF AnswerRunning
    <2>4. CASE AnswerUnwanted(c) \/ AnswerFailed(c) \/ AnswerLost(c)
        BY <1>0, <2>4, ZenonT(40) DEF AnswerUnwanted, AnswerFailed, AnswerLost
    <2>5. CASE ReapInsert(c) \/ ReapDelete(c)
        BY <1>0, <2>5, SMTT(30) DEF ReapInsert, ReapDelete, Retire
    <2>6. CASE OrphanDelete(c) \/ OrphanRelease(c) \/ OrphanGiveUp(c)
        BY <1>0, <2>6, ZenonT(40) DEF Retire, OrphanDelete, OrphanRelease, OrphanGiveUp
    <2>7. CASE DeleteCall(c) \/ DeleteNote(c)
        BY <1>0, <2>7, ZenonT(40) DEF Retire, DeleteCall, DeleteNote
    <2> QED
        BY <1>1, <2>1, <2>2, <2>3, <2>4, <2>5, <2>6, <2>7, ZenonT(40) DEF CreateStep
<1>2. CASE MachineStep
    <2>1. ASSUME NEW c \in Creates, HotelStarts(c)
          PROVE  NoStrangerOnReserved' /\ ListedStrangersRefused'
        BY <1>0, <2>1, ZenonT(40) DEF HotelStarts, RoomsStarted
    <2>2. ASSUME NEW c \in Creates, HotelRefuses(c) \/ RoomEnds(c) \/ ContainerGone(c)
          PROVE  NoStrangerOnReserved' /\ ListedStrangersRefused'
        BY <1>0, <2>2 DEF HotelRefuses, RoomEnds, ContainerGone, Retire
    <2>3. CASE Relaunch
        BY <1>0, <2>3, ZenonT(40) DEF Relaunch
    <2> QED
        BY <1>2, <2>1, <2>2, <2>3, ZenonT(40) DEF MachineStep
<1>3. CASE SyncStep
    <2>1. CASE SyncApply
        <3> SUFFICES ASSUME cfg'.ReservedFor # None
                     PROVE  NoStrangerOnReserved' /\ ListedStrangersRefused'
            OBVIOUS
        <3>1. cfg' = cfg
            BY <1>0, <2>1 DEF SyncApply, CheckReservedRooms, HotelCfg
        <3>2. ~Foreign({c \in Creates : rooms'[c] # "none"}, cfg.ReservedFor)
            BY <1>0, <2>1, <3>1, NoneAssumption DEF SyncApply, CheckReservedRooms, HotelCfg
        <3>3. \A c \in Creates : rooms'[c] # "none" => owner'[c] = cfg'.ReservedFor
            BY <2>1, <3>1, <3>2 DEF SyncApply, Foreign
        <3>4. NoStrangerOnReserved'
            BY <1>0, <2>1, <3>1, <3>3, Zenon DEF SyncApply
        <3>5. ListedStrangersRefused'
            BY <1>0, <1>k, <2>1, <3>3 DEF SyncApply, ListedKept, Table
        <3> QED
            BY <3>4, <3>5
    <2>2. CASE SyncQuota \/ SyncList \/ SyncListFails \/ SyncSave \/ BaselineSkip \/ BaselineFetch
        BY <1>0, <2>2 DEF SyncQuota, SyncList, SyncListFails, SyncSave, BaselineSkip, BaselineFetch
    <2>3. CASE BaselineRecord
        <3>1. UNCHANGED <<rooms, pc, owner, live, listed>>
            BY <2>3 DEF BaselineRecord
        <3>2. cfg'.ReservedFor = cfg.ReservedFor
            BY <1>0, <2>3, ZenonT(40) DEF BaselineRecord, HotelCfg
        <3> QED
            BY <1>0, <3>1, <3>2
    <2> QED
        BY <1>3, <2>1, <2>2, <2>3 DEF SyncStep
<1>4. CASE PatchStep
    <2>1. CASE PatchApply
        <3> SUFFICES ASSUME cfg'.ReservedFor # None
                     PROVE  NoStrangerOnReserved' /\ ListedStrangersRefused'
            OBVIOUS
        <3>0. UNCHANGED <<rooms, pc, owner, live, listed>>
            BY <2>1, Zenon DEF PatchApply
        <3>1. cfg'.ReservedFor = patch.owner /\ patch.op # "lend"
            BY <2>1 DEF PatchApply, Patched
        <3>2. \/ Empty
              \/ cfg.ReservedFor = patch.owner
              \/ InFlight = {} /\ ~Foreign(Table, patch.owner)
            BY <2>1, <3>1 DEF PatchApply, Applicable, NotBusy, MayReserve
        <3>3. CASE Empty
            BY <1>0, <3>0, <3>3, ZenonT(40) DEF Empty, Table, ListedKept
        <3>4. CASE cfg.ReservedFor = patch.owner
            BY <1>0, <3>0, <3>1, <3>4
        <3>5. CASE InFlight = {} /\ ~Foreign(Table, patch.owner)
            BY <1>0, <3>0, <3>1, <3>5 DEF Foreign, Table, ListedKept
        <3> QED
            BY <3>2, <3>3, <3>4, <3>5, ZenonT(40)
    <2>2. CASE PatchDrain
        <3>1. UNCHANGED <<rooms, pc, owner, live, listed>>
            BY <2>2 DEF PatchDrain
        <3>2. cfg'.ReservedFor = cfg.ReservedFor
            BY <1>0, <2>2, ZenonT(40) DEF PatchDrain, HotelCfg
        <3> QED
            BY <1>0, <3>1, <3>2
    <2>3. CASE PatchLend \/ PatchAttest \/ PatchRefused
               \/ (\E g \in Guests : PatchReclaim(g))
               \/ (\E g \in Guests \cup {None} : PatchReserve(g))
        BY <1>0, <2>3, ZenonT(40) DEF PatchLend, PatchAttest, PatchRefused, PatchReclaim, PatchReserve
    <2> QED
        BY <1>4, <2>1, <2>2, <2>3 DEF PatchStep
<1>5. CASE Restart
    BY <1>5 DEF Restart, CreatePC
<1>6. CASE UNCHANGED vars
    BY <1>0, <1>6, ZenonT(40) DEF vars
<1> QED
    BY <1>1, <1>2, <1>3, <1>4, <1>5, <1>6 DEF Next

\* Every step of a create, the hotel, the sync, a patch and a restart keeps the inductive invariant.
LEMMA IInvInductive == IInv /\ [Next]_vars => IInv'
    BY TypeStep, StartedStep, ListedStep, LendStep, StrangerStep DEF IInv

\* The inductive invariant holds in every reachable state.
LEMMA IInvAlways == Spec => []IInv
    BY InitIInv, IInvInductive, PTL DEF Spec

-----------------------------------------------------------------------------
(* What holds for every hotel, whatever the number of guests and creates   *)
(* and whatever fails.                                                     *)

\* The broker's state stays well formed.
THEOREM TypeCorrect == Spec => []TypeOK
<1>1. IInv => TypeOK
    BY DEF IInv
<1> QED
    BY <1>1, IInvAlways, PTL

\* On a reserved hotel the broker never counts a room as running, nor has it a
\* create placed, that is not the owner's.
THEOREM ReservedIsOwners == Spec => []NoStrangerOnReserved
<1>1. IInv => NoStrangerOnReserved
    BY DEF IInv
<1> QED
    BY <1>1, IInvAlways, PTL

\* A listed stranger keeps the hotel from being reserved while it is listed.
THEOREM StrangersRefused == Spec => []ListedStrangersRefused
<1>1. IInv => ListedStrangersRefused
    BY DEF IInv
<1> QED
    BY <1>1, IInvAlways, PTL

\* The lend fields, in memory and on disk, always pass lendConfigError.
THEOREM LendStateAlwaysLoads == Spec => []LendStateLoads
<1>1. IInv => LendStateLoads
    BY DEF IInv
<1> QED
    BY <1>1, IInvAlways, PTL

\* A saved lend ends only by a reclaim on a later launch than the recorded one.
THEOREM SavedLendEndsByReclaim == Spec => LendEndsByReclaim
<1> DEFINE Ends == disk.LentFrom # None /\ cfg'.LentFrom = None =>
                       cfg.LentReportID \in Launches /\ cfg.LentReportID < launch
<1>1. IInv /\ [Next]_vars => [Ends]_vars
    <2> SUFFICES ASSUME IInv, Next, disk.LentFrom # None, cfg'.LentFrom = None
                 PROVE  cfg.LentReportID \in Launches /\ cfg.LentReportID < launch
        BY ZenonT(40)
    <2>0. /\ cfg \in HotelCfg /\ disk \in HotelCfg /\ patch \in PatchType
          /\ cfg.LentFrom # None /\ launch \in Launches
        BY Zenon DEF IInv, TypeOK, LaunchOrder
    <2>1. cfg' # cfg
        BY <2>0, ZenonT(40)
    <2>2. SyncApply \/ BaselineRecord \/ PatchApply \/ PatchDrain \/ Restart
        BY <2>1, ZenonT(40) DEF Next, CreateStep, MachineStep, SyncStep, PatchStep, Place, Abandon, Dispatch,
            AnswerRunning, AnswerUnwanted, AnswerFailed, AnswerLost, ReapInsert, ReapDelete,
            OrphanDelete, OrphanRelease, OrphanGiveUp, DeleteCall, DeleteNote, HotelStarts,
            HotelRefuses, RoomEnds, ContainerGone, Relaunch,
            SyncQuota, SyncList, SyncListFails, SyncSave, BaselineSkip,
            BaselineFetch, PatchLend, PatchReclaim, PatchReserve, PatchAttest, PatchRefused,
            hotelVars
    <2>3. ~(BaselineRecord \/ PatchDrain)
        BY <2>0 DEF BaselineRecord, PatchDrain, HotelCfg
    <2>4. ~SyncApply
        <3>1. SyncApply => cfg' = cfg \/ (cfg.ReservedFor # None /\ cfg'.LentFrom = cfg.ReservedFor)
            BY <2>0 DEF SyncApply, CheckReservedRooms, HotelCfg
        <3> QED
            BY <2>1, <3>1, Zenon
    <2>5. ~Restart
        BY <2>0, StoredType, ZenonT(40) DEF Restart
    <2>6. CASE PatchApply
        <3>1. patch.op = "reclaim" /\ cfg.LentReportID = patch.lentID /\ patch.stage = "ready"
            BY <2>0, <2>6 DEF PatchApply, Applicable, Patched, IInv, LaunchOrder
        <3> QED
            BY <2>0, <3>1 DEF IInv, LaunchOrder, Launches
    <2> QED
        BY <2>2, <2>3, <2>4, <2>5, <2>6
<1> QED
    BY <1>1, IInvAlways, PTL DEF Spec, LendEndsByReclaim

=============================================================================

-------------------------------- MODULE Lend --------------------------------
(***************************************************************************)
(* One sealed hotel of the thin broker: who may hold rooms on it.          *)
(*                                                                         *)
(* Models broker/lend.go, the reserved_for / lend / drain part of          *)
(* patchHotel (broker/hotels.go), the room part of syncHotel and the life  *)
(* of a create on one hotel (broker/main.go, broker/inflight.go), and what *)
(* a broker restart keeps.  Every critical section under b.mu is one       *)
(* action; every call made with no lock held ends an action.               *)
(*                                                                         *)
(* A create asks this hotel at most once (createOne never picks a hotel it *)
(* tried), so a create and the room it may start share one identifier.     *)
(* Health, attestation and capacity can only withhold a placement; here    *)
(* they are the freedom not to take Place.                                 *)
(*                                                                         *)
(* The machine's side is cathedral/sandbox_guest.py: a room that is        *)
(* deleted or expires is hidden from the room list at once, and its        *)
(* container runs on until docker has removed it.                          *)
(***************************************************************************)
EXTENDS Naturals, FiniteSets

CONSTANTS
    Guests,         \* guest ids
    Creates,        \* create requests; also the ids of the rooms they start
    None,           \* "" in the code
    Unknown,        \* lentReportUnknown
    Runtime,        \* TRUE: a joined hotel, FALSE: a hotel of the config file
    ConfigReserved, \* reserved_for in the config file (or at the join)
    Faults,         \* which of "lost", "gone", "crash", "disk" and "linger" (a
                    \* hidden room's container outlives the call) may happen
    MaxLaunch,      \* bound: SNP launches of the machine
    MaxRestarts     \* bound: broker restarts

ASSUME NoneAssumption == None \notin Guests
ASSUME UnknownAssumption == Unknown \notin Nat /\ None \notin Nat /\ Unknown # None
ASSUME ReservedAssumption == ConfigReserved \in Guests \cup {None}
ASSUME CreatesAssumption == IsFiniteSet(Creates)
ASSUME RuntimeAssumption == Runtime \in BOOLEAN
ASSUME BoundsAssumption == MaxLaunch \in Nat \ {0} /\ MaxRestarts \in Nat

VARIABLES
    \* The machine.
    launch,     \* REPORT_ID of the running SNP launch
    call,       \* create -> what the machine did with its POST /v1/sandboxes
    live,       \* rooms the machine lists
    hidden,     \* rooms "deleting" in the machine: not listed, container not gone
    \* The broker's memory.
    cfg,        \* the hotel fields PATCH changes
    rooms,      \* h.rooms: create -> how the broker sees its room
    later,      \* <<c, d>>: both are deleting and c's room.vanished is after d's
    apiDeleting,\* h.apiDeleting: the hidden rooms the last quota answer counted
    unchecked,  \* h.roomsUnchecked
    owner,      \* create -> its guest
    pc,         \* create -> where its createOne (or its delete) is
    sync,       \* the hotel's sync loop
    patch,      \* the PATCH that holds hotelsMutationMu
    \* state_dir.
    disk,       \* hotels.json or hotel-lends.json
    \* Bookkeeping.
    restarts,   \* broker restarts so far
    listed,     \* rooms some applied room list showed since the broker started
    tenants     \* guests that have had a room in the running launch

machineVars == <<launch, call, live, hidden, tenants>>
roomVars == <<rooms, later>>
createVars == <<roomVars, owner, pc>>
hotelVars == <<cfg, patch, disk>>
syncVars == <<sync, unchecked, listed, apiDeleting>>
vars == <<machineVars, createVars, hotelVars, syncVars, restarts>>

-----------------------------------------------------------------------------
(* Types.                                                                  *)

Launches == 1..MaxLaunch

\* hotelConfig, the fields guarded by h.cfgMu.
HotelCfg == [ReservedFor : Guests \cup {None}, LentFrom : Guests \cup {None},
             LentReportID : Launches \cup {None, Unknown}, Drain : BOOLEAN]

\* room.state with room.deleteSent: "deleting" is stDeleting with no delete
\* sent, which a later room list may turn back into "running".
RoomState == {"none", "running", "deleting", "deleteSent"}

\* A create: not received, counted in h.queued, counted in h.creating, between
\* the two locks of a reap, in reapRoom's deletes, its answer lost, its orphan
\* deleted by reapOrphans, deleted by its guest, or nothing in progress.
CreatePC == {"new", "queued", "creating", "released", "reaping", "lost", "orphan",
             "deleted", "done"}

CallState == {"none", "pending", "started", "failed"}

SyncType == [pc : {"idle", "listed", "forced", "baseline", "fetched", "recorded"},
             list : SUBSET Creates, id : Launches \cup {None}]

SyncIdle == [pc |-> "idle", list |-> {}, id |-> None]

NoPatch == [stage |-> "idle", op |-> "none", owner |-> None, id |-> None, lentID |-> None]

PatchType == [stage : {"idle", "fetching", "ready"}, op : {"none", "lend", "reclaim", "reserve"},
              owner : Guests \cup {None}, id : Launches \cup {None},
              lentID : Launches \cup {None, Unknown}]

-----------------------------------------------------------------------------
(* Counts and checks read under b.mu.                                      *)

\* h.rooms.
Table == {c \in Creates : rooms[c] # "none"}

\* h.queued and h.creating.
InFlight == {c \in Creates : pc[c] \in {"queued", "creating"}}

\* h.used() = 0.
Empty == Table = {} /\ InFlight = {}

\* ownerBusy(h, g) = 0.
OwnerIdle(g) == InFlight = {} /\ \A c \in Table : owner[c] # g

\* foreignRooms(h, g) > 0 in table t.
Foreign(t, g) == \E c \in t : owner[c] # g

MayReserve_RoomsOnly(g) == g \in {None, cfg.ReservedFor} \/ ~Foreign(Table, g)

\* reserveErr(h, g) = nil for a sealed hotel.
MayReserve(g) ==
    \/ g = None
    \/ g = cfg.ReservedFor
    \/ InFlight = {} /\ ~Foreign(Table, g)

NotBusy_CreatesOnly(p) == p.op \in {"lend", "reclaim"} => InFlight = {}

\* lendChange.busyErr(h) = nil.
NotBusy(p) ==
    /\ p.op = "lend" => OwnerIdle(p.owner)
    /\ p.op = "reclaim" => Empty

\* What saveLendStateLocked / saveRuntimeHotelsLocked leave on disk.  The file
\* of a config hotel holds its lend fields only.
Saved(c) ==
    IF Runtime THEN c
    ELSE [c EXCEPT !.ReservedFor = None, !.Drain = FALSE]

Loaded_ConfigWins(d) ==
    [d EXCEPT !.ReservedFor = ConfigReserved, !.LentFrom = None, !.LentReportID = None]

\* What loadRuntimeHotels, or loadBroker with loadConfigLends, make of it.
Loaded(d) ==
    IF Runtime THEN d
    ELSE [d EXCEPT !.ReservedFor = IF d.LentFrom = None THEN ConfigReserved ELSE None]

Init ==
    /\ launch = 1
    /\ call = [c \in Creates |-> "none"]
    /\ live = {}
    /\ hidden = {}
    /\ disk = Saved([ReservedFor |-> ConfigReserved, LentFrom |-> None,
                     LentReportID |-> None, Drain |-> FALSE])
    /\ cfg = Loaded(disk)
    /\ rooms = [c \in Creates |-> "none"]
    /\ later = {}
    /\ apiDeleting = 0
    /\ unchecked \in {TRUE, ~Runtime}   \* FALSE: just joined
    /\ owner = [c \in Creates |-> None]
    /\ pc = [c \in Creates |-> "new"]
    /\ sync = SyncIdle
    /\ patch = NoPatch
    /\ restarts = 0
    /\ listed = {}
    /\ tenants = {}

-----------------------------------------------------------------------------
(* The machine.                                                            *)

\* _retire: the record turns to "deleting", which no list shows and the quota
\* counts until the container is gone.
Retire(c) ==
    /\ live' = live \ {c}
    /\ hidden' = IF "linger" \in Faults THEN hidden \cup (live \cap {c}) ELSE hidden

\* The machine makes the record of a create it has received, which lists show,
\* and starts its container: one step, as nothing here tells them apart.
HotelStarts(c) ==
    /\ call[c] = "pending"
    /\ call' = [call EXCEPT ![c] = "started"]
    /\ live' = live \cup {c}
    /\ tenants' = tenants \cup {owner[c]}
    /\ UNCHANGED <<launch, hidden, createVars, hotelVars, syncVars, restarts>>

\* It refuses the create before it has made a record.
HotelRefuses(c) ==
    /\ call[c] = "pending"
    /\ call' = [call EXCEPT ![c] = "failed"]
    /\ UNCHANGED <<launch, live, hidden, tenants, createVars, hotelVars, syncVars, restarts>>

\* mark_expired: the room's time is over; or the start failed after the record was
\* made, and create deletes what it made.
RoomEnds(c) ==
    /\ c \in live
    /\ Retire(c)
    /\ UNCHANGED <<launch, call, tenants, createVars, hotelVars, syncVars, restarts>>

\* A removal, of the DELETE itself or of a later sweep, succeeds: _confirm_removed
\* drops the record.  A removal that fails leaves all as it is.
ContainerGone(c) ==
    /\ c \in hidden
    /\ hidden' = hidden \ {c}
    /\ UNCHANGED <<launch, call, live, tenants, createVars, hotelVars, syncVars, restarts>>

\* The operator destroys the machine and seals it again: a new REPORT_ID, no
\* room and no call of the old launch survives.
Relaunch ==
    /\ launch < MaxLaunch
    /\ launch' = launch + 1
    /\ live' = {}
    /\ hidden' = {}
    /\ call' = [c \in Creates |-> IF call[c] = "pending" THEN "failed" ELSE call[c]]
    /\ tenants' = {}
    /\ UNCHANGED <<createVars, hotelVars, syncVars, restarts>>

-----------------------------------------------------------------------------
(* A create on this hotel (createOne), and the deletes.                    *)

Place_NoGuest(c, g) ==
    /\ pc[c] = "new" /\ ~cfg.Drain
    /\ pc' = [pc EXCEPT ![c] = "queued"]
    /\ UNCHANGED <<machineVars, roomVars, owner, hotelVars, syncVars, restarts>>

\* pick chooses the hotel for a create of g: placement.selects and
\* admissibleFree, with the create counted in h.queued before b.mu is free.
Place(c, g) ==
    /\ pc[c] = "new"
    /\ ~cfg.Drain
    /\ ~(unchecked /\ cfg.ReservedFor # None)
    /\ cfg.ReservedFor \in {None, g}
    /\ cfg.LentFrom # g
    /\ pc' = [pc EXCEPT ![c] = "queued"]
    /\ owner' = [owner EXCEPT ![c] = g]
    /\ UNCHANGED <<machineVars, roomVars, hotelVars, syncVars, restarts>>

\* The queued create leaves: guest gone, deleted by label, hotel leaving or no
\* longer admitted, or moved to another hotel by waitSlot.
Abandon(c) ==
    /\ pc[c] = "queued"
    /\ pc' = [pc EXCEPT ![c] = "done"]
    /\ UNCHANGED <<machineVars, roomVars, owner, hotelVars, syncVars, restarts>>

\* It has its slot: h.queued--, h.creating++, POST /v1/sandboxes.
Dispatch(c) ==
    /\ pc[c] = "queued"
    /\ pc' = [pc EXCEPT ![c] = "creating"]
    /\ call' = [call EXCEPT ![c] = "pending"]
    /\ UNCHANGED <<launch, live, hidden, tenants, roomVars, owner, hotelVars, syncVars, restarts>>

\* room.vanished is now for the rooms of new, which are deleting in rooms'.
VanishNow(new) ==
    LET deleting == {c \in Creates : rooms'[c] \in {"deleting", "deleteSent"}}
        before == deleting \ new
    IN  later' = (later \cap (before \X before)) \cup (new \X before)

\* The hotel answers with the room: h.creating-- and h.rooms[hid] = rm.
AnswerRunning(c) ==
    /\ pc[c] = "creating" /\ call[c] = "started"
    /\ pc' = [pc EXCEPT ![c] = "done"]
    /\ rooms' = [rooms EXCEPT ![c] = "running"]
    /\ VanishNow({})
    /\ UNCHANGED <<machineVars, owner, hotelVars, syncVars, restarts>>

\* It answers with a room nobody wants (guest gone, deleted by label, tunables
\* missing): h.creating-- and b.mu is released before reapRoom takes it again.
AnswerUnwanted(c) ==
    /\ "gone" \in Faults
    /\ pc[c] = "creating" /\ call[c] = "started"
    /\ pc' = [pc EXCEPT ![c] = "released"]
    /\ UNCHANGED <<machineVars, roomVars, owner, hotelVars, syncVars, restarts>>

\* reapRoom's locked part.
ReapInsert(c) ==
    /\ pc[c] = "released"
    /\ pc' = [pc EXCEPT ![c] = "reaping"]
    /\ rooms' = [rooms EXCEPT ![c] = "deleting"]
    /\ VanishNow({c})
    /\ UNCHANGED <<machineVars, owner, hotelVars, syncVars, restarts>>

\* reapRoom's DELETE: taken, or three attempts in vain.
ReapDelete(c) ==
    /\ pc[c] = "reaping"
    /\ pc' = [pc EXCEPT ![c] = "done"]
    /\ \/ Retire(c)
       \/ "lost" \in Faults /\ UNCHANGED <<live, hidden>>
    /\ UNCHANGED <<launch, call, tenants, roomVars, owner, hotelVars, syncVars, restarts>>

\* The hotel answers that it did not start the room, or has it no more.
AnswerFailed(c) ==
    /\ pc[c] = "creating"
    /\ \/ call[c] = "failed"
       \/ call[c] = "started" /\ c \notin live
    /\ pc' = [pc EXCEPT ![c] = "done"]
    /\ UNCHANGED <<machineVars, roomVars, owner, hotelVars, syncVars, restarts>>

\* No answer: h.creating--, and the hotel is one of the request's lost hotels.
AnswerLost(c) ==
    /\ "lost" \in Faults
    /\ pc[c] = "creating"
    /\ pc' = [pc EXCEPT ![c] = "lost"]
    /\ UNCHANGED <<machineVars, roomVars, owner, hotelVars, syncVars, restarts>>

\* A pass of reapOrphans lists the room and deletes it ...
OrphanDelete(c) ==
    /\ pc[c] = "lost" /\ c \in live
    /\ pc' = [pc EXCEPT ![c] = "orphan"]
    /\ Retire(c)
    /\ UNCHANGED <<launch, call, tenants, roomVars, owner, hotelVars, syncVars, restarts>>

\* ... and drops the entry the sync loop may have made for it.
OrphanRelease(c) ==
    /\ pc[c] = "orphan"
    /\ pc' = [pc EXCEPT ![c] = "done"]
    /\ rooms' = [rooms EXCEPT ![c] = "none"]
    /\ VanishNow({})
    /\ UNCHANGED <<machineVars, owner, hotelVars, syncVars, restarts>>

\* A pass finds no such room (the machine may still be starting it), or the
\* retries are used up: reapOrphans ends.
OrphanGiveUp(c) ==
    /\ pc[c] = "lost"
    /\ pc' = [pc EXCEPT ![c] = "done"]
    /\ UNCHANGED <<machineVars, roomVars, owner, hotelVars, syncVars, restarts>>

\* handleRoom DELETE: the owner's call to the hotel, then the note under b.mu.
\* (On a room adopted before its create answered, RoomEnds has the same effect.)
DeleteCall(c) ==
    /\ pc[c] = "done" /\ c \in Table
    /\ pc' = [pc EXCEPT ![c] = "deleted"]
    /\ Retire(c)
    /\ UNCHANGED <<launch, call, tenants, roomVars, owner, hotelVars, syncVars, restarts>>

DeleteNote(c) ==
    /\ pc[c] = "deleted"
    /\ pc' = [pc EXCEPT ![c] = "done"]
    /\ rooms' = [rooms EXCEPT ![c] = IF @ = "none" THEN "none" ELSE "deleteSent"]
    /\ VanishNow(IF rooms[c] = "running" THEN {c} ELSE {})
    /\ UNCHANGED <<machineVars, owner, hotelVars, syncVars, restarts>>

-----------------------------------------------------------------------------
(* The sync loop (syncHotel with its deferred calls), one round at a time. *)

\* GET /v1/quota, before the list: how many rooms are hidden.  A round whose
\* call fails does not take it, and keeps the old count.
SyncQuota ==
    /\ sync.pc = "idle"
    /\ apiDeleting' = Cardinality(hidden)
    /\ UNCHANGED <<machineVars, createVars, hotelVars, sync, unchecked, listed, restarts>>

\* GET /v1/sandboxes: the list is what the hotel shows when it builds it.
SyncList ==
    /\ sync.pc = "idle"
    /\ sync' = [sync EXCEPT !.pc = "listed", !.list = live]
    /\ UNCHANGED <<machineVars, createVars, hotelVars, unchecked, listed, apiDeleting, restarts>>

\* The list call fails: nothing about rooms changes in this round.
SyncListFails ==
    /\ sync.pc = "idle"
    /\ sync' = [sync EXCEPT !.pc = "baseline"]
    /\ UNCHANGED <<machineVars, createVars, hotelVars, unchecked, listed, apiDeleting, restarts>>

\* The room table after a list: a listed room is adopted, or runs again when
\* no delete was sent; a running room not listed turns to deleting once it is
\* 5 s old (vanished); a deleting one may leave (gone).
Relisted(list, vanished, gone) ==
    [c \in Creates |->
        CASE c \in list /\ rooms[c] \in {"none", "deleting"} -> "running"
          [] c \in vanished -> "deleting"
          [] c \in gone -> "none"
          [] OTHER -> rooms[c]]

\* What the round may release: of the deleting rooms, all but the apiDeleting
\* most recently gone ones, once they are 2 s gone and not listed.  The 2 s
\* leave a room's age open, but an older room is due before a younger one.
Released(list, vanished) ==
    LET again == {c \in list : rooms[c] = "deleting"}
        deleting == vanished \cup {c \in Creates \ again : rooms[c] \in {"deleting", "deleteSent"}}
        Due(due) == /\ \A p \in later : p[1] \in due /\ p[2] \in deleting => p[2] \in due
                    /\ Cardinality(deleting \ due) >= apiDeleting
    IN  {due \ list : due \in {d \in SUBSET (deleting \ vanished) : d # {} => Due(d)}}

CheckReservedRooms_Off(t) == cfg

CheckReservedRooms_KeepsReserved(t) ==
    IF cfg.ReservedFor # None /\ Foreign(t, cfg.ReservedFor)
    THEN [cfg EXCEPT !.LentFrom = cfg.ReservedFor, !.LentReportID = Unknown]
    ELSE cfg

\* checkReservedRooms on table t: the hotel fields it leaves.
CheckReservedRooms(t) ==
    IF cfg.ReservedFor # None /\ Foreign(t, cfg.ReservedFor)
    THEN [cfg EXCEPT !.LentFrom = cfg.ReservedFor, !.LentReportID = Unknown, !.ReservedFor = None]
    ELSE cfg

\* The locked part of the round.
SyncApply ==
    /\ sync.pc = "listed"
    /\ \E vanished \in SUBSET {c \in Creates \ sync.list : rooms[c] = "running"} :
       \E gone \in Released(sync.list, vanished) :
           /\ rooms' = Relisted(sync.list, vanished, gone)
           /\ VanishNow(vanished)
    /\ cfg' = CheckReservedRooms({c \in Creates : rooms'[c] # "none"})
    /\ sync' = [SyncIdle EXCEPT !.pc = IF cfg' # cfg THEN "forced" ELSE "baseline"]
    /\ unchecked' = FALSE
    /\ listed' = listed \cup sync.list
    /\ UNCHANGED <<machineVars, owner, pc, patch, disk, apiDeleting, restarts>>

\* saveLendStateLogged, after a forced lend or a recorded baseline: it waits
\* for hotelsMutationMu, and a failed write is only logged.
SyncSave ==
    /\ sync.pc \in {"forced", "recorded"}
    /\ patch.stage = "idle"
    /\ \/ disk' = Saved(cfg)
       \/ "disk" \in Faults /\ disk' = disk
    /\ sync' = [SyncIdle EXCEPT !.pc = IF sync.pc = "forced" THEN "baseline" ELSE "idle"]
    /\ UNCHANGED <<machineVars, createVars, cfg, patch, unchecked, listed, apiDeleting, restarts>>

\* fillLentBaseline has nothing to do, is not due, or fetches no report.
BaselineSkip ==
    /\ sync.pc = "baseline"
    /\ sync' = SyncIdle
    /\ UNCHANGED <<machineVars, createVars, hotelVars, unchecked, listed, apiDeleting, restarts>>

BaselineFetch ==
    /\ sync.pc = "baseline"
    /\ cfg.LentReportID = Unknown
    /\ sync' = [sync EXCEPT !.pc = "fetched", !.id = launch]
    /\ UNCHANGED <<machineVars, createVars, hotelVars, unchecked, listed, apiDeleting, restarts>>

BaselineRecord_NotKept ==
    /\ sync.pc = "fetched"
    /\ sync' = [SyncIdle EXCEPT !.pc = "recorded"]
    /\ UNCHANGED <<machineVars, createVars, hotelVars, unchecked, listed, apiDeleting, restarts>>

\* The locked part of fillLentBaseline.
BaselineRecord ==
    /\ sync.pc = "fetched"
    /\ \/ /\ cfg.LentReportID = Unknown
          /\ cfg' = [cfg EXCEPT !.LentReportID = sync.id]
          /\ sync' = [SyncIdle EXCEPT !.pc = "recorded"]
       \/ /\ cfg.LentReportID # Unknown
          /\ cfg' = cfg
          /\ sync' = SyncIdle
    /\ UNCHANGED <<machineVars, createVars, patch, disk, unchecked, listed, apiDeleting, restarts>>

-----------------------------------------------------------------------------
(* PATCH /v1/broker/hotels/<id>, under hotelsMutationMu.                   *)

\* prepareLend up to its call, for {"lend": true} ...
PatchLend ==
    /\ patch.stage = "idle"
    /\ cfg.LentFrom = None /\ cfg.ReservedFor # None
    /\ patch' = [NoPatch EXCEPT !.stage = "fetching", !.op = "lend", !.owner = cfg.ReservedFor]
    /\ NotBusy(patch')
    /\ UNCHANGED <<machineVars, createVars, cfg, disk, syncVars, restarts>>

\* ... for {"reserved_for": g} on a lent hotel ...
PatchReclaim(g) ==
    /\ patch.stage = "idle"
    /\ cfg.LentFrom # None /\ cfg.LentReportID # Unknown
    /\ patch' = [NoPatch EXCEPT !.stage = "fetching", !.op = "reclaim", !.owner = g,
                                !.lentID = cfg.LentReportID]
    /\ NotBusy(patch')
    /\ UNCHANGED <<machineVars, createVars, cfg, disk, syncVars, restarts>>

\* ... and for {"reserved_for": g or null} on one that is not lent.
PatchReserve(g) ==
    /\ patch.stage = "idle"
    /\ cfg.LentFrom = None
    /\ patch' = [NoPatch EXCEPT !.stage = "ready", !.op = "reserve", !.owner = g]
    /\ UNCHANGED <<machineVars, createVars, cfg, disk, syncVars, restarts>>

\* launchReportID of prepareLend: a reclaim needs another launch.
PatchAttest ==
    /\ patch.stage = "fetching"
    /\ launch # patch.lentID
    /\ patch' = [patch EXCEPT !.stage = "ready", !.id = launch]
    /\ UNCHANGED <<machineVars, createVars, cfg, disk, syncVars, restarts>>

\* reserveErr and applyLend find no reason to refuse.
Applicable ==
    /\ NotBusy(patch)
    /\ CASE patch.op = "lend" -> cfg.LentFrom = None /\ cfg.ReservedFor = patch.owner
         [] patch.op = "reclaim" -> cfg.LentFrom # None /\ cfg.LentReportID = patch.lentID
         [] OTHER -> cfg.LentFrom = None /\ MayReserve(patch.owner)

\* The hotel fields after the PATCH, with the drain field it leaves.
Patched(drain) ==
    CASE patch.op = "lend" ->
            [ReservedFor |-> None, LentFrom |-> patch.owner, LentReportID |-> patch.id,
             Drain |-> drain]
      [] OTHER ->
            [ReservedFor |-> patch.owner, LentFrom |-> None, LentReportID |-> None,
             Drain |-> drain]

\* The locked part of patchHotel: check again, apply, save.
PatchApply ==
    /\ patch.stage = "ready" /\ Applicable
    /\ \E drain \in BOOLEAN : cfg' = Patched(drain)
    /\ disk' = IF Runtime \/ patch.op # "reserve" THEN Saved(cfg') ELSE disk
    /\ patch' = NoPatch
    /\ UNCHANGED <<machineVars, createVars, syncVars, restarts>>

\* Refused: no report, the launch it was lent with, a check under the locks, or
\* a failed save, which puts every field back.
PatchRefused ==
    /\ \/ patch.stage = "fetching"
       \/ patch.stage = "ready" /\ (~Applicable \/ "disk" \in Faults)
    /\ patch' = NoPatch
    /\ UNCHANGED <<machineVars, createVars, cfg, disk, syncVars, restarts>>

\* {"drain": true or false} alone; a failed save leaves all as it was.
PatchDrain ==
    /\ patch.stage = "idle"
    /\ cfg' = [cfg EXCEPT !.Drain = ~@]
    /\ disk' = IF Runtime THEN Saved(cfg') ELSE disk
    /\ UNCHANGED <<machineVars, createVars, patch, syncVars, restarts>>

-----------------------------------------------------------------------------
(* The broker stops and starts again: only state_dir and the config file   *)
(* survive, and the machine goes on with what it has received.             *)
Restart ==
    /\ "crash" \in Faults
    /\ restarts < MaxRestarts
    /\ restarts' = restarts + 1
    /\ cfg' = Loaded(disk)
    /\ rooms' = [c \in Creates |-> "none"]
    /\ later' = {}
    /\ apiDeleting' = 0
    /\ unchecked' = TRUE
    /\ pc' = [c \in Creates |-> IF pc[c] = "new" THEN "new" ELSE "done"]
    /\ sync' = SyncIdle
    /\ patch' = NoPatch
    /\ listed' = {}
    /\ UNCHANGED <<machineVars, owner, disk>>

CreateStep(c) ==
    \/ \E g \in Guests : Place(c, g)
    \/ Abandon(c) \/ Dispatch(c)
    \/ AnswerRunning(c) \/ AnswerUnwanted(c) \/ AnswerFailed(c) \/ AnswerLost(c)
    \/ ReapInsert(c) \/ ReapDelete(c)
    \/ OrphanDelete(c) \/ OrphanRelease(c) \/ OrphanGiveUp(c)
    \/ DeleteCall(c) \/ DeleteNote(c)

MachineStep ==
    \/ \E c \in Creates :
           \/ HotelStarts(c) \/ HotelRefuses(c)
           \/ RoomEnds(c) \/ ContainerGone(c)
    \/ Relaunch

SyncStep ==
    \/ SyncQuota \/ SyncList \/ SyncListFails \/ SyncApply \/ SyncSave
    \/ BaselineSkip \/ BaselineFetch \/ BaselineRecord

PatchStep ==
    \/ PatchLend
    \/ \E g \in Guests : PatchReclaim(g)
    \/ \E g \in Guests \cup {None} : PatchReserve(g)
    \/ PatchAttest \/ PatchApply \/ PatchRefused \/ PatchDrain

Next ==
    \/ \E c \in Creates : CreateStep(c)
    \/ MachineStep \/ SyncStep \/ PatchStep \/ Restart

Spec == Init /\ [][Next]_vars

-----------------------------------------------------------------------------
(* Properties.                                                             *)

\* The broker's state is well formed: a create in progress has a guest, and a
\* fetched report a launch.
TypeOK ==
    /\ launch \in Launches
    /\ call \in [Creates -> CallState]
    /\ live \subseteq Creates /\ hidden \subseteq Creates
    /\ cfg \in HotelCfg /\ disk \in HotelCfg
    /\ rooms \in [Creates -> RoomState]
    /\ later \subseteq Creates \X Creates
    /\ apiDeleting \in Nat
    /\ unchecked \in BOOLEAN
    /\ pc \in [Creates -> CreatePC]
    /\ owner \in [Creates -> Guests \cup {None}]
    /\ \A c \in Creates : owner[c] = None => pc[c] = "new" /\ call[c] = "none"
    /\ sync \in SyncType /\ (sync.pc = "fetched" => sync.id \in Launches)
    /\ patch \in PatchType /\ (patch.stage = "ready" /\ patch.op = "lend" => patch.id \in Launches)
    /\ restarts \in 0..MaxRestarts
    /\ listed \subseteq Creates
    /\ tenants \subseteq Guests

\* While the hotel is reserved for X, every room the broker counts as running
\* and every create it has placed there is X's, whatever the interleaving of
\* creates, room lists, PATCHes and restarts.
NoStrangerOnReserved ==
    cfg.ReservedFor # None =>
        \A c \in Creates :
            rooms[c] = "running" \/ c \in InFlight => owner[c] = cfg.ReservedFor

\* A stranger's room that a room list has shown since the broker started, and
\* that the hotel still lists, keeps the hotel from being reserved: the fail-closed check
\* and the two refusals (reserveErr, busyErr) leave no way around it.
ListedStrangersRefused ==
    cfg.ReservedFor # None => \A c \in live \cap listed : owner[c] = cfg.ReservedFor

\* lendConfigError holds of what the broker keeps and of what it has written:
\* no sequence of PATCHes, forced lends and baselines leaves a state file that
\* the next start refuses to load.
FieldsAgree(h) ==
    /\ h.LentFrom = None <=> h.LentReportID = None
    /\ h.LentFrom # None => h.ReservedFor = None

LendStateLoads == FieldsAgree(cfg) /\ FieldsAgree(disk)

\* A lend that reached the disk ends only while a later launch runs than the
\* one recorded for it: not by a restart, a race or a stale attestation.
LendEndsByReclaim ==
    [][disk.LentFrom # None /\ cfg'.LentFrom = None =>
           cfg.LentReportID \in Launches /\ cfg.LentReportID < launch]_vars


\* "nothing a pool guest left (memory, disk, workspaces) may stay in it when
\* the owner comes back" (lend.go): at a reclaim the running launch has had no
\* room of another guest.
NothingPoolLeft ==
    [][cfg.LentFrom # None /\ cfg'.ReservedFor # None /\ restarts' = restarts =>
           tenants \subseteq {cfg'.ReservedFor}]_vars

\* The sync loop runs every 2 s and its calls time out; a hotel that answers
\* at all lists its rooms again and again, and so does its attestation.  A PATCH
\* runs to its end.
Fairness ==
    /\ SF_vars(SyncList)
    /\ WF_vars(SyncListFails) /\ WF_vars(SyncApply) /\ WF_vars(SyncSave)
    /\ WF_vars(BaselineSkip) /\ SF_vars(BaselineFetch) /\ WF_vars(BaselineRecord)
    /\ WF_vars(PatchAttest \/ PatchApply \/ PatchRefused)

FairSpec == Spec /\ Fairness

\* A stranger's room that a reserved machine lists does not go unnoticed: the
\* hotel stops being reserved, or the machine lists the room no more.
StrangersFound ==
    \A g \in Guests :
        (cfg.ReservedFor = g /\ Foreign(live, g)) ~> ~(cfg.ReservedFor = g /\ Foreign(live, g))

\* A forced lend gets a launch to compare a reclaim with: no hotel stays lent
\* with lent_report_id "unknown" for ever.
BaselineRecorded == (cfg.LentReportID = Unknown) ~> (cfg.LentReportID # Unknown)

=============================================================================

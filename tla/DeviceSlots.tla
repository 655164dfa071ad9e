----------------------------- MODULE DeviceSlots ----------------------------
(***************************************************************************)
(* example-comprehensive: four slots, one per device number, which are     *)
(* never emptied as a whole.  A loss takes the connection, the status and  *)
(* the last beat; title and beat history stay.  Neither onBeat nor         *)
(* onDeviceUpdate asks whether the slot is connected.                      *)
(***************************************************************************)
EXTENDS DeviceApp

CONSTANTS
    MaxDevices,         \* MAX_DEVICES
    MaxBeatHistory,     \* MAX_BEAT_HISTORY
    NoTitle             \* trackTitle is empty

ASSUME SlotsAssumption == MaxDevices \in Nat \ {0} /\ MaxBeatHistory \in Nat \ {0}

Slots == 1 .. MaxDevices

VARIABLES
    slots,              \* devices
    masterDeviceNumber, \* masterDeviceNumber; 0 for none
    databaseLoaded      \* databaseLoaded, which is never reset

slotVars == <<slots, masterDeviceNumber, databaseLoaded>>

EmptySlot == [connected |-> FALSE, status |-> NoEvent, lastBeat |-> NoEvent,
              trackTitle |-> NoTitle, beatHistory |-> <<>>]

SlotInit ==
    /\ slots = [i \in Slots |-> EmptySlot]
    /\ masterDeviceNumber = 0
    /\ databaseLoaded = FALSE

-----------------------------------------------------------------------------
\* The slot of the event becomes s; a device without a slot is left out.
SetSlot(e, s) == slots' = IF e.device \in Slots THEN [slots EXCEPT ![e.device] = s] ELSE slots

SlotOf(e) == slots[e.device]

Beat(e) ==
    [SlotOf(e) EXCEPT !.lastBeat = e,
                      !.beatHistory = Recent(Append(@, e), MaxBeatHistory)]

Lost(e) == [SlotOf(e) EXCEPT !.connected = FALSE, !.status = NoEvent, !.lastBeat = NoEvent]

\* The first track of a slot whose rekordbox id is known gives the title.
Status(e, known) ==
    [SlotOf(e) EXCEPT !.status = e,
                      !.trackTitle = IF databaseLoaded /\ known /\ @ = NoTitle THEN e.id ELSE @]

SlotListener ==
    LET e == Handed
    IN  /\ \/ Kind = "beat"   /\ SetSlot(e, Beat(e))
           \/ Kind = "found"  /\ SetSlot(e, [SlotOf(e) EXCEPT !.connected = TRUE])
           \/ Kind = "lost"   /\ SetSlot(e, Lost(e))
           \/ Kind = "update" /\ \E known \in BOOLEAN : SetSlot(e, Status(e, known))
           \/ Kind = "master" /\ UNCHANGED slots
        /\ masterDeviceNumber' = IF Kind = "master" THEN e.device ELSE masterDeviceNumber
        /\ UNCHANGED databaseLoaded

\* update() asks VirtualCdj, while it runs, for the tempo master.
AskMaster ==
    /\ EndFrame
    /\ masterDeviceNumber' \in {masterDeviceNumber} \cup (IF virtualCdj THEN Devices ELSE {})
    /\ UNCHANGED <<slots, databaseLoaded>>

\* A database is dropped on the window; one that cannot be read changes nothing.
DropDatabase ==
    /\ Key
    /\ databaseLoaded' = TRUE
    /\ UNCHANGED <<virtualCdj, overtaken, slots, masterDeviceNumber>>

SlotStep ==
    /\ app = "comprehensive"
    /\ \/ Listener /\ SlotListener
       \/ AskMaster
       \/ DropDatabase
       \/ KeyVirtualCdj /\ UNCHANGED slotVars

-----------------------------------------------------------------------------
(***************************************************************************)
(* What is drawn: a panel for a connected slot, with its status indicators *)
(* and the tempo, beat and timing of its last beat.                        *)
(***************************************************************************)

PanelOfSlot(d)  == d \in Slots /\ slots[d].connected
StatusOfSlot(d) == slots[d].status
BeatOfSlot(d)   == slots[d].lastBeat

\* The graph below them.
HistoryOfSlot(d) == slots[d].beatHistory
=============================================================================

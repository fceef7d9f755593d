------------------------------ MODULE TaskBoard ------------------------------
(***************************************************************************)
(* The task board of the bridge daemon (tasks.rs, struct TaskBoard): task  *)
(* cards published by agent sessions, their slots on the controllers, the  *)
(* selected card, and the leases that bridge a reconnect.  One action per  *)
(* public method; the daemon's single loop calls them one at a time, in    *)
(* an order its clients and its clock decide.                              *)
(*                                                                         *)
(* Deadlines are kept as the time left; Tick is the clock moving on.       *)
(***************************************************************************)
EXTENDS SlotScheduler

CONSTANTS
    PendingHold,    \* how long an optimistic selection holds, 2 s
    GuardHold,      \* how long a press guards its echo, 1 s
    PreferenceCap,  \* size at which primary_preferences is pruned, 256
    Snapshot,       \* session 0, the daemon's own feed of Codex cards
    KeyIndex,       \* the N of codex-hid:N and legacy:S:N, None for the rest
    LegacyIds,      \* the ids legacy:S:N of each session
    Publishes,      \* the ids each session uses in publish_tasks
    Items,          \* what a session may say of a task
    HidReports,     \* what a thstatus frame may say of a HID card
    Capacities,     \* the slot counts a controller may announce
    OwnerMaps,      \* the partitions the daemon may apply
    Pressable,      \* the tasks a user may select on a controller
    Focusable,      \* the threads a user may focus on the desktop
    Restored        \* the preferences a saved file may hold

ItemType ==
    [state : TaskStates, source : Indexes \cup {None}, prio : Priorities,
     ask : BOOLEAN]

ASSUME HoldsAssumption ==
    PendingHold \in Nat /\ GuardHold \in Nat /\ PreferenceCap \in Nat
ASSUME InputsAssumption ==
    /\ Snapshot \in Sessions /\ AgentOf[Snapshot] = Codex
    /\ KeyIndex \in [TaskIds -> Indexes \cup {None}]
    /\ \A i \in HidIds : KeyIndex[i] # None
    /\ \A i, j \in HidIds : KeyIndex[i] = KeyIndex[j] => i = j
    /\ LegacyIds \in [Sessions -> SUBSET (TaskIds \ HidIds)]
    /\ Publishes \in [Sessions -> SUBSET TaskIds]
    /\ Items \in [Sessions -> SUBSET ItemType]
    /\ HidReports \subseteq ItemType
    /\ Capacities \subseteq 0 .. MaxSlots
    /\ Pressable \subseteq TaskIds /\ Focusable \subseteq TaskIds
    /\ OwnerMaps \subseteq [Indexes -> Agents \cup {Unowned, Unlisted}]
    /\ Restored \subseteq [TaskIds -> Nat \cup {None}]

VARIABLES
    card,      \* tasks: the card of each id, NoCard for an id without one
    at,        \* assignments
    layout,    \* devices, partitioned_device_id, slot_owners
    memory,    \* last_slots, primary_preferences
    focus,     \* selected, pending_selection
    reviewed,  \* reviewed_completions
    guard      \* time left of the one entry of selection_activation_guards

vars == <<card, at, layout, memory, focus, reviewed, guard>>

Blank == [i \in TaskIds |-> Nowhere]
NoFocus == [selected |-> None, pending |-> None, left |-> None]

TypeOK ==
    /\ card \in Boards
    /\ at \in Assignments
    /\ layout \in Layouts
    /\ memory \in Memories
    /\ focus \in [selected : TaskIds \cup {None}, pending : TaskIds \cup {None},
                  left : -1 .. PendingHold]
    /\ reviewed \subseteq TaskIds
    /\ guard \in -1 .. GuardHold

Init ==
    /\ card = [i \in TaskIds |-> NoCard]
    /\ at = Blank
    /\ layout = [capacity |-> [d \in Devices |-> 0], primary |-> None,
                 owners |-> [k \in Indexes |-> Unlisted]]
    /\ \E p \in Restored : memory = [last |-> Blank, pref |-> p]
    /\ focus = NoFocus
    /\ reviewed = {}
    /\ guard = -1

-----------------------------------------------------------------------------
(* Mutant: the pending half outlives the selection. *)
RefocusSelected(c, fo) ==
    IF fo.selected # None /\ ~Live(c, fo.selected)
    THEN [fo EXCEPT !.selected = None] ELSE fo

(* A selection whose task is gone is dropped, with its pending half. *)
Refocus(c, fo) ==
    IF fo.selected # None /\ ~Live(c, fo.selected) THEN NoFocus ELSE fo

(* What the scheduler remembers of the assignment it ended with. *)
Remember(c, l, m, a) ==
    LET pref == [i \in TaskIds |->
                    IF a[i] # Nowhere /\ a[i][1] = l.primary
                    THEN a[i][2] ELSE m.pref[i]]
        full == Cardinality({i \in TaskIds : pref[i] # None}) > PreferenceCap
    IN  [last |-> [i \in TaskIds |->
                      IF a[i] # Nowhere THEN a[i]
                      ELSE IF Live(c, i) THEN m.last[i] ELSE Nowhere],
         pref |-> [i \in TaskIds |->
                      IF full /\ ~Live(c, i) THEN None ELSE pref[i]]]

(* The tail of every operation that changes cards, devices or owners.      *)
Reallocate(a) ==
    /\ at' \in Reallocations(card', layout', memory, a)
    /\ memory' = Remember(card', layout', memory, at')

-----------------------------------------------------------------------------
(* Controllers and partition.                                              *)

SetDevice(d, n) ==
    /\ layout' = [layout EXCEPT !.capacity[d] = n]
    /\ UNCHANGED <<card, reviewed, guard>>
    /\ focus' = Refocus(card, focus)
    /\ Reallocate([i \in TaskIds |->
                      IF n = 0 /\ at[i][1] = d THEN Nowhere ELSE at[i]])

ClearDevices ==
    /\ layout' = [layout EXCEPT !.capacity = [d \in Devices |-> 0]]
    /\ at' = Blank
    /\ UNCHANGED <<card, memory, focus, reviewed, guard>>

SetSlotOwners(d, owners) ==
    /\ layout.primary # d \/ layout.owners # owners
    /\ layout' = [layout EXCEPT !.primary = d, !.owners = owners]
    /\ UNCHANGED <<card, reviewed, guard>>
    /\ focus' = Refocus(card, focus)
    /\ Reallocate(at)

-----------------------------------------------------------------------------
(* Publications.                                                           *)

(* Mutant: a card that is taken over keeps the lease of its old session. *)
MergeKeepingLease(c, s, f) ==
    [i \in TaskIds |->
        IF i \notin DOMAIN f THEN c[i]
        ELSE [state   |-> IF f[i].state = "completed" /\ i \in reviewed
                          THEN "queued" ELSE f[i].state,
              session |-> s,
              source  |-> f[i].source,
              prio    |-> f[i].prio,
              ask     |-> f[i].ask,
              lease   |-> IF Live(c, i) THEN c[i].lease ELSE NoLease]]

(* Mutant: a reviewed completion is shown again. *)
MergeAsReported(c, s, f) ==
    [i \in TaskIds |->
        IF i \notin DOMAIN f THEN c[i]
        ELSE [state   |-> f[i].state,
              session |-> s,
              source  |-> f[i].source,
              prio    |-> f[i].prio,
              ask     |-> f[i].ask,
              lease   |-> NoLease]]

(***************************************************************************)
(* merge_session_tasks: the cards of f, published by s, over board c.  A   *)
(* completion that was reviewed comes back as queued; any other state ends *)
(* the review.                                                             *)
(***************************************************************************)
Merge(c, s, f) ==
    [i \in TaskIds |->
        IF i \notin DOMAIN f THEN c[i]
        ELSE [state   |-> IF f[i].state = "completed" /\ i \in reviewed
                          THEN "queued" ELSE f[i].state,
              session |-> s,
              source  |-> f[i].source,
              prio    |-> f[i].prio,
              ask     |-> f[i].ask,
              lease   |-> NoLease]]

StillReviewed(f) == reviewed \ {i \in DOMAIN f : f[i].state # "completed"}

(* The cards of s that its new publication no longer names. *)
Dropped(s, f) ==
    {i \in TaskIds \ DOMAIN f : Live(card, i) /\ card[i].session = s}

Without(c, gone) == [i \in TaskIds |-> IF i \in gone THEN NoCard ELSE c[i]]
Vacated(gone) == [i \in TaskIds |-> IF i \in gone THEN Nowhere ELSE at[i]]

ReplaceSessionTasks(s, f) ==
    LET gone == Dropped(s, f)
    IN  /\ card' = Merge(Without(card, gone), s, f)
        /\ reviewed' = StillReviewed(f) \ gone
        /\ UNCHANGED <<layout, guard>>
        /\ Reallocate(Vacated(gone))

(* A session whose cards are on a lease has gone; its number is not used   *)
(* again before they have.                                                 *)
Gone(s) ==
    \E i \in TaskIds : Leased(card, i) /\ card[i].session = s

(* An id belongs to the session that published it, unless its lease runs   *)
(* and a session of the same agent takes it over.                          *)
MayPublish(s, i) ==
    Live(card, i) =>
        \/ card[i].session = s
        \/ Agent(card, i) = AgentOf[s] /\ card[i].lease # NoLease

Publications(s) ==
    UNION {[ids -> Items[s]] : ids \in SUBSET Publishes[s]}

PublishTasks(s, f) ==
    /\ ~Gone(s)
    /\ \A i \in DOMAIN f : MayPublish(s, i)
    /\ ReplaceSessionTasks(s, f)
    /\ focus' = Refocus(card', focus)

(* The first id that is someone else's refuses the whole publication.      *)
RefusePublication(s, f) ==
    /\ \E i \in DOMAIN f : ~MayPublish(s, i)
    /\ UNCHANGED vars

(* The status array of the older protocol; ids are the session's own.      *)
PublishLegacyStatus(s, f) ==
    /\ ~Gone(s)
    /\ ReplaceSessionTasks(s, [i \in DOMAIN f |->
            [f[i] EXCEPT !.source = KeyIndex[i]]])
    /\ focus' = Refocus(card', focus)

(* Mutant: a late snapshot overrides a press that is still pending. *)
ReconcileAtOnce(c, fo, auth) ==
    IF auth = None \/ ~Live(c, auth) THEN fo
    ELSE IF fo.selected # None /\ Live(c, fo.selected)
            /\ Agent(c, fo.selected) # Codex THEN fo
    ELSE [selected |-> auth, pending |-> None, left |-> None]

(***************************************************************************)
(* reconcile_authoritative_selection: the thread focused on the desktop    *)
(* becomes the selection, except while a card of another agent is selected *)
(* or a press waits for the desktop to follow it.                          *)
(***************************************************************************)
Reconcile(c, fo, auth) ==
    LET follow == [selected |-> auth, pending |-> None, left |-> None]
        waits  == fo.pending \notin {None, auth} /\ fo.left >= 0
                  /\ Live(c, fo.pending)
    IN  IF auth = None \/ ~Live(c, auth) THEN fo
        ELSE IF fo.selected # None /\ Live(c, fo.selected)
                /\ Agent(c, fo.selected) # Codex THEN fo
        ELSE IF waits THEN [fo EXCEPT !.selected = fo.pending]
        ELSE follow

PublishCodexSnapshot(f, auth) ==
    /\ \A i \in DOMAIN f : MayPublish(Snapshot, i)
    /\ ReplaceSessionTasks(Snapshot, f)
    /\ focus' = Reconcile(card', Refocus(card', focus), auth)

-----------------------------------------------------------------------------
(* The Codex HID frame: f gives the observed state of each card it names.  *)

SelectionTransition(before, observed) ==
    /\ before # observed
    /\ before = "queued" \/ Active(before)
    /\ observed = "queued" \/ Active(observed)

Promoted(f) ==
    {i \in DOMAIN f : card[i].state = "queued" /\ Active(f[i].state)}

(* Mutant: only a press on a controller is recognised as a handoff. *)
HandoffIfGuarded(f) ==
    /\ guard >= 0
    /\ \E i \in DOMAIN f : Active(card[i].state) /\ f[i].state = "queued"
    /\ Promoted(f) # {}

(* A redraw that only moves the highlight: some running card is reported   *)
(* idle, some idle one running, and nothing else changed.                  *)
Handoff(f) ==
    /\ \E i \in DOMAIN f : Active(card[i].state) /\ f[i].state = "queued"
    /\ Promoted(f) # {}
    /\ \A i \in DOMAIN f : Live(card, i) =>
          \/ card[i].state = f[i].state
          \/ SelectionTransition(card[i].state, f[i].state)

(* The desktop thread at the position of a HID card, or the card itself.   *)
DesktopAt(i) ==
    {t \in TaskIds \ HidIds : /\ Live(card, t)
                              /\ card[t].session = Snapshot
                              /\ card[t].source = KeyIndex[i]}
HandoffTargets(f) ==
    UNION {IF DesktopAt(i) = {} THEN {i} ELSE DesktopAt(i) : i \in Promoted(f)}

(* During an echo a card keeps the state it had. *)
Believed(f) ==
    [i \in DOMAIN f |->
        LET echo == /\ guard >= 0 \/ Handoff(f)
                    /\ Live(card, i)
                    /\ SelectionTransition(card[i].state, f[i].state)
        IN  [f[i] EXCEPT !.source = KeyIndex[i],
                         !.state = IF echo THEN card[i].state ELSE f[i].state]]

PublishCodexHidStatus(f) ==
    /\ card' = Merge(card, Snapshot, Believed(f))
    /\ reviewed' = StillReviewed(Believed(f))
    /\ UNCHANGED <<layout, guard>>
    /\ \E t \in IF Handoff(f) THEN HandoffTargets(f) ELSE {None} :
          focus' = Refocus(card',
              IF t # None /\ at[t] # Nowhere
              THEN [selected |-> t, pending |-> None, left |-> None]
              ELSE focus)
    /\ Reallocate(at)

-----------------------------------------------------------------------------
(* Sessions that leave.                                                    *)

DisconnectSession(s) ==
    /\ \E i \in TaskIds : Live(card, i) /\ card[i].session = s
    /\ ~Gone(s)
    /\ card' = [i \in TaskIds |->
                   IF Live(card, i) /\ card[i].session = s
                   THEN [card[i] EXCEPT !.state = "reconnecting",
                                        !.lease = Grace]
                   ELSE card[i]]
    /\ UNCHANGED <<at, layout, memory, focus, reviewed, guard>>

Remove(gone) ==
    /\ gone # {}
    /\ card' = Without(card, gone)
    /\ reviewed' = reviewed \ gone
    /\ UNCHANGED <<layout, guard>>
    /\ focus' = Refocus(card', focus)
    /\ Reallocate(Vacated(gone))

ClearSession(s) == Remove({i \in TaskIds : Live(card, i) /\ card[i].session = s})

(* Mutant: a card that is shown does not expire. *)
ExpireUnshown ==
    Remove({i \in TaskIds :
               Live(card, i) /\ card[i].lease = 0 /\ at[i] = Nowhere})

Expire == Remove({i \in TaskIds : Live(card, i) /\ card[i].lease = 0})

-----------------------------------------------------------------------------
(* Selection.                                                              *)

Select(i) ==
    focus' = [selected |-> i,
              pending  |-> IF Agent(card, i) = Codex THEN i ELSE None,
              left     |-> IF Agent(card, i) = Codex THEN PendingHold ELSE None]

(* A completed task is acknowledged by selecting it. *)
SelectTask(i) ==
    /\ at[i] # Nowhere
    /\ Select(i)
    /\ IF card[i].state = "completed"
       THEN /\ reviewed' = reviewed \cup {i}
            /\ card' = [card EXCEPT ![i].state = "queued"]
       ELSE UNCHANGED <<card, reviewed>>
    /\ UNCHANGED <<at, layout, memory, guard>>

(* A waiting task that asks something takes the selection.  Which of them  *)
(* depends on fields and expiry times that are not modelled.               *)
AutoSelectWaiting(d, i) ==
    /\ Live(card, i) /\ card[i].state = "waiting" /\ card[i].ask
    /\ at[i] # Nowhere /\ at[i][1] = d
    /\ focus.selected # i
    /\ Select(i)
    /\ UNCHANGED <<card, at, layout, memory, reviewed, guard>>

GuardSelectionActivation(i) ==
    /\ Live(card, i) /\ ~Active(card[i].state)
    /\ guard' = GuardHold
    /\ UNCHANGED <<card, at, layout, memory, focus, reviewed>>

-----------------------------------------------------------------------------
(* Time.  A lease stops at 0, due; the other holds end below 0.            *)
Down(t, low) == IF t > low THEN t - 1 ELSE t

Tick ==
    /\ card' = [i \in TaskIds |->
                   IF Live(card, i) /\ card[i].lease > 0
                   THEN [card[i] EXCEPT !.lease = @ - 1] ELSE card[i]]
    /\ focus' = [focus EXCEPT !.left = Down(@, -1)]
    /\ guard' = Down(guard, -1)
    /\ UNCHANGED <<at, layout, memory, reviewed>>

-----------------------------------------------------------------------------
HidFrames == UNION {[ids -> HidReports] : ids \in SUBSET HidIds}
LegacyFrames(s) == UNION {[ids -> Items[s]] : ids \in SUBSET LegacyIds[s]}

Hardware ==
    \/ \E d \in Devices, n \in Capacities : SetDevice(d, n)
    \/ ClearDevices
    \/ \E d \in Devices, owners \in OwnerMaps : SetSlotOwners(d, owners)

Publish ==
    \/ \E s \in Sessions \ {Snapshot} : \E f \in Publications(s) :
          PublishTasks(s, f) \/ RefusePublication(s, f)
    \/ \E s \in Sessions \ {Snapshot} : \E f \in LegacyFrames(s) :
          PublishLegacyStatus(s, f)
    \/ \E f \in Publications(Snapshot), auth \in Focusable \cup {None} :
          PublishCodexSnapshot(f, auth)
    \/ \E f \in HidFrames : PublishCodexHidStatus(f)

Leave ==
    \/ \E s \in Sessions \ {Snapshot} : DisconnectSession(s)
    \/ \E s \in Sessions : ClearSession(s)

Press ==
    \E i \in Pressable :
        \/ SelectTask(i)
        \/ KeyIndex[i] # None /\ GuardSelectionActivation(i)
        \/ \E d \in Devices : AutoSelectWaiting(d, i)

Next == Hardware \/ Publish \/ Leave \/ Press \/ Expire \/ Tick

Spec == Init /\ [][Next]_vars

(* The daemon's loop calls expire and reads the clock on every iteration.  *)
FairSpec == Spec /\ WF_vars(Tick) /\ WF_vars(Expire)

-----------------------------------------------------------------------------
(* Properties.                                                             *)

(* No two cards are assigned the same physical slot, whatever mix of       *)
(* sticky returns, pins and greedy filling led there (reallocate).         *)
SlotExclusive ==
    \A i, j \in TaskIds : at[i] = at[j] /\ at[i] # Nowhere => i = j

(* A slot is only ever given to a card that exists, on a controller that   *)
(* is connected and has that slot: task_at never finds a stale id.         *)
AssignedSlotsExist ==
    \A i \in TaskIds :
        at[i] # Nowhere => Live(card, i) /\ at[i] \in Available(layout)

(* On the primary controller a card stands on a slot its agent owns; the   *)
(* exception the pinning code makes is a Codex card standing on its own    *)
(* source position while nobody owns that position.                        *)
OwnerRespected ==
    \A i \in TaskIds :
        at[i] # Nowhere =>
            \/ Admits(layout, at[i], Agent(card, i))
            \/ /\ layout.owners[at[i][2]] = Unowned
               /\ Agent(card, i) = Codex
               /\ at[i] = SourceSlot(card, layout, i)

(* The scheduler leaves no eligible card waiting while a slot that would   *)
(* admit it is free (reallocate runs after every change that could).       *)
WorkConserving ==
    \A i \in TaskIds : Eligible(card, i) /\ at[i] = Nowhere =>
        ~\E s \in Available(layout) \ Held(at) : Admits(layout, s, Agent(card, i))

(* The optimistic selection is always the selection itself, of a card that *)
(* exists: the desktop can confirm it or outlive it, but no late snapshot  *)
(* resurrects another one (pending_selection, reallocate).                 *)
PendingIsSelected ==
    focus.pending # None =>
        focus.pending = focus.selected /\ Live(card, focus.pending)

(* A completion the user has acknowledged is not shown as completed again  *)
(* until its source has reported another state (reviewed_completions).     *)
ReviewedStaysReviewed ==
    \A i \in reviewed : Live(card, i) /\ card[i].state # "completed"

(* A card on a lease is shown as reconnecting, however it was taken over   *)
(* or merged: expire never removes a card that its session has published   *)
(* since (reconnect_until_ms).                                             *)
LeaseMatchesState ==
    \A i \in TaskIds : Leased(card, i) => card[i].state = "reconnecting"

(* Cards do not shuffle: while its slot exists and admits it, a card that  *)
(* is still on the board keeps its slot, across republication, takeover by *)
(* a reconnected session and repartition.  Only a codex-hid card moves, to *)
(* its own position, and only it may put another card out.                 *)
CardsStay ==
    [][\A i \in TaskIds \ HidIds :
          /\ at[i] # Nowhere
          /\ Eligible(card', i) \/ Leased(card', i)
          /\ at[i] \in Available(layout')
          /\ Admits(layout', at[i], Agent(card', i))
          => \/ at'[i] = at[i]
             \/ \E j \in HidIds : at'[j] = at[i]]_vars

(* A step after which every codex-hid card that was and is on the board    *)
(* shows its old state, or has gone from idle to active or back.           *)
OnlyHighlightsMove ==
    \A k \in HidIds : Live(card, k) /\ Live(card', k) =>
        \/ card'[k].state = card[k].state
        \/ SelectionTransition(card[k].state, card'[k].state)

(* The active card j has become idle and the idle card i active.           *)
TradesPlaces(i, j) ==
    /\ card[i].state = "queued" /\ Active(card'[i].state)
    /\ Active(card[j].state) /\ card'[j].state = "queued"

(* Moving the highlight from one codex-hid card to another, by a press or  *)
(* on the desktop, is not taken for one task stopping and the other        *)
(* starting, unless the same frame tells of some real progress             *)
(* (publish_codex_hid_status, selection_handoff).  The exception is a      *)
(* completion that was acknowledged and is still there: its card is shown  *)
(* as idle and reported as completed, which the code takes for progress.   *)
RedrawIsNoProgress ==
    [][OnlyHighlightsMove /\ HidIds \cap reviewed \cap reviewed' = {}
         => ~\E i, j \in HidIds : TradesPlaces(i, j)]_vars

(* The same without the exception, as tasks.rs:462-467 has it.             *)
SelectionIsNoExecution ==
    [][OnlyHighlightsMove => ~\E i, j \in HidIds : TradesPlaces(i, j)]_vars

(* When a snapshot of the desktop moves the selection, it neither takes it *)
(* from a card of another agent nor from a press that still waits for the  *)
(* desktop to follow (reconcile_authoritative_selection).                  *)
DesktopYields ==
    [][\A s, t \in TaskIds :
          /\ focus.selected = s /\ Live(card', s)
          /\ focus'.selected = t /\ t # s
          /\ \E f \in Publications(Snapshot), auth \in Focusable \cup {None} :
                PublishCodexSnapshot(f, auth)
          => Agent(card', s) = Codex /\ ~(focus.pending = s /\ focus.left >= 0)]_vars

(* A card of a session that left is either republished or removed: no slot *)
(* shows a reconnecting card for ever (RECONNECT_GRACE, expire).           *)
LeaseEnds ==
    \A i \in TaskIds :
        Leased(card, i) ~> ~Leased(card, i)
-----------------------------------------------------------------------------
(***************************************************************************)
(* The board implements the allocation it promises.  A Codex card may be   *)
(* seen on its own position though nobody owns it: pinning puts it there.  *)
(***************************************************************************)
Terms ==
    LET live   == {i \in TaskIds : Live(card, i)}
        fits   == {p \in live \X Available(layout) :
                      Admits(layout, p[2], Agent(card, p[1]))}
        pinned == {p \in live \X Available(layout) :
                      /\ Agent(card, p[1]) = Codex
                      /\ layout.owners[p[2][2]] = Unowned
                      /\ p[2] = SourceSlot(card, layout, p[1])}
    IN  [slots |-> Available(layout), live |-> live,
         stay |-> {i \in TaskIds : Eligible(card, i) \/ Leased(card, i)},
         due |-> {i \in TaskIds : Eligible(card, i)},
         fits |-> fits, bears |-> fits \cup pinned]

Allocation == INSTANCE SlotAllocation
    WITH Ids <- TaskIds, Off <- Nowhere, Ousters <- HidIds,
         on <- at, terms <- Terms

(* Every operation of the board, seen from the slots, is a step of the     *)
(* abstract allocation: legal, undisturbing, leaving no slot idle that a   *)
(* card has a claim to (TaskBoard::reallocate and the order in which its   *)
(* callers clear, merge and reassign).                                     *)
AllocatesSlots == Allocation!Spec
=============================================================================

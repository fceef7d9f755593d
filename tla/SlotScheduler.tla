---------------------------- MODULE SlotScheduler ----------------------------
(***************************************************************************)
(* The slot scheduler of the task board (tasks.rs, TaskBoard::reallocate): *)
(* which task card is shown on which physical slot.  It is a pure part of  *)
(* the program, so this module holds operators only; module TaskBoard     *)
(* applies them in its actions.                                            *)
(*                                                                         *)
(* An assignment is a function from task ids to slots, Nowhere for a task  *)
(* that overflows.  A run of the scheduler is                              *)
(*                                                                         *)
(*      Retain ; Return (sticky pass) ; Pin ; Fill                         *)
(*                                                                         *)
(* Only the sticky pass is nondeterministic: it walks a HashMap, so which  *)
(* of several tasks that want the same slot comes first is arbitrary.      *)
(***************************************************************************)
EXTENDS Integers, FiniteSets

CONSTANTS
    NumDevices,   \* controllers are numbered in the order of their device ids
    MaxSlots,     \* most task slots one controller may have
    LcdSlots,     \* LCD_SLOTS of routing.rs: the slots the partition describes
    Agents,
    Codex,        \* the agent whose HID cards are pinned
    Sessions,     \* session numbers, compared when the scheduler breaks ties
    AgentOf,      \* the agent a session registered for in its hello
    TaskIds,      \* task ids, numbered in the order of their strings
    HidIds,       \* the ids of the form codex-hid:N
    Priorities,
    Grace         \* RECONNECT_GRACE, in ticks

ASSUME SizesAssumption ==
    /\ NumDevices \in Nat \ {0}
    /\ MaxSlots \in Nat \ {0}
    /\ LcdSlots \in Nat
    /\ Grace \in Nat
ASSUME AgentsAssumption ==
    /\ Codex \in Agents
    /\ AgentOf \in [Sessions -> Agents]
ASSUME IdsAssumption ==
    /\ TaskIds \subseteq Nat
    /\ IsFiniteSet(TaskIds)
    /\ HidIds \subseteq TaskIds
    /\ Sessions \subseteq Nat
    /\ Priorities \subseteq Nat

None == -1
NoLease == -1
Unowned == "unowned"      \* an entry of slot_owners that is None
Unlisted == "unlisted"    \* a slot beyond the end of slot_owners
ASSUME OwnersAssumption == Unowned \notin Agents /\ Unlisted \notin Agents

Devices == 0 .. NumDevices - 1
Indexes == 0 .. MaxSlots - 1
Slots == Devices \X Indexes
Nowhere == <<None, None>>

TaskStates ==
    {"waiting", "error", "running", "thinking", "queued", "paused", "completed",
     "reconnecting"}

(***************************************************************************)
(* A task card, reduced to what the scheduler and the selection look at.   *)
(* lease is the time left until reconnect_until_ms, NoLease for None;      *)
(* prio stands for the pair (priority, updated_at_ms); ask tells whether   *)
(* the card carries an interaction.                                        *)
(***************************************************************************)
Cards ==
    [state : TaskStates, session : Sessions,
     source : Indexes \cup {None}, prio : Priorities, ask : BOOLEAN,
     lease : -1 .. Grace]

NoCard == [state |-> "absent"]
Boards == [TaskIds -> Cards \cup {NoCard}]

(* capacity[d] is 0 for a controller that is not in `devices`.             *)
Layouts ==
    [capacity : [Devices -> 0 .. MaxSlots],
     primary  : Devices \cup {None},
     owners   : [Indexes -> Agents \cup {Unowned, Unlisted}]]

(* last_slots and primary_preferences. *)
Memories ==
    [last : [TaskIds -> Slots \cup {Nowhere}],
     pref : [TaskIds -> Nat \cup {None}]]

Assignments == [TaskIds -> Slots \cup {Nowhere}]

-----------------------------------------------------------------------------
Live(c, i) == c[i].state # "absent"
Eligible(c, i) == c[i].state \notin {"absent", "reconnecting"}
Leased(c, i) == Live(c, i) /\ c[i].lease # NoLease
Active(state) == state \in {"running", "thinking"}
Agent(c, i) == AgentOf[c[i].session]

Rank(state) ==
    CASE state \in {"waiting", "error"}    -> 0
      [] state \in {"running", "thinking"} -> 1
      [] state \in {"queued", "paused"}    -> 2
      [] state = "completed"               -> 3
      [] OTHER                             -> 4

(* task_order: the more urgent task first, ids break the last tie. *)
Precedes(c, i, j) ==
    \/ Rank(c[i].state) < Rank(c[j].state)
    \/ /\ Rank(c[i].state) = Rank(c[j].state)
       /\ \/ c[i].prio > c[j].prio
          \/ c[i].prio = c[j].prio /\ i < j

Available(l) == {s \in Slots : s[2] < l.capacity[s[1]]}
Held(a) == {a[i] : i \in TaskIds}

(***************************************************************************)
(* Whether the partition lets a card of agent g stand on slot s.  Only the *)
(* primary controller is partitioned, slots beyond the list are free for   *)
(* all, and so are unowned slots that are not LCD positions.               *)
(***************************************************************************)
Admits(l, s, g) ==
    \/ s[1] # l.primary
    \/ l.owners[s[2]] \in {Unlisted, g}
    \/ l.owners[s[2]] = Unowned /\ s[2] >= LcdSlots

-----------------------------------------------------------------------------
(* First pass: an assignment survives if its task and its slot still allow *)
(* it.  A task inside its reconnect lease keeps its slot.                  *)
Retain(c, l, a) ==
    [i \in TaskIds |->
        IF /\ a[i] \in Available(l)
           /\ Eligible(c, i) \/ Leased(c, i)
           /\ Admits(l, a[i], Agent(c, i))
        THEN a[i] ELSE Nowhere]

(* Sticky pass: where an unassigned task wants to return to.  A primary    *)
(* preference hides the last slot, even when it cannot be had.             *)
Home(l, m, i) ==
    IF m.pref[i] # None /\ l.primary # None
    THEN <<l.primary, m.pref[i]>> ELSE m.last[i]

Returning(c, l, m, a) ==
    {i \in TaskIds :
        /\ Eligible(c, i)
        /\ a[i] = Nowhere
        /\ Home(l, m, i) \in Available(l) \ Held(a)
        /\ Admits(l, Home(l, m, i), Agent(c, i))}

Rivals(c, l, m, a, i) ==
    {j \in Returning(c, l, m, a) : Home(l, m, j) = Home(l, m, i)}

(* One task per wanted slot, whichever the map yields first. *)
Winners(c, l, m, a) ==
    {w \in SUBSET Returning(c, l, m, a) :
        \A i \in Returning(c, l, m, a) :
            \E j \in w : w \cap Rivals(c, l, m, a, i) = {j}}

Return(l, m, a, w) ==
    [i \in TaskIds |-> IF i \in w THEN Home(l, m, i) ELSE a[i]]

-----------------------------------------------------------------------------
(***************************************************************************)
(* pin_codex_hid_primary_slots.  A codex-hid card always goes to its own   *)
(* logical position; another Codex card with a source position only when   *)
(* it has no slot and the position is not taken.  The candidates are       *)
(* collected first and pinned in id order, so the last one on a position   *)
(* keeps it, and every card that was there is put out.                     *)
(***************************************************************************)
SourceSlot(c, l, i) == <<l.primary, c[i].source>>

Pinned(c, l, a) ==
    {i \in TaskIds :
        /\ Live(c, i)
        /\ Agent(c, i) = Codex
        /\ SourceSlot(c, l, i) \in Available(l)
        /\ l.owners[c[i].source] \in {Codex, Unowned, Unlisted}
        /\ i \notin HidIds => /\ a[i] = Nowhere
                              /\ SourceSlot(c, l, i) \notin Held(a)}

(* Mutant: a pinned card shares its position with the card it finds there. *)
PutsNoneOut(c, l, a, i) == FALSE

PutOut(c, l, a, i) ==
    \E j \in Pinned(c, l, a) :
        /\ j # i
        /\ IF i \in Pinned(c, l, a)
           THEN SourceSlot(c, l, j) = SourceSlot(c, l, i) /\ j > i
           ELSE SourceSlot(c, l, j) = a[i]

Pin(c, l, a) ==
    [i \in TaskIds |->
        IF PutOut(c, l, a, i) THEN Nowhere
        ELSE IF i \in Pinned(c, l, a) THEN SourceSlot(c, l, i) ELSE a[i]]

-----------------------------------------------------------------------------
(***************************************************************************)
(* Greedy pass: the free slots in order, each to the session that shows    *)
(* the fewest cards of its agent, then the fewest of its own.              *)
(***************************************************************************)
Queue(c, a) == {i \in TaskIds : Eligible(c, i) /\ a[i] = Nowhere}

Heads(c, a) ==
    {i \in Queue(c, a) : \A j \in Queue(c, a) \ {i} :
        c[j].session = c[i].session => Precedes(c, i, j)}

ShownFor(c, a, g) ==
    Cardinality({i \in TaskIds : a[i] # Nowhere /\ Agent(c, i) = g})
ShownIn(c, a, s) ==
    Cardinality({i \in TaskIds : a[i] # Nowhere /\ c[i].session = s})

ServedBefore(c, a, i, j) ==
    LET gi == ShownFor(c, a, Agent(c, i))   gj == ShownFor(c, a, Agent(c, j))
        si == ShownIn(c, a, c[i].session)   sj == ShownIn(c, a, c[j].session)
    IN  \/ gi < gj
        \/ gi = gj /\ si < sj
        \/ gi = gj /\ si = sj /\ Precedes(c, i, j)

Best(c, l, a, s) ==
    LET fits == {i \in Heads(c, a) : Admits(l, s, Agent(c, i))}
    IN  {i \in fits : \A j \in fits \ {i} : ServedBefore(c, a, i, j)}

(* The primary controller's slots come first, then device by device. *)
Position(l, s) ==
    s[2] + MaxSlots * (IF s[1] = l.primary THEN 0 ELSE s[1] + 1)

Place(c, l, a, n) ==
    LET free == {s \in Available(l) \ Held(a) : Position(l, s) = n}
        slot == CHOOSE s \in free : TRUE
        best == Best(c, l, a, slot)
    IN  IF free = {} \/ best = {} THEN a
        ELSE [a EXCEPT ![CHOOSE i \in best : TRUE] = slot]

LastPosition == MaxSlots * (NumDevices + 1)
Positions == 0 .. LastPosition

(* The assignment after each position has been offered, in order. *)
Filling(c, l, a) ==
    LET filled[n \in Positions] ==
            IF n = 0 THEN a ELSE Place(c, l, filled[n - 1], n - 1)
    IN  filled
Fill(c, l, a) == Filling(c, l, a)[LastPosition]

-----------------------------------------------------------------------------
(* Every assignment one run of the scheduler may end with. *)
Reallocations(c, l, m, a) ==
    LET kept == Retain(c, l, a)
    IN  {Fill(c, l, Pin(c, l, Return(l, m, kept, w))) :
            w \in Winners(c, l, m, kept)}
=============================================================================

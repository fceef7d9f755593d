--------------------------- MODULE SlotAllocation ---------------------------
(***************************************************************************)
(* What the task board promises of its slots, without a word on how the    *)
(* scheduler arrives at it (tasks.rs, TaskBoard::reallocate and its        *)
(* callers).  The terms are what agents, controllers and the partition     *)
(* ask for; they change as they like, and the allocation answers.          *)
(***************************************************************************)
CONSTANTS
    Ids,      \* the cards there may be
    Off,      \* where a card stands that has no slot
    Ousters   \* the cards that may put another one out of its slot

VARIABLES
    on,       \* the slot of each card
    terms     \* [slots  |-> the slots there are,
              \*  live   |-> the cards there are,
              \*  stay   |-> those that may keep a slot,
              \*  due    |-> those that are to get one if they can,
              \*  fits   |-> pairs of a card and a slot it has a claim to,
              \*  bears  |-> pairs of a card and a slot it may be seen on]

Allocated == {i \in Ids : on[i] # Off}

Legal ==
    /\ on \in [Ids -> terms.slots \cup {Off}]
    /\ \A i \in Allocated : i \in terms.live /\ <<i, on[i]>> \in terms.bears
    /\ \A i, j \in Allocated : on[i] = on[j] => i = j
    /\ \A i \in Ids \ Allocated, s \in terms.slots :
          i \in terms.due /\ <<i, s>> \in terms.fits => \E j \in Ids : on[j] = s

Init == on = [i \in Ids |-> Off] /\ Legal

(* Whoever may stay where it is stays, unless a pinned card needs the slot. *)
Undisturbed ==
    \A i \in Allocated \ Ousters :
        /\ i \in terms'.stay /\ on[i] \in terms'.slots
        /\ <<i, on[i]>> \in terms'.fits
        => on'[i] = on[i] \/ \E j \in Ousters : on'[j] = on[i]

Next == Legal' /\ Undisturbed

Spec == Init /\ [][Next]_<<on, terms>>
=============================================================================

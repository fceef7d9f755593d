------------------------------- MODULE Routing -------------------------------
(***************************************************************************)
(* Who owns which key (routing.rs) and which position of the primary deck  *)
(* (task_slot_owners in daemon.rs), and the bounded event queue of an      *)
(* agent.                                                                  *)
(***************************************************************************)
EXTENDS Integers, Sequences

CONSTANTS Codex, Claude, ZCode, Hermes, Nobody,
          QueueCap      \* EVENT_QUEUE_CAPACITY

Agents == {Codex, Claude, ZCode, Hermes}

ASSUME AgentsDistinct ==
    /\ Codex \notin {Claude, ZCode, Hermes}
    /\ Claude \notin {ZCode, Hermes}
    /\ ZCode # Hermes
    /\ Nobody \notin Agents
ASSUME QueueCapPositive == QueueCap \in Nat \ {0}

Keys == 0 .. 5
Partitions == [Keys -> Agents \cup {Nobody}]

(* Partition::compute: fixed halves.                                       *)
FirstHalf(active) == IF Codex \in active THEN Codex ELSE Nobody

SecondHalf(active) ==
    IF Claude \in active THEN Claude
    ELSE IF ZCode \in active THEN ZCode
    ELSE IF Hermes \in active THEN Hermes
    ELSE Nobody

Compute(active) ==
    [k \in Keys |-> IF k < 3 THEN FirstHalf(active) ELSE SecondHalf(active)]

(* ActiveSet::iter: the active agents in the order of AGENTS.              *)
If(a, active) == IF a \in active THEN <<a>> ELSE <<>>

InOrder(active) ==
    If(Codex, active) \o If(Claude, active) \o If(ZCode, active) \o If(Hermes, active)

(* task_slot_owners for a deck of n positions without preferences: a layout *)
(* of its own for three agents, equal shares in the order of AGENTS        *)
(* otherwise, the last one taking the rest.                                *)
Shares(n, active) ==
    LET order == InOrder(active)
        split == n \div Len(order)
        share(k) == IF split = 0 \/ k \div split >= Len(order)
                    THEN Len(order) ELSE k \div split + 1
    IN  [k \in 0 .. n - 1 |-> order[share(k)]]

(* Mutant: the layout for three agents is used without the third.          *)
TaskSlotOwnersOfTwo(n, active) ==
    IF {Codex, ZCode} \subseteq active /\ Claude \notin active
    THEN [k \in 0 .. n - 1 |-> IF k \in {0, 1} THEN Codex
                               ELSE IF k \in {2, 5} THEN Hermes
                               ELSE IF k \in {3, 4} THEN ZCode
                               ELSE Nobody]
    ELSE IF active = {} THEN [k \in 0 .. n - 1 |-> Nobody]
    ELSE Shares(n, active)

TaskSlotOwners(n, active) ==
    IF active = {Codex, ZCode, Hermes}
    THEN [k \in 0 .. n - 1 |-> IF k \in {0, 1} THEN Codex
                               ELSE IF k \in {2, 5} THEN Hermes
                               ELSE IF k \in {3, 4} THEN ZCode
                               ELSE Nobody]
    ELSE IF active = {} THEN [k \in 0 .. n - 1 |-> Nobody]
    ELSE Shares(n, active)

(* EventQueue::push.                                                       *)
Push(queue, e) ==
    Append(IF Len(queue) >= QueueCap THEN Tail(queue) ELSE queue, e)
=============================================================================

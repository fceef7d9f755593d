------------------------------ MODULE LossyLink ------------------------------
(***************************************************************************)
(* What the serial link promises the daemon, without a word on bytes: of   *)
(* the payloads sent, in their order, it receives all but those that were  *)
(* hit on the way.  A frame that was hit may still arrive, but unchanged.  *)
(***************************************************************************)
EXTENDS Naturals, Sequences

CONSTANT Payloads

VARIABLES
    sent,     \* the payloads sent
    hurt,     \* those hit, by index
    received  \* the frames received

Frame(n) == [kind |-> "frame", sequence |-> n, payload |-> sent[n]]

(* Nothing from frame n on has been received yet. *)
Ahead(n) == \A f \in received : f.sequence < n

Init == sent = <<>> /\ hurt = {} /\ received = {}

Send(p) ==
    /\ sent' = Append(sent, p)
    /\ UNCHANGED <<hurt, received>>

Hit(n) ==
    /\ Ahead(n)
    /\ hurt' = hurt \cup {n}
    /\ UNCHANGED <<sent, received>>

Receive(n) ==
    /\ Ahead(n)
    /\ \A m \in 1 .. n - 1 : m \in hurt \/ Frame(m) \in received
    /\ received' = received \cup {Frame(n)}
    /\ UNCHANGED <<sent, hurt>>

Next ==
    \/ \E p \in Payloads : Send(p)
    \/ \E n \in DOMAIN sent : Hit(n) \/ Receive(n)

Spec == Init /\ [][Next]_<<sent, hurt, received>>
=============================================================================

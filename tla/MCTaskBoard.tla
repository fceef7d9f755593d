---------------------------- MODULE MCTaskBoard ----------------------------
(***************************************************************************)
(* Small instances of TaskBoard.  "Hid": codex-hid cards and the cards of  *)
(* an older Codex session.  "Handoff": codex-hid cards only.  "Selection": *)
(* desktop threads and a card of two ZCode sessions.                       *)
(***************************************************************************)
EXTENDS TaskBoard, TLC

MCAgents == {"codex", "zcode"}

Say(state, source, prio, ask) ==
    [state |-> state, source |-> source, prio |-> prio, ask |-> ask]

NoPreference == [i \in TaskIds |-> None]
Split(owner0, owner1) ==
    [k \in Indexes |-> IF k = 0 THEN owner0
                       ELSE IF k = 1 THEN owner1 ELSE Unlisted]

NoLegacy == [s \in Sessions |-> {}]
NoKeys == [i \in TaskIds |-> None]
NoRestored == {NoPreference}
NoReports == {}
OneItem == [s \in Sessions |-> {Say("running", None, 0, FALSE)}]

(* Hid: ids 0 and 1 are codex-hid:0 and codex-hid:1, id 2 is legacy:1:1 of *)
(* a Codex session, whose place is that of codex-hid:1.  The partition     *)
(* takes the first slot from both and leaves the second to nobody.  The    *)
(* restored preferences collide.                                           *)
HidAgentOf == [s \in Sessions |-> "codex"]
HidPublishes == [s \in Sessions |-> {}]
HidLegacy == (0 :> {}) @@ (1 :> {2})
HidReported ==
    {Say(state, 0, 0, FALSE) : state \in {"queued", "running", "completed"}}
HidKeys == [i \in TaskIds |-> IF i \in HidIds THEN i ELSE 1]
HidOwnerMaps == {Split("zcode", Unowned)}
HidRestored == {[NoPreference EXCEPT ![0] = 1, ![2] = 1]}

(* Selection: ids 0 and 1 are desktop threads, id 2 is a ZCode task that   *)
(* asks; a second connection takes it over.  One slot changes hands.       *)
SelectionAgentOf == (0 :> "codex") @@ (1 :> "zcode") @@ (2 :> "zcode")
SelectionPublishes == (0 :> {0, 1}) @@ (1 :> {2}) @@ (2 :> {2})
SelectionItems ==
    (0 :> {Say("running", None, 0, FALSE), Say("completed", None, 0, FALSE)})
    @@ (1 :> {Say("waiting", None, 0, TRUE)})
    @@ (2 :> {Say("running", None, 0, FALSE)})
SelectionOwnerMaps == {[k \in Indexes |-> g] : g \in MCAgents}
=============================================================================

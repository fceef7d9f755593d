------------------------------- MODULE Readers -------------------------------
(***************************************************************************)
(* What the daemon makes of the state the desktop applications keep on     *)
(* disk: ZCode's database (zcode_state.rs), Hermes' database and the       *)
(* responses its desktop has cached (hermes_state.rs), Claude Code's       *)
(* session records (claude_state.rs) and the rollout of a Codex thread     *)
(* (codex_state.rs).                                                       *)
(*                                                                         *)
(* One session of an application is followed.  A timestamp is the number   *)
(* of the write that made it, 0 if there is none; age is the time that has *)
(* passed since the date a reader compares with the clock: for ZCode that  *)
(* of the session's last update, for Hermes that of its newest message.    *)
(***************************************************************************)
EXTENDS Integers, Sequences

Window == 1     \* RUNNING_WINDOW_MS, ACTIVITY_LIVENESS: five minutes

Active == {"running", "waiting"}

Card(state, started, finished) ==
    [state |-> state, started |-> started, finished |-> finished]

(* The newest message of a session: asks is an approval marker, prompt the *)
(* message an answer of the assistant belongs to.                          *)
Message(role, at, done, finish, prompt, asks) ==
    [role |-> role, at |-> at, done |-> done, finish |-> finish,
     prompt |-> prompt, asks |-> asks]
NoMessage == Message("none", 0, 0, "", 0, FALSE)

-----------------------------------------------------------------------------
(* ZCode: the newest message, the status of the last model request that    *)
(* has finished, and the newest tool record.                               *)

Open(tail) ==
    \/ tail.role = "user"
    \/ tail.role = "assistant" /\ (tail.done = 0 \/ tail.finish = "tool-calls")

UsageState ==
    [none |-> "queued", running |-> "running", error |-> "error",
     cancelled |-> "queued", completed |-> "completed"]

(* Mutant: the last finished request decides before the newest message. *)
UsageFirst(s, age) ==
    IF s.usage # "none" THEN UsageState[s.usage]
    ELSE IF Open(s.tail) /\ age < Window THEN "running" ELSE "queued"

(* The newest tool is running and its approval is still to be given.       *)
PendingApproval(s) == s.tool.status = "running" /\ s.tool.approval = "pending"

ZCodeState(s, age) ==
    IF PendingApproval(s) THEN "waiting"
    ELSE IF Open(s.tail) /\ age < Window THEN "running"
    ELSE IF Open(s.tail) THEN "paused"
    ELSE UsageState[s.usage]

(* turn_timestamps: the prompt, across every request the turn has made. *)
TurnStart(s) == IF s.tail.role = "user" THEN s.tail.at ELSE s.tail.prompt
TurnEnd(s) ==
    IF s.tail.role = "assistant" /\ s.tail.finish # "tool-calls"
    THEN s.tail.done ELSE 0

ZCodeCard(s, age) ==
    LET state == ZCodeState(s, age)
    IN  Card(state, IF state = "queued" THEN 0 ELSE TurnStart(s),
                    IF state = "completed" THEN TurnEnd(s) ELSE 0)

-----------------------------------------------------------------------------
(* Hermes' database: user is the newest message of the user. *)

Ended == {"stop", "completed", "length"}

HermesCard(s, age) ==
    LET pending == \/ s.tail.role \in {"user", "tool"}
                   \/ s.tail.role = "assistant" /\ s.tail.finish \notin Ended
    IN  IF s.tail.asks /\ age <= Window THEN Card("waiting", s.user, 0)
        ELSE IF pending /\ age <= Window THEN Card("running", s.user, 0)
        ELSE IF s.end.reason = "error" THEN Card("error", s.user, s.end.at)
        ELSE IF s.tail.role = "assistant" /\ s.tail.finish \in Ended
             THEN Card("completed", s.user, s.tail.at)
        ELSE Card("queued", 0, 0)

(* The cached responses of a remote backend: the newest listing, and the   *)
(* newest transcript.  Its dates count only if it covers the activity the  *)
(* listing knows of, and not when it ends a turn the listing has active.   *)
CachedState(l) ==
    IF l.asks THEN "waiting"
    ELSE IF l.active THEN "running"
    ELSE IF l.reason = "error" THEN "error" ELSE "completed"

(* Mutant: an older transcript lends its dates. *)
AnyTranscript(l, d) == d.tail.role # "none"

Covers(l, d) ==
    /\ d.tail.role # "none" /\ d.user # 0
    /\ d.tail.at >= l.activity
    /\ ~(l.active /\ d.tail.role = "assistant" /\ d.tail.finish \in Ended)

CachedCard(l, d) ==
    LET state == CachedState(l)
    IN  IF ~Covers(l, d) THEN Card(state, 0, 0)
        ELSE Card(state, d.user,
                  IF state = "completed" /\ d.tail.role = "assistant"
                        /\ d.tail.finish \in Ended
                  THEN d.tail.at ELSE 0)

-----------------------------------------------------------------------------
(* Claude Code: the record of a process.  later: the status has changed    *)
(* more than five seconds after the session started.                       *)
ClaudeState(r) ==
    CASE r.status = "busy" -> "running"
      [] r.status = "permission" -> "waiting"
      [] r.status = "error" -> "error"
      [] r.status = "idle" -> IF r.later THEN "completed" ELSE "queued"

(* The status of an active session was written when its turn started.      *)
ClaudeCard(r) ==
    Card(ClaudeState(r), IF ClaudeState(r) \in Active THEN r.changed ELSE 0, 0)

(* Mutant: the number of the process decides.                              *)
AnyProcess(r) == r.process # "none"

(* A process with the number of the record that also started when the      *)
(* record says: a process is "own", there is none, or another program has  *)
(* its number.                                                             *)
Alive(r) == r.process = "own"

ClaudeCards(r) == IF Alive(r) THEN {ClaudeCard(r)} ELSE {}

-----------------------------------------------------------------------------
(* Codex: the lifecycle the events of a rollout add up to. *)

NoLifecycle == [state |-> "queued", turn |-> 0, asked |-> {}]
NewCursor(path) ==
    [path |-> path, offset |-> 0, lifecycle |-> NoLifecycle, verified |-> FALSE]

Stale(l, turn) == l.turn # 0 /\ l.turn # turn

LifecycleEvent(l, e) ==
    CASE e.kind = "started" -> [l EXCEPT !.state = "running", !.turn = e.of]
      [] e.kind \in {"completed", "paused"} ->
            IF Stale(l, e.of) THEN l
            ELSE [l EXCEPT !.state = e.kind, !.turn = e.of]
      [] e.kind = "asked" -> [l EXCEPT !.asked = @ \cup {e.of}]
      [] e.kind = "answered" -> [l EXCEPT !.asked = @ \ {e.of}]
      [] e.kind = "other" -> l

(* One line.  Events count only after the line that says whose they are.   *)
ReadLine(c, thread, e) ==
    [c EXCEPT
        !.offset = @ + 1,
        !.verified = IF e.kind = "session" THEN e.of = thread ELSE @,
        !.lifecycle =
            IF e.kind = "session"
            THEN IF e.of = thread THEN @ ELSE NoLifecycle
            ELSE IF c.verified THEN LifecycleEvent(@, e) ELSE @]

CodexCard(l) ==
    Card(IF l.asked # {} THEN "waiting" ELSE l.state, l.turn, 0)
=============================================================================

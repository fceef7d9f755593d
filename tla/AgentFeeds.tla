----------------------------- MODULE AgentFeeds ------------------------------
(***************************************************************************)
(* The automatic feeds of the daemon (daemon.rs): it polls what a desktop  *)
(* application has written, while that application or a proxy of its agent *)
(* runs and no session of the agent publishes cards itself.                *)
(*                                                                         *)
(* One session of one application is followed; the application is external *)
(* and modelled from what the readers say of it.                           *)
(***************************************************************************)
EXTENDS Readers, FiniteSets

CONSTANTS
    Agents,      \* the applications of an instance
    MaxTurns,    \* bound on the turns of the session
    MaxWrites,   \* bound on the writes of the application
    MaxFaults    \* bound on reads that fail and publications refused

ASSUME FeedsAssumption ==
    /\ Agents \subseteq {"zcode", "hermes", "remote", "claude", "codex"}
    /\ {MaxTurns, MaxWrites, MaxFaults} \subseteq Nat

VARIABLES
    agent,
    phase,     \* what the session is doing
    turn,      \* its turn: the number of the write of the prompt
    turns,
    clock,     \* writes so far
    age,       \* of the date its reader compares with the clock
    store,     \* what is on disk; every application uses fields of its own
    abandoned, \* Codex, history: turns of this rollout that were aborted
               \* with an approval still to be given
    cursor,    \* Codex: RolloutCursor
    reading,   \* Codex: the lines of a rollout are being read
    proxy,     \* a session of the agent is connected
    desktop,   \* the application runs
    probed,    \* the daemon has found it running
    manual,    \* cards the session published: "none", "live" or "lease"
    card,      \* the card of the feed on the board, if any
    faults

app == <<phase, turn, turns, clock, age, store, abandoned>>
codex == <<cursor, reading>>
gate == <<proxy, desktop, probed, manual>>
vars == <<agent, app, codex, gate, card, faults>>

NoListing == [known |-> FALSE, phase |-> "idle", turn |-> 0, active |-> FALSE,
              asks |-> FALSE, reason |-> "", activity |-> 0]
NoDetails == [tail |-> NoMessage, user |-> 0]

Tool(status, approval) == [status |-> status, approval |-> approval]
EmptyStore ==
    [tail |-> NoMessage, user |-> 0, usage |-> "none", tool |-> Tool("none", "none"),
     end |-> [reason |-> "", at |-> 0], listing |-> NoListing, details |-> NoDetails,
     record |-> [process |-> "own", status |-> "idle", changed |-> 0, later |-> FALSE],
     path |-> 1, lines |-> <<>>, torn |-> FALSE]

Init ==
    /\ agent \in Agents
    /\ phase = "idle" /\ turn = 0 /\ turns = 0 /\ clock = 0 /\ age = 0
    /\ store = EmptyStore /\ abandoned = {}
    /\ cursor = NewCursor(0) /\ reading = FALSE
    /\ proxy = FALSE /\ desktop = TRUE /\ probed = FALSE /\ manual = "none"
    /\ card = {} /\ faults = 0

Stored(fields) == [f \in DOMAIN store |-> IF f \in DOMAIN fields THEN fields[f] ELSE store[f]]

-----------------------------------------------------------------------------
(* The application.  Each of its steps is one write.                       *)

Busy == {"thinking", "streaming", "tool", "asking"}
now == clock + 1

Say(role, done, finish, asks) ==
    Message(role, now, done, finish, turn, asks)
Record(status) ==
    [record |-> [store.record EXCEPT !.status = status, !.changed = now,
                                     !.later = (turns > 0)]]
Line(kind, of) == [lines |-> Append(store.lines, [kind |-> kind, of |-> of])]

(* A message is dated when it is written.  What changes no more than the   *)
(* last one, or another table, moves no date of Hermes' messages; it may   *)
(* or may not update ZCode's session.                                      *)
NewMessage(fields) == "tail" \in DOMAIN fields /\ fields.tail.at = now
Ages(fields) ==
    CASE agent = "hermes" /\ ~NewMessage(fields) -> {age}
      [] agent = "zcode" /\ ~NewMessage(fields) -> {0, age}
      [] OTHER -> {0}

Write(to, fields) ==
    /\ desktop /\ clock < MaxWrites
    /\ clock' = now /\ age' \in Ages(fields)
    /\ phase' = to
    /\ store' = [Stored(fields) EXCEPT !.torn = FALSE]
    /\ UNCHANGED <<agent, codex, gate, card, faults>>

SameTurn == UNCHANGED <<turn, turns, abandoned>>

Prompt ==
    /\ phase \in {"idle", "done", "failed", "aborted"} /\ turns < MaxTurns
    /\ store.end.reason = ""
    /\ turn' = now /\ turns' = turns + 1 /\ UNCHANGED abandoned
    /\ Write("thinking",
             CASE agent \in {"zcode", "hermes", "remote"} ->
                     [tail |-> Say("user", 0, "", FALSE), user |-> now]
               [] agent = "claude" -> Record("busy")
               [] agent = "codex" ->
                     [lines |-> (IF store.lines = <<>>
                                 THEN <<[kind |-> "session", of |-> 1]>> ELSE store.lines)
                                \o <<[kind |-> "started", of |-> now]>>])

(* ZCode keeps the message it is receiving, without its end.               *)
Stream ==
    /\ agent = "zcode" /\ phase = "thinking" /\ SameTurn
    /\ Write("streaming", [tail |-> Say("assistant", 0, "", FALSE)])

Answering == IF agent = "zcode" THEN "streaming" ELSE "thinking"

(* A tool is called, and may have to be allowed by the user.               *)
CallTool(asks) ==
    /\ phase = Answering /\ SameTurn
    /\ Write(IF asks THEN "asking" ELSE "tool",
             CASE agent = "zcode" ->
                     [tail |-> Say("assistant", now, "tool-calls", FALSE),
                      usage |-> "completed",
                      tool |-> Tool("running", IF asks THEN "pending" ELSE "none")]
               [] agent \in {"hermes", "remote"} ->
                     [tail |-> Say("assistant", now, "tool_calls", asks)]
               [] agent = "claude" -> Record(IF asks THEN "permission" ELSE "busy")
               [] agent = "codex" -> IF asks THEN Line("asked", turn) ELSE Line("other", 0))

(* Codex writes nothing of a decision before the result of the tool. *)
Allow ==
    /\ phase = "asking" /\ agent # "codex" /\ SameTurn
    /\ Write("tool",
             CASE agent = "zcode" -> [tool |-> Tool("running", "granted")]
               [] agent \in {"hermes", "remote"} -> [tail |-> [store.tail EXCEPT !.asks = FALSE]]
               [] agent = "claude" -> Record("busy"))

(* The result of a tool, or of one that was not allowed. *)
ToolEnds ==
    /\ phase \in {"tool", "asking"} /\ SameTurn
    /\ Write("thinking",
             CASE agent = "zcode" -> [tail |-> Say("user", 0, "", FALSE), tool |-> Tool("completed", store.tool.approval)]
               [] agent \in {"hermes", "remote"} -> [tail |-> Say("tool", now, "", FALSE)]
               [] agent = "claude" -> Record("busy")
               [] agent = "codex" -> Line(IF phase = "asking" THEN "answered" ELSE "other", turn))

Finish ==
    /\ phase = Answering /\ SameTurn
    /\ Write("done",
             CASE agent = "zcode" -> [tail |-> Say("assistant", now, "stop", FALSE),
                                      usage |-> "completed"]
               [] agent \in {"hermes", "remote"} -> [tail |-> Say("assistant", now, "stop", FALSE)]
               [] agent = "claude" -> Record("idle")
               [] agent = "codex" -> Line("completed", turn))

Fail ==
    /\ phase = Answering /\ agent # "codex" /\ SameTurn
    /\ Write("failed",
             CASE agent = "zcode" -> [tail |-> Say("assistant", now, "error", FALSE),
                                      usage |-> "error"]
               [] agent \in {"hermes", "remote"} ->
                     [end |-> [reason |-> "error", at |-> now]]
               [] agent = "claude" -> Record("error"))

(* The message ZCode was receiving is never finished.  Claude Code and     *)
(* Codex are aborted at any point of a turn; Codex then writes no result   *)
(* of a tool that was to be allowed.                                       *)
Abort ==
    /\ phase = Answering \/ (agent \in {"claude", "codex"} /\ phase \in Busy)
    /\ agent # "hermes"
    /\ UNCHANGED <<turn, turns>>
    /\ abandoned' = IF agent = "codex" /\ phase = "asking"
                    THEN abandoned \cup {turn} ELSE abandoned
    /\ Write("aborted",
             CASE agent = "zcode" -> [usage |-> "cancelled"]
               [] agent = "remote" -> [end |-> [reason |-> "", at |-> now]]
               [] agent = "claude" -> Record("idle")
               [] agent = "codex" -> Line("paused", turn))

(* The end of an aborted turn is written after the start of the next one.  *)
EndLate ==
    /\ agent = "codex" /\ phase \in Busy /\ turns = 2 /\ SameTurn
    /\ ~\E k \in DOMAIN store.lines : store.lines[k].kind = "paused"
    /\ Write(phase, Line("paused", 1))

(* Codex goes on in another rollout, or has written half of the next line. *)
MoveRollout ==
    /\ agent = "codex" /\ phase \notin Busy /\ store.path = 1 /\ ~reading
    /\ UNCHANGED <<turn, turns>> /\ abandoned' = {}
    /\ Write("idle", [path |-> 2, lines |-> <<[kind |-> "session", of |-> 1]>>])

BeginLine ==
    /\ agent = "codex" /\ phase \in Busy /\ ~store.torn
    /\ store' = [store EXCEPT !.torn = TRUE]
    /\ UNCHANGED <<agent, phase, clock, age, codex, gate, card, faults>> /\ SameTurn

(* The responses of the remote backend that the application caches. *)
Fetch(fields) ==
    /\ agent = "remote" /\ desktop
    /\ store' = Stored(fields) /\ store' # store
    /\ UNCHANGED <<agent, phase, clock, age, codex, gate, card, faults>> /\ SameTurn

FetchListing ==
    Fetch([listing |-> [known |-> TRUE, phase |-> phase, turn |-> turn,
                        active |-> phase \in Busy, asks |-> store.tail.asks,
                        reason |-> store.end.reason, activity |-> store.tail.at]])
FetchDetails == Fetch([details |-> [tail |-> store.tail, user |-> store.user]])

(* The application ends, in the middle of a turn perhaps. *)
Exit ==
    /\ desktop /\ desktop' = FALSE
    /\ phase' = IF phase \in Busy THEN "dead" ELSE phase
    /\ store' = [store EXCEPT !.record.process = "none"]
    /\ UNCHANGED <<agent, clock, age, codex, proxy, probed, manual, card, faults>>
    /\ SameTurn

(* Another program is given the number of the process that has ended.      *)
Reuse ==
    /\ agent = "claude" /\ store.record.process = "none"
    /\ store' = [store EXCEPT !.record.process = "other"]
    /\ UNCHANGED <<agent, phase, clock, age, codex, gate, card, faults>> /\ SameTurn

Tick ==
    /\ age <= Window /\ age' = age + 1
    /\ UNCHANGED <<agent, phase, clock, store, codex, gate, card, faults>> /\ SameTurn

-----------------------------------------------------------------------------
(* The sessions of the agent.  Codex has no feed of this kind, and that of *)
(* a remote Hermes differs from Hermes' in nothing but its reader.         *)

Session(p, m, c) ==
    /\ agent \notin {"codex", "remote"}
    /\ proxy' = p /\ manual' = m /\ card' = c
    /\ UNCHANGED <<agent, app, codex, desktop, probed>>

Connect == ~proxy /\ Session(TRUE, manual, card) /\ UNCHANGED faults
Disconnect ==
    /\ proxy
    /\ Session(FALSE, IF manual = "live" THEN "lease" ELSE manual, card)
    /\ UNCHANGED faults
LeaseEnds == manual = "lease" /\ Session(proxy, "none", card) /\ UNCHANGED faults

(* publish_tasks: the feed's card goes, even if the cards are then refused.*)
Publish ==
    /\ proxy
    /\ \/ Session(TRUE, "live", {}) /\ UNCHANGED faults
       \/ Session(TRUE, "none", {}) /\ UNCHANGED faults
       \/ /\ faults < MaxFaults /\ faults' = faults + 1
          /\ Session(TRUE, manual, {})

-----------------------------------------------------------------------------
(* The daemon. *)

Probe ==
    /\ probed' = desktop /\ probed # desktop
    /\ UNCHANGED <<agent, app, codex, proxy, desktop, manual, card, faults>>

(* Mutant: only the application counts. *)
FeedingDesktop == probed /\ manual = "none"

(* An agent with a proxy or its application, and no cards of its own. *)
Feeding == (proxy \/ probed) /\ manual = "none"

ClearFeed ==
    /\ agent # "codex" /\ ~Feeding /\ card # {}
    /\ card' = {}
    /\ UNCHANGED <<agent, app, codex, gate, faults>>

Snapshot ==
    CASE agent = "zcode" -> {ZCodeCard(store, age)}
      [] agent = "hermes" -> {HermesCard(store, age)}
      [] agent = "remote" ->
            IF store.listing.known THEN {CachedCard(store.listing, store.details)} ELSE {}
      [] agent = "claude" -> ClaudeCards(store.record)

PollFeed ==
    /\ agent # "codex" /\ Feeding
    /\ card' = Snapshot
    /\ UNCHANGED <<agent, app, codex, gate, faults>>

(* A store that cannot be read leaves the card as it is. *)
PollFails ==
    /\ faults < MaxFaults /\ faults' = faults + 1
    /\ agent = "codex" => reading
    /\ reading' = FALSE
    /\ UNCHANGED <<agent, app, cursor, gate, card>>

(* refresh_rollout: another or a shorter file is read from its beginning.  *)
Resumed ==
    IF cursor.path # store.path \/ Len(store.lines) < cursor.offset
    THEN NewCursor(store.path) ELSE cursor

OpenRollout ==
    /\ agent = "codex" /\ ~reading /\ store.lines # <<>>
    /\ reading' = TRUE
    /\ cursor' = Resumed
    /\ UNCHANGED <<agent, app, gate, card, faults>>

ReadRollout ==
    /\ reading /\ cursor.offset < Len(store.lines)
    /\ cursor' = ReadLine(cursor, 1, store.lines[cursor.offset + 1])
    /\ UNCHANGED <<agent, app, reading, gate, card, faults>>

(* A line without its end is left for the next time. *)
PublishRollout ==
    /\ reading /\ cursor.offset >= Len(store.lines)
    /\ reading' = FALSE
    /\ card' = {CodexCard(cursor.lifecycle)}
    /\ UNCHANGED <<agent, app, cursor, gate, faults>>

-----------------------------------------------------------------------------
Application ==
    \/ Prompt \/ Stream \/ (\E asks \in BOOLEAN : CallTool(asks)) \/ Allow
    \/ ToolEnds \/ Finish \/ Fail \/ Abort \/ EndLate
    \/ MoveRollout \/ BeginLine \/ FetchListing \/ FetchDetails \/ Exit \/ Reuse
Client == Connect \/ Disconnect \/ LeaseEnds \/ Publish
Daemon == ClearFeed \/ PollFeed \/ OpenRollout \/ ReadRollout \/ PublishRollout

Next == Application \/ Tick \/ Client \/ Probe \/ Daemon \/ PollFails
Spec == Init /\ [][Next]_vars

(* The loop goes on, leases end and time passes. *)
FairSpec ==
    Spec /\ WF_vars(Daemon) /\ WF_vars(Probe) /\ WF_vars(LeaseEnds) /\ WF_vars(Tick)

-----------------------------------------------------------------------------
(* Properties.                                                             *)

(* What the reader can know of: for a remote backend, the newest listing.  *)
Seen == IF agent = "remote" THEN store.listing.phase ELSE phase
SeenTurn == IF agent = "remote" THEN store.listing.turn ELSE turn

(* The date that ZCode's and Hermes' readers go by is recent; no other     *)
(* reader goes by one.                                                     *)
Fresh == agent \in {"claude", "codex", "remote"} \/ age < Window

Tells(c) ==
    /\ c.state = "completed" =>
          Seen \in {"done"} \cup (IF agent \in {"remote", "claude"}
                                  THEN {"aborted", "idle"} ELSE {})
    /\ Seen = "done" => c.state = "completed" \/ abandoned # {}
    /\ Seen \in Busy /\ Fresh => c.state \in Active
    /\ Seen = "asking" /\ Fresh => c.state = "waiting"
    /\ c.state = "waiting" => Seen \in {"asking", "dead"} \/ abandoned # {}

(* A card that is published tells what the session does: no trace of an    *)
(* earlier request, turn or rollout, and no half-written line, passes for  *)
(* the current turn, and a turn is not taken for finished, or for waiting  *)
(* for the user, unless it is.  The exception is a rollout of Codex with a *)
(* turn aborted while it asked: nothing clears its request, and the card   *)
(* waits from then on (apply_lifecycle_event).                             *)
CardTellsTheTurn ==
    [][PollFeed \/ PublishRollout => \A c \in card' : Tells(c)]_vars

(* The timer of a card never starts at a previous turn (turn_timestamps,   *)
(* apply_cached_turn_timing).                                              *)
StartIsOfThisTurn ==
    [][PollFeed => \A c \in card' :
          c.state \in Active \cup {"completed"} /\ c.started # 0
             => c.started >= SeenTurn]_vars

(* A turn whose application has ended does not look active for ever.  For  *)
(* ZCode this needs that no approval was pending; a rollout of Codex has   *)
(* no such bound.                                                          *)
DeadTurnsFade ==
    (phase = "dead" /\ agent \in {"zcode", "hermes", "claude"} /\ ~PendingApproval(store))
        ~> \A c \in card : c.state \notin Active

(* While its agent is active and has no cards of its own, the feed puts    *)
(* its card back, whatever was cleared or refused before (call_tool_for).  *)
CardsComeBack ==
    (agent \in {"zcode", "hermes"} /\ proxy /\ manual = "none")
        ~> (card # {} \/ ~proxy \/ manual # "none")
=============================================================================

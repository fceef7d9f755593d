--------------------------- MODULE AgentFeedsProofs ---------------------------
(***************************************************************************)
(* What the feeds publish is true of the session they follow, whatever the *)
(* application writes, for every number of turns and writes: theorems      *)
(* about AgentFeeds and the operators of Readers.                          *)
(*                                                                         *)
(* The readers look at what is on disk, never at the phase of the session, *)
(* so the invariant says for each application which stores a phase can     *)
(* leave behind, and a lemma for each reader what it makes of them.  For   *)
(* Codex the card comes from a cursor that may lag behind the rollout: the *)
(* invariant speaks of the history of cursors that reading the rollout     *)
(* from its beginning goes through, which the cursor is always in.         *)
(***************************************************************************)
EXTENDS AgentFeeds, SequenceTheorems, TLAPS

Phases == Busy \cup {"idle", "done", "failed", "aborted", "dead"}
Ends == {"", "tool-calls", "tool_calls", "stop", "error"}
Messages == [role : {"none", "user", "assistant", "tool"}, at : Nat, done : Nat,
             finish : Ends, prompt : Nat, asks : BOOLEAN]
Listings == [known : BOOLEAN, phase : Phases, turn : Nat, active : BOOLEAN,
             asks : BOOLEAN, reason : {"", "error"}, activity : Nat]
Records == [process : {"own", "none", "other"}, changed : Nat, later : BOOLEAN,
            status : {"idle", "busy", "permission", "error"}]
Lines == [kind : {"session", "started", "completed", "paused", "asked", "answered", "other"},
          of : Nat]
Reasons == [reason : {"", "error"}, at : Nat]
Lifecycles ==
    [state : {"queued", "running", "completed", "paused"}, turn : Nat, asked : SUBSET Nat]
Stores ==
    [tail : Messages, user : Nat, usage : {"none", "completed", "error", "cancelled"},
     tool : [status : {"none", "running", "completed"}, approval : {"none", "pending", "granted"}],
     end : Reasons, listing : Listings, details : [tail : Messages, user : Nat],
     record : Records, path : {1, 2}, lines : Seq(Lines), torn : BOOLEAN]
Cursors == [path : Nat, offset : Nat, verified : BOOLEAN, lifecycle : Lifecycles]

Types ==
    /\ agent \in {"zcode", "hermes", "remote", "claude", "codex"}
    /\ phase \in Phases
    /\ turn \in Nat /\ turns \in Nat /\ clock \in Nat /\ age \in Nat
    /\ store \in Stores
    /\ reading \in BOOLEAN /\ desktop \in BOOLEAN
    /\ turn <= clock
    /\ turns > 0 => turn > 0
    /\ turns > 1 => turn > 1
    /\ phase = "idle" \/ turns > 0
    /\ phase = "dead" => ~desktop
    /\ reading => agent = "codex"

-----------------------------------------------------------------------------
(* What each application leaves on disk, by the phase p of turn t.         *)

Asks(s) == s.tail.role = "assistant" /\ s.tail.finish = "tool-calls"

ZCodeStore(s, p, t) ==
    /\ p \in {"thinking", "streaming", "tool", "asking", "done", "failed", "aborted", "dead"} =>
          \/ s.tail.role = "user" /\ s.tail.at >= t
          \/ s.tail.role = "assistant" /\ s.tail.prompt = t
    /\ p \in Busy \cup {"aborted", "dead"} => Open(s.tail)
    /\ p = "idle" => s.tail.role = "none" /\ s.usage = "none"
    /\ p = "done" => s.usage = "completed"
    /\ p = "failed" => s.usage = "error"
    /\ p \in {"done", "failed"} => ~Open(s.tail)
    /\ PendingApproval(s) => p \in {"asking", "dead"}
    /\ p = "asking" => PendingApproval(s)

(* Hermes, and a remote backend of it.                                     *)
HermesStore(s, p, t) ==
    /\ s.user = t /\ s.tail.at >= t
    /\ s.end.reason = (IF p = "failed" THEN "error" ELSE "")
    /\ p \in {"thinking", "failed", "aborted"} => s.tail.role \in {"user", "tool"}
    /\ p \in {"tool", "asking"} => s.tail.role = "assistant" /\ s.tail.finish = "tool_calls"
    /\ p = "done" => s.tail.role = "assistant" /\ s.tail.finish = "stop"
    /\ p = "dead" =>
          \/ s.tail.role \in {"user", "tool"}
          \/ s.tail.role = "assistant" /\ s.tail.finish = "tool_calls"
    /\ p = "idle" => s.tail.role = "none"
    /\ s.tail.asks => p \in {"asking", "dead"}
    /\ p = "asking" => s.tail.asks
    /\ p # "streaming"

(* What the application has cached of it: a listing is of one moment, and  *)
(* a transcript that reaches the turn of the listing knows its prompt.     *)
RemoteCache(s, t, c) ==
    /\ s.listing.active <=> s.listing.phase \in Busy
    /\ s.listing.asks <=> s.listing.phase = "asking"
    /\ s.listing.reason = "error" <=> s.listing.phase = "failed"
    /\ s.listing.phase # "dead"
    /\ s.listing.turn <= s.listing.activity
    /\ s.listing.turn <= t
    /\ s.details.tail.at >= s.listing.turn => s.details.user >= s.listing.turn
    /\ s.details.tail.at >= t => s.details.user >= t
    /\ s.details.tail.at <= c /\ s.tail.at <= c

ClaudeStore(s, p, t) ==
    /\ s.record.changed >= t
    /\ s.record.status =
          CASE p \in {"thinking", "tool"} -> "busy"
            [] p = "asking" -> "permission"
            [] p \in {"idle", "done", "aborted"} -> "idle"
            [] p = "failed" -> "error"
            [] OTHER -> s.record.status
    /\ p = "done" => s.record.later
    /\ p # "streaming"
    /\ s.record.process = "own" => p # "dead"

(* h is what reading these lines from the first on goes through.           *)
Reads(h, path, lines) ==
    /\ Len(h) = Len(lines) + 1
    /\ h[1] = NewCursor(path)
    /\ \A k \in 1 .. Len(lines) : h[k + 1] = ReadLine(h[k], 1, lines[k])

(* The lifecycle l at the end of the rollout, by phase; the requests of the*)
(* turns a were never answered.                                            *)
CodexEnd(l, p, t, a) ==
    /\ p \in Busy \cup {"dead"} => l.state = "running" /\ l.turn = t
    /\ p = "done" => l.state = "completed"
    /\ p = "aborted" => l.state = "paused"
    /\ p = "idle" => l.state = "queued"
    /\ p \notin {"asking", "dead"} => l.asked = a
    /\ p = "asking" => l.asked = a \cup {t}
    /\ \A x \in a : x \in Nat /\ x <= t
    /\ p \in Busy => t \notin a
    /\ p \notin {"streaming", "failed"}

CodexHistory(h) ==
    /\ Reads(h, store.path, store.lines)
    /\ phase # "idle" => store.lines # <<>>
    /\ CodexEnd(h[Len(h)].lifecycle, phase, turn, abandoned)
    /\ h[Len(h)].verified = (store.lines # <<>>)
    /\ cursor.path = store.path =>
          cursor.offset <= Len(store.lines) /\ cursor = h[cursor.offset + 1]
    /\ cursor.path <= store.path
    /\ reading => cursor.path = store.path

AppInv ==
    /\ agent = "zcode" => ZCodeStore(store, phase, turn)
    /\ agent \in {"hermes", "remote"} => HermesStore(store, phase, turn)
    /\ agent = "remote" => RemoteCache(store, turn, clock)
    /\ agent = "claude" => ClaudeStore(store, phase, turn)
    /\ agent = "codex" => \E h \in Seq(Cursors) : CodexHistory(h)

Inv == Types /\ cursor \in Cursors /\ AppInv

-----------------------------------------------------------------------------
(* Writes.                                                                 *)

(* What a write does besides the fields it gives.                          *)
Wrote(to) ==
    /\ desktop /\ clock' = clock + 1 /\ age' \in {0, age} /\ phase' = to
    /\ UNCHANGED <<agent, codex, gate, card, faults>>

(* The store with these fields, without a half-written line.               *)
With(tail, user, usage, tool, end, record, path, lines) ==
    [tail |-> tail, user |-> user, usage |-> usage, tool |-> tool, end |-> end,
     listing |-> store.listing, details |-> store.details, record |-> record,
     path |-> path, lines |-> lines, torn |-> FALSE]

Given(fields, f) == IF f \in DOMAIN fields THEN fields[f] ELSE store[f]

(* A write replaces the fields it gives and no other.                      *)
LEMMA WriteSets ==
    ASSUME Types, NEW to, NEW fields, Write(to, fields),
           \A f \in {"listing", "details", "torn"} : f \notin DOMAIN fields
    PROVE  /\ Wrote(to)
           /\ store' = With(Given(fields, "tail"), Given(fields, "user"),
                            Given(fields, "usage"), Given(fields, "tool"),
                            Given(fields, "end"), Given(fields, "record"),
                            Given(fields, "path"), Given(fields, "lines"))
<1>1. store' = [f \in DOMAIN store |->
                    IF f = "torn" THEN FALSE
                    ELSE IF f \in DOMAIN fields THEN fields[f] ELSE store[f]]
  BY DEF Write, Types, Stores, Stored
<1>2. DOMAIN store = {"tail", "user", "usage", "tool", "end", "listing", "details",
                      "record", "path", "lines", "torn"}
  BY DEF Types, Stores
<1>3. /\ store'.listing = store.listing /\ store'.details = store.details
      /\ store'.torn = FALSE
  BY <1>1, <1>2
<1>4. \A f \in DOMAIN store \ {"torn"} : store'[f] = Given(fields, f)
  BY <1>1, <1>2 DEF Given
<1>5. store' = [tail |-> store'.tail, user |-> store'.user, usage |-> store'.usage,
                tool |-> store'.tool, end |-> store'.end,
                listing |-> store'.listing, details |-> store'.details,
                record |-> store'.record, path |-> store'.path,
                lines |-> store'.lines, torn |-> store'.torn]
  BY <1>1, <1>2
<1> QED
  BY <1>2, <1>3, <1>4, <1>5 DEF With, Write, Wrote, now, Ages

(* A write of a prompt, or of another step of a turn, keeps the counters.  *)
LEMMA WriteTypes ==
    ASSUME Types, NEW to \in Phases \ {"dead"}, Wrote(to), store' \in Stores,
           \/ turn' = clock + 1 /\ turns' = turns + 1
           \/ turn' = turn /\ turns' = turns /\ (to = "idle" \/ turns > 0)
    PROVE  Types'
BY DEF Types, Wrote, codex, gate

LEMMA WithTypes ==
    ASSUME Types, NEW tail \in Messages, NEW user \in Nat,
           NEW usage \in {"none", "completed", "error", "cancelled"},
           NEW tool \in [status : {"none", "running", "completed"},
                         approval : {"none", "pending", "granted"}],
           NEW end \in Reasons, NEW record \in Records,
           NEW path \in {1, 2}, NEW lines \in Seq(Lines)
    PROVE  With(tail, user, usage, tool, end, record, path, lines) \in Stores
BY DEF Types, Stores, With

LEMMA StoreTypes ==
    ASSUME Types
    PROVE  /\ store.tail \in Messages /\ store.user \in Nat
           /\ store.usage \in {"none", "completed", "error", "cancelled"}
           /\ store.tool \in [status : {"none", "running", "completed"},
                              approval : {"none", "pending", "granted"}]
           /\ store.end \in Reasons /\ store.record \in Records
           /\ store.path \in {1, 2} /\ store.lines \in Seq(Lines) /\ now \in Nat
<1>1. now \in Nat
  BY DEF Types, now
<1> QED
  BY <1>1 DEF Types, Stores

LEMMA ProcessTypes ==
    ASSUME Types, NEW p \in {"own", "none", "other"}
    PROVE  [store EXCEPT !.record.process = p] \in Stores
<1>1. [store.record EXCEPT !.process = p] \in Records
  BY DEF Types, Stores, Records
<1> QED
  BY <1>1 DEF Types, Stores

(* A card whose timer does not start before the turn it tells of.          *)
StartsIn(c) ==
    c.state \in Active \cup {"completed"} /\ c.started # 0 => c.started >= SeenTurn

-----------------------------------------------------------------------------
(* ZCode.                                                                  *)

LEMMA ZCodeWrites ==
    ASSUME Types, agent = "zcode", ZCodeStore(store, phase, turn), Application
    PROVE  Types' /\ ZCodeStore(store', phase', turn')
<1> USE DEF SameTurn, Answering
<1>1. CASE Prompt
  <2> DEFINE m == Say("user", 0, "", FALSE)
  <2>m. /\ m \in Messages /\ m.role = "user" /\ m.at = clock + 1 /\ m.done = 0
        /\ m.finish = "" /\ m.prompt = turn /\ m.asks = FALSE
    BY DEF Say, Message, Messages, Ends, now, Types
  <2>1. Write("thinking", [tail |-> m, user |-> now])
    BY <1>1 DEF Prompt
  <2> HIDE DEF m
  <2>2. /\ Wrote("thinking")
        /\ store' = With(m, now, store.usage, store.tool,
                         store.end, store.record, store.path, store.lines)
    BY <2>1, WriteSets DEF Given
  <2>3. store' \in Stores
    BY <2>2, <2>m, StoreTypes, WithTypes
  <2>4. turn' = clock + 1 /\ turns' = turns + 1
    BY <1>1 DEF Prompt, now
  <2>5. Types'
    BY <2>2, <2>3, <2>4, <2>m, WriteTypes DEF Phases, Busy
  <2> QED
    BY <1>1, <2>2, <2>4, <2>5, <2>m
    DEF Prompt, ZCodeStore, With, Wrote, Busy, Types, Open, PendingApproval
<1>2. CASE Stream
  <2> DEFINE m == Say("assistant", 0, "", FALSE)
  <2>m. /\ m \in Messages /\ m.role = "assistant" /\ m.at = clock + 1 /\ m.done = 0
        /\ m.finish = "" /\ m.prompt = turn /\ m.asks = FALSE
    BY DEF Say, Message, Messages, Ends, now, Types
  <2>1. Write("streaming", [tail |-> m])
    BY <1>2 DEF Stream
  <2> HIDE DEF m
  <2>2. /\ Wrote("streaming")
        /\ store' = With(m, store.user, store.usage, store.tool,
                         store.end, store.record, store.path, store.lines)
    BY <2>1, WriteSets DEF Given
  <2>3. store' \in Stores
    BY <2>2, <2>m, StoreTypes, WithTypes
  <2>4. turn' = turn /\ turns' = turns /\ turns > 0
    BY <1>2 DEF Stream, Types, Busy
  <2>5. Types'
    BY <2>2, <2>3, <2>4, <2>m, WriteTypes DEF Phases, Busy
  <2> QED
    BY <1>2, <2>2, <2>4, <2>5, <2>m
    DEF Stream, ZCodeStore, With, Wrote, Busy, Types, Open, PendingApproval
<1>3. CASE \E asks \in BOOLEAN : CallTool(asks)
  <2>0. PICK asks \in BOOLEAN : CallTool(asks)
    BY <1>3
  <2> DEFINE m == Say("assistant", now, "tool-calls", FALSE)
            t == Tool("running", IF asks THEN "pending" ELSE "none")
            to == IF asks THEN "asking" ELSE "tool"
  <2>m. /\ m \in Messages /\ m.role = "assistant" /\ m.at = clock + 1 /\ m.done = clock + 1
        /\ m.finish = "tool-calls" /\ m.prompt = turn /\ m.asks = FALSE
    BY DEF Say, Message, Messages, Ends, now, Types
  <2>t. /\ t \in [status : {"none", "running", "completed"}, approval : {"none", "pending", "granted"}]
        /\ t.status = "running"
        /\ t.approval = "pending" <=> asks
    BY DEF Tool
  <2>to. /\ to \in {"asking", "tool"}
         /\ to = "asking" <=> asks
    OBVIOUS
  <2>1. Write(to, [tail |-> m, usage |-> "completed", tool |-> t])
    BY <2>0 DEF CallTool
  <2> HIDE DEF m, t, to
  <2>2. /\ Wrote(to)
        /\ store' = With(m, store.user, "completed", t,
                         store.end, store.record, store.path, store.lines)
    BY <2>1, WriteSets DEF Given
  <2>3. store' \in Stores
    BY <2>2, <2>m, <2>t, <2>to, StoreTypes, WithTypes
  <2>4. turn' = turn /\ turns' = turns /\ turns > 0
    BY <2>0 DEF CallTool, Types, Busy
  <2>5. Types'
    BY <2>2, <2>3, <2>4, <2>m, <2>t, <2>to, WriteTypes DEF Phases, Busy
  <2> QED
    BY <2>0, <2>2, <2>4, <2>5, <2>m, <2>t, <2>to
    DEF CallTool, ZCodeStore, With, Wrote, Busy, Types, Open, PendingApproval
<1>4. CASE Allow
  <2> DEFINE t == Tool("running", "granted")
  <2>t. /\ t \in [status : {"none", "running", "completed"}, approval : {"none", "pending", "granted"}]
        /\ t.approval = "granted"
    BY DEF Tool
  <2>1. Write("tool", [tool |-> t])
    BY <1>4 DEF Allow
  <2> HIDE DEF t
  <2>2. /\ Wrote("tool")
        /\ store' = With(store.tail, store.user, store.usage, t,
                         store.end, store.record, store.path, store.lines)
    BY <2>1, WriteSets DEF Given
  <2>3. store' \in Stores
    BY <2>2, <2>t, StoreTypes, WithTypes
  <2>4. turn' = turn /\ turns' = turns /\ turns > 0
    BY <1>4 DEF Allow, Types, Busy
  <2>5. Types'
    BY <2>2, <2>3, <2>4, <2>t, WriteTypes DEF Phases, Busy
  <2> QED
    BY <1>4, <2>2, <2>4, <2>5, <2>t
    DEF Allow, ZCodeStore, With, Wrote, Busy, Types, Open, PendingApproval
<1>5. CASE ToolEnds
  <2> DEFINE m == Say("user", 0, "", FALSE)
            t == Tool("completed", store.tool.approval)
  <2>m. /\ m \in Messages /\ m.role = "user" /\ m.at = clock + 1 /\ m.done = 0
        /\ m.finish = "" /\ m.prompt = turn /\ m.asks = FALSE
    BY DEF Say, Message, Messages, Ends, now, Types
  <2>t. /\ t \in [status : {"none", "running", "completed"}, approval : {"none", "pending", "granted"}]
        /\ t.status = "completed"
    BY StoreTypes DEF Tool
  <2>1. Write("thinking", [tail |-> m, tool |-> t])
    BY <1>5 DEF ToolEnds
  <2> HIDE DEF m, t
  <2>2. /\ Wrote("thinking")
        /\ store' = With(m, store.user, store.usage, t,
                         store.end, store.record, store.path, store.lines)
    BY <2>1, WriteSets DEF Given
  <2>3. store' \in Stores
    BY <2>2, <2>m, <2>t, StoreTypes, WithTypes
  <2>4. turn' = turn /\ turns' = turns /\ turns > 0
    BY <1>5 DEF ToolEnds, Types, Busy
  <2>5. Types'
    BY <2>2, <2>3, <2>4, <2>m, <2>t, WriteTypes DEF Phases, Busy
  <2> QED
    BY <1>5, <2>2, <2>4, <2>5, <2>m, <2>t
    DEF ToolEnds, ZCodeStore, With, Wrote, Busy, Types, Open, PendingApproval
<1>6. CASE Finish
  <2> DEFINE m == Say("assistant", now, "stop", FALSE)
  <2>m. /\ m \in Messages /\ m.role = "assistant" /\ m.at = clock + 1 /\ m.done = clock + 1
        /\ m.finish = "stop" /\ m.prompt = turn /\ m.asks = FALSE
    BY DEF Say, Message, Messages, Ends, now, Types
  <2>1. Write("done", [tail |-> m, usage |-> "completed"])
    BY <1>6 DEF Finish
  <2> HIDE DEF m
  <2>2. /\ Wrote("done")
        /\ store' = With(m, store.user, "completed", store.tool,
                         store.end, store.record, store.path, store.lines)
    BY <2>1, WriteSets DEF Given
  <2>3. store' \in Stores
    BY <2>2, <2>m, StoreTypes, WithTypes
  <2>4. turn' = turn /\ turns' = turns /\ turns > 0
    BY <1>6 DEF Finish, Types, Busy
  <2>5. Types'
    BY <2>2, <2>3, <2>4, <2>m, WriteTypes DEF Phases, Busy
  <2> QED
    BY <1>6, <2>2, <2>4, <2>5, <2>m
    DEF Finish, ZCodeStore, With, Wrote, Busy, Types, Open, PendingApproval
<1>7. CASE Fail
  <2> DEFINE m == Say("assistant", now, "error", FALSE)
  <2>m. /\ m \in Messages /\ m.role = "assistant" /\ m.at = clock + 1 /\ m.done = clock + 1
        /\ m.finish = "error" /\ m.prompt = turn /\ m.asks = FALSE
    BY DEF Say, Message, Messages, Ends, now, Types
  <2>1. Write("failed", [tail |-> m, usage |-> "error"])
    BY <1>7 DEF Fail
  <2> HIDE DEF m
  <2>2. /\ Wrote("failed")
        /\ store' = With(m, store.user, "error", store.tool,
                         store.end, store.record, store.path, store.lines)
    BY <2>1, WriteSets DEF Given
  <2>3. store' \in Stores
    BY <2>2, <2>m, StoreTypes, WithTypes
  <2>4. turn' = turn /\ turns' = turns /\ turns > 0
    BY <1>7 DEF Fail, Types, Busy
  <2>5. Types'
    BY <2>2, <2>3, <2>4, <2>m, WriteTypes DEF Phases, Busy
  <2> QED
    BY <1>7, <2>2, <2>4, <2>5, <2>m
    DEF Fail, ZCodeStore, With, Wrote, Busy, Types, Open, PendingApproval
<1>8. CASE Abort
  <2>1. Write("aborted", [usage |-> "cancelled"])
    BY <1>8 DEF Abort
  <2>2. /\ Wrote("aborted")
        /\ store' = With(store.tail, store.user, "cancelled", store.tool,
                         store.end, store.record, store.path, store.lines)
    BY <2>1, WriteSets DEF Given
  <2>3. store' \in Stores
    BY <2>2, StoreTypes, WithTypes
  <2>4. turn' = turn /\ turns' = turns /\ turns > 0
    BY <1>8 DEF Abort, Types, Busy
  <2>5. Types'
    BY <2>2, <2>3, <2>4, WriteTypes DEF Phases, Busy
  <2> QED
    BY <1>8, <2>2, <2>4, <2>5
    DEF Abort, ZCodeStore, With, Wrote, Busy, Types, Open, PendingApproval
<1>9. CASE Exit
  <2>1. /\ store' = [store EXCEPT !.record.process = "none"] /\ desktop' = FALSE
        /\ phase' = IF phase \in Busy THEN "dead" ELSE phase
        /\ UNCHANGED <<agent, turn, turns, clock, age, reading>>
    BY <1>9 DEF Exit, codex
  <2>2. store' \in Stores
    BY <2>1, ProcessTypes
  <2>3. Types'
    BY <2>1, <2>2 DEF Types, Phases, Busy
  <2> QED
    BY <2>1, <2>3 DEF ZCodeStore, Open, PendingApproval, Busy, Types, Stores
<1> QED
  BY <1>1, <1>2, <1>3, <1>4, <1>5, <1>6, <1>7, <1>8, <1>9
  DEF Application, EndLate, MoveRollout, BeginLine, FetchListing, FetchDetails, Fetch, Reuse

(* Whatever ZCode leaves on disk, its reader tells of the turn.            *)
LEMMA ZCodeTells ==
    ASSUME Types, agent = "zcode", ZCodeStore(store, phase, turn)
    PROVE  Tells(ZCodeCard(store, age)) /\ StartsIn(ZCodeCard(store, age))
<1> DEFINE state == ZCodeState(store, age)
           started == IF state = "queued" THEN 0 ELSE TurnStart(store)
<1>1. /\ ZCodeCard(store, age).state = state
      /\ ZCodeCard(store, age).started = started
  BY DEF ZCodeCard, Card
<1>2. state =
          IF PendingApproval(store) THEN "waiting"
          ELSE IF Open(store.tail) /\ age < Window THEN "running"
          ELSE IF Open(store.tail) THEN "paused"
          ELSE CASE store.usage = "completed" -> "completed"
                 [] store.usage = "error" -> "error"
                 [] OTHER -> "queued"
  <2>1. /\ UsageState["none"] = "queued" /\ UsageState["error"] = "error"
        /\ UsageState["cancelled"] = "queued" /\ UsageState["completed"] = "completed"
    BY DEF UsageState
  <2>2. store.usage \in {"none", "completed", "error", "cancelled"}
    BY StoreTypes
  <2> QED
    BY <2>1, <2>2 DEF ZCodeState
<1>3. state # "queued" => TurnStart(store) >= turn
  <2>1. phase # "idle" => TurnStart(store) >= turn
    BY DEF TurnStart, ZCodeStore, Types, Phases, Busy
  <2>2. phase = "idle" => state = "queued"
    BY <1>2 DEF ZCodeStore, Open, Busy
  <2> QED
    BY <2>1, <2>2
<1>4. /\ state = "completed" => phase = "done"
      /\ phase = "done" => state = "completed"
      /\ phase \in Busy /\ age < Window => state \in Active
      /\ phase = "asking" => state = "waiting"
      /\ state = "waiting" => phase \in {"asking", "dead"}
  <2> HIDE DEF state
  <2> QED
    BY <1>2 DEF ZCodeStore, Types, Phases, Busy, Active
<1> HIDE DEF state
<1>5. Seen = phase /\ SeenTurn = turn
  BY DEF Seen, SeenTurn
<1>6. Tells(ZCodeCard(store, age))
  BY <1>1, <1>4, <1>5 DEF Tells, Fresh
<1> QED
  BY <1>1, <1>3, <1>5, <1>6 DEF StartsIn

-----------------------------------------------------------------------------
(* Hermes, and a remote backend of it.                                     *)

(* What a response of the backend replaces.                                *)
LEMMA FetchSets ==
    ASSUME Types, NEW x
    PROVE  /\ Fetch([listing |-> x]) => store' = [store EXCEPT !.listing = x]
           /\ Fetch([details |-> x]) => store' = [store EXCEPT !.details = x]
<1>1. DOMAIN store = {"tail", "user", "usage", "tool", "end", "listing", "details",
                      "record", "path", "lines", "torn"}
  BY DEF Types, Stores
<1>2. store = [f \in DOMAIN store |-> store[f]]
  BY DEF Types, Stores
<1>3. ASSUME Fetch([listing |-> x])
      PROVE  store' = [store EXCEPT !.listing = x]
  BY <1>1, <1>2, <1>3 DEF Fetch, Stored
<1>4. ASSUME Fetch([details |-> x])
      PROVE  store' = [store EXCEPT !.details = x]
  BY <1>1, <1>2, <1>4 DEF Fetch, Stored
<1> QED
  BY <1>3, <1>4

(* A write leaves the cache as it is.                                      *)
LEMMA CacheKept ==
    ASSUME Types, NEW to, Wrote(to), RemoteCache(store, turn, clock),
           store'.listing = store.listing, store'.details = store.details,
           store'.tail.at <= clock + 1, turn' \in {turn, clock + 1}
    PROVE  RemoteCache(store', turn', clock')
<1>1. /\ store.listing \in Listings /\ store.details.tail.at \in Nat
      /\ store.details.user \in Nat
  BY DEF Types, Stores, Messages
<1>2. store.listing.turn \in Nat
  BY <1>1 DEF Listings
<1>3. clock' = clock + 1
  BY DEF Wrote
<1>4. turn \in Nat /\ clock \in Nat /\ turn <= clock
  BY DEF Types
<1> QED
  BY <1>1, <1>2, <1>3, <1>4 DEF RemoteCache

LEMMA HermesWrites ==
    ASSUME Types, agent \in {"hermes", "remote"}, HermesStore(store, phase, turn),
           agent = "remote" => RemoteCache(store, turn, clock),
           Application
    PROVE  /\ Types' /\ HermesStore(store', phase', turn')
           /\ agent = "remote" => RemoteCache(store', turn', clock')
<1> USE DEF SameTurn, Answering
<1>t. agent = "remote" => store.tail.at <= clock + 1
  <2>1. agent = "remote" => store.tail.at <= clock
    BY DEF RemoteCache
  <2>2. store.tail.at \in Nat
    BY StoreTypes DEF Messages
  <2> QED
    BY <2>1, <2>2 DEF Types
<1>c. clock + 1 <= clock + 1
  BY DEF Types
<1>1. CASE Prompt
  <2> DEFINE m == Say("user", 0, "", FALSE)
  <2>m. /\ m \in Messages /\ m.role = "user" /\ m.at = clock + 1 /\ m.done = 0
        /\ m.finish = "" /\ m.prompt = turn /\ m.asks = FALSE
    BY DEF Say, Message, Messages, Ends, now, Types
  <2>1. Write("thinking", [tail |-> m, user |-> now])
    BY <1>1 DEF Prompt
  <2> HIDE DEF m
  <2>2. /\ Wrote("thinking")
        /\ store' = With(m, now, store.usage, store.tool,
                         store.end, store.record, store.path, store.lines)
    BY <2>1, WriteSets DEF Given
  <2>3. store' \in Stores
    BY <2>2, <2>m, StoreTypes, WithTypes
  <2>4. turn' = clock + 1 /\ turns' = turns + 1
    BY <1>1 DEF Prompt, now
  <2>5. Types'
    BY <2>2, <2>3, <2>4, <2>m, WriteTypes DEF Phases, Busy
  <2>6. HermesStore(store', phase', turn')
    BY <1>1, <2>2, <2>4, <2>5, <2>m
    DEF Prompt, HermesStore, With, Wrote, Busy, Types, Stores, Messages, now
  <2>7. agent = "remote" => RemoteCache(store', turn', clock')
    BY <1>t, <1>c, <2>2, <2>4, <2>m, CacheKept DEF With
  <2> QED
    BY <2>5, <2>6, <2>7
<1>2. CASE \E asks \in BOOLEAN : CallTool(asks)
  <2>0. PICK asks \in BOOLEAN : CallTool(asks)
    BY <1>2
  <2> DEFINE m == Say("assistant", now, "tool_calls", asks)
            to == IF asks THEN "asking" ELSE "tool"
  <2>m. /\ m \in Messages /\ m.role = "assistant" /\ m.at = clock + 1 /\ m.done = clock + 1
        /\ m.finish = "tool_calls" /\ m.prompt = turn /\ m.asks = asks
    BY DEF Say, Message, Messages, Ends, now, Types
  <2>to. /\ to \in {"asking", "tool"}
         /\ to = "asking" <=> asks
    OBVIOUS
  <2>1. Write(to, [tail |-> m])
    BY <2>0 DEF CallTool
  <2> HIDE DEF m, to
  <2>2. /\ Wrote(to)
        /\ store' = With(m, store.user, store.usage, store.tool,
                         store.end, store.record, store.path, store.lines)
    BY <2>1, WriteSets DEF Given
  <2>3. store' \in Stores
    BY <2>2, <2>m, <2>to, StoreTypes, WithTypes
  <2>4. turn' = turn /\ turns' = turns /\ turns > 0
    BY <2>0 DEF CallTool, Types, Busy
  <2>5. Types'
    BY <2>2, <2>3, <2>4, <2>m, <2>to, WriteTypes DEF Phases, Busy
  <2>6. HermesStore(store', phase', turn')
    BY <2>0, <2>2, <2>4, <2>5, <2>m, <2>to
    DEF CallTool, HermesStore, With, Wrote, Busy, Types, Stores, Messages
  <2>7. agent = "remote" => RemoteCache(store', turn', clock')
    BY <1>t, <1>c, <2>2, <2>4, <2>m, CacheKept DEF With
  <2> QED
    BY <2>5, <2>6, <2>7
<1>3. CASE Allow
  <2> DEFINE m == [store.tail EXCEPT !.asks = FALSE]
  <2>m. /\ m \in Messages /\ m.role = store.tail.role /\ m.finish = store.tail.finish
        /\ m.at = store.tail.at /\ m.asks = FALSE
    BY StoreTypes DEF Messages
  <2>1. Write("tool", [tail |-> m])
    BY <1>3 DEF Allow
  <2> HIDE DEF m
  <2>2. /\ Wrote("tool")
        /\ store' = With(m, store.user, store.usage, store.tool,
                         store.end, store.record, store.path, store.lines)
    BY <2>1, WriteSets DEF Given
  <2>3. store' \in Stores
    BY <2>2, <2>m, StoreTypes, WithTypes
  <2>4. turn' = turn /\ turns' = turns /\ turns > 0
    BY <1>3 DEF Allow, Types, Busy
  <2>5. Types'
    BY <2>2, <2>3, <2>4, <2>m, WriteTypes DEF Phases, Busy
  <2>6. HermesStore(store', phase', turn')
    BY <1>3, <2>2, <2>4, <2>5, <2>m
    DEF Allow, HermesStore, With, Wrote, Busy, Types, Stores, Messages
  <2>7. agent = "remote" => RemoteCache(store', turn', clock')
    BY <1>t, <1>c, <2>2, <2>4, <2>m, CacheKept DEF With
  <2> QED
    BY <2>5, <2>6, <2>7
<1>4. CASE ToolEnds
  <2> DEFINE m == Say("tool", now, "", FALSE)
  <2>m. /\ m \in Messages /\ m.role = "tool" /\ m.at = clock + 1 /\ m.done = clock + 1
        /\ m.finish = "" /\ m.prompt = turn /\ m.asks = FALSE
    BY DEF Say, Message, Messages, Ends, now, Types
  <2>1. Write("thinking", [tail |-> m])
    BY <1>4 DEF ToolEnds
  <2> HIDE DEF m
  <2>2. /\ Wrote("thinking")
        /\ store' = With(m, store.user, store.usage, store.tool,
                         store.end, store.record, store.path, store.lines)
    BY <2>1, WriteSets DEF Given
  <2>3. store' \in Stores
    BY <2>2, <2>m, StoreTypes, WithTypes
  <2>4. turn' = turn /\ turns' = turns /\ turns > 0
    BY <1>4 DEF ToolEnds, Types, Busy
  <2>5. Types'
    BY <2>2, <2>3, <2>4, <2>m, WriteTypes DEF Phases, Busy
  <2>6. HermesStore(store', phase', turn')
    BY <1>4, <2>2, <2>4, <2>5, <2>m
    DEF ToolEnds, HermesStore, With, Wrote, Busy, Types, Stores, Messages
  <2>7. agent = "remote" => RemoteCache(store', turn', clock')
    BY <1>t, <1>c, <2>2, <2>4, <2>m, CacheKept DEF With
  <2> QED
    BY <2>5, <2>6, <2>7
<1>5. CASE Finish
  <2> DEFINE m == Say("assistant", now, "stop", FALSE)
  <2>m. /\ m \in Messages /\ m.role = "assistant" /\ m.at = clock + 1 /\ m.done = clock + 1
        /\ m.finish = "stop" /\ m.prompt = turn /\ m.asks = FALSE
    BY DEF Say, Message, Messages, Ends, now, Types
  <2>1. Write("done", [tail |-> m])
    BY <1>5 DEF Finish
  <2> HIDE DEF m
  <2>2. /\ Wrote("done")
        /\ store' = With(m, store.user, store.usage, store.tool,
                         store.end, store.record, store.path, store.lines)
    BY <2>1, WriteSets DEF Given
  <2>3. store' \in Stores
    BY <2>2, <2>m, StoreTypes, WithTypes
  <2>4. turn' = turn /\ turns' = turns /\ turns > 0
    BY <1>5 DEF Finish, Types, Busy
  <2>5. Types'
    BY <2>2, <2>3, <2>4, <2>m, WriteTypes DEF Phases, Busy
  <2>6. HermesStore(store', phase', turn')
    BY <1>5, <2>2, <2>4, <2>5, <2>m
    DEF Finish, HermesStore, With, Wrote, Busy, Types, Stores, Messages
  <2>7. agent = "remote" => RemoteCache(store', turn', clock')
    BY <1>t, <1>c, <2>2, <2>4, <2>m, CacheKept DEF With
  <2> QED
    BY <2>5, <2>6, <2>7
<1>6. CASE Fail
  <2> DEFINE r == [reason |-> "error", at |-> now]
  <2>r. r \in Reasons /\ r.reason = "error"
    BY StoreTypes DEF Reasons
  <2>1. Write("failed", [end |-> r])
    BY <1>6 DEF Fail
  <2> HIDE DEF r
  <2>2. /\ Wrote("failed")
        /\ store' = With(store.tail, store.user, store.usage, store.tool,
                         r, store.record, store.path, store.lines)
    BY <2>1, WriteSets DEF Given
  <2>3. store' \in Stores
    BY <2>2, <2>r, StoreTypes, WithTypes
  <2>4. turn' = turn /\ turns' = turns /\ turns > 0
    BY <1>6 DEF Fail, Types, Busy
  <2>5. Types'
    BY <2>2, <2>3, <2>4, WriteTypes DEF Phases, Busy
  <2>6. HermesStore(store', phase', turn')
    BY <1>6, <2>2, <2>4, <2>5, <2>r
    DEF Fail, HermesStore, With, Wrote, Busy, Types, Stores, Messages
  <2>7. agent = "remote" => RemoteCache(store', turn', clock')
    BY <1>t, <1>c, <2>2, <2>4, CacheKept DEF With
  <2> QED
    BY <2>5, <2>6, <2>7
<1>7. CASE Abort
  <2> DEFINE r == [reason |-> "", at |-> now]
  <2>r. r \in Reasons /\ r.reason = ""
    BY StoreTypes DEF Reasons
  <2>1. Write("aborted", [end |-> r])
    BY <1>7 DEF Abort
  <2> HIDE DEF r
  <2>2. /\ Wrote("aborted")
        /\ store' = With(store.tail, store.user, store.usage, store.tool,
                         r, store.record, store.path, store.lines)
    BY <2>1, WriteSets DEF Given
  <2>3. store' \in Stores
    BY <2>2, <2>r, StoreTypes, WithTypes
  <2>4. turn' = turn /\ turns' = turns /\ turns > 0
    BY <1>7 DEF Abort, Types, Busy
  <2>5. Types'
    BY <2>2, <2>3, <2>4, <2>r, WriteTypes DEF Phases, Busy
  <2>6. HermesStore(store', phase', turn')
    BY <1>7, <2>2, <2>4, <2>5, <2>r
    DEF Abort, HermesStore, With, Wrote, Busy, Types, Stores, Messages
  <2>7. agent = "remote" => RemoteCache(store', turn', clock')
    BY <1>t, <1>c, <2>2, <2>4, <2>r, CacheKept DEF With
  <2> QED
    BY <2>5, <2>6, <2>7
<1>8. CASE Exit
  <2>1. /\ store' = [store EXCEPT !.record.process = "none"] /\ desktop' = FALSE
        /\ phase' = IF phase \in Busy THEN "dead" ELSE phase
        /\ UNCHANGED <<agent, turn, turns, clock, age, reading>>
    BY <1>8 DEF Exit, codex
  <2>2. store' \in Stores
    BY <2>1, ProcessTypes
  <2>3. Types'
    BY <2>1, <2>2 DEF Types, Phases, Busy
  <2> QED
    BY <2>1, <2>3 DEF HermesStore, RemoteCache, Busy, Types, Stores
<1>9. CASE FetchListing
  <2> DEFINE l == [known |-> TRUE, phase |-> phase, turn |-> turn,
                   active |-> phase \in Busy, asks |-> store.tail.asks,
                   reason |-> store.end.reason, activity |-> store.tail.at]
  <2>1. /\ Fetch([listing |-> l]) /\ desktop
        /\ UNCHANGED <<agent, phase, turn, turns, clock, age, desktop, reading>>
    BY <1>9 DEF FetchListing, Fetch, codex, gate
  <2>2. /\ l \in Listings
        /\ l.phase = phase /\ l.turn = turn /\ l.asks = store.tail.asks
        /\ l.reason = store.end.reason /\ l.activity = store.tail.at
        /\ l.active <=> phase \in Busy
    <3>1. /\ store.tail.asks \in BOOLEAN /\ store.tail.at \in Nat /\ store.end.reason \in {"", "error"}
          /\ phase \in Phases /\ turn \in Nat
      BY StoreTypes DEF Messages, Types, Reasons
    <3>2. /\ l.phase = phase /\ l.turn = turn /\ l.asks = store.tail.asks
          /\ l.reason = store.end.reason /\ l.activity = store.tail.at
      OBVIOUS
    <3>3. l.active <=> phase \in Busy
      OBVIOUS
    <3>4. (phase \in Busy) \in BOOLEAN
      OBVIOUS
    <3>5. l \in Listings
      BY <3>1, <3>4 DEF Listings
    <3> QED
      BY <3>2, <3>3, <3>5
  <2> HIDE DEF l
  <2>3. store' = [store EXCEPT !.listing = l]
    BY <2>1, FetchSets
  <2>4. store' \in Stores
    BY <2>2, <2>3 DEF Types, Stores
  <2>5. Types'
    BY <2>1, <2>4 DEF Types
  <2>6. phase # "dead"
    BY <2>1 DEF Types
  <2>7. store'.listing = l /\ store'.tail = store.tail /\ store'.user = store.user
        /\ store'.end = store.end /\ store'.details = store.details
    BY <2>3 DEF Types, Stores
  <2>8. HermesStore(store', phase', turn')
    BY <2>1, <2>7 DEF HermesStore
  <2>9. agent = "remote" => RemoteCache(store', turn', clock')
    <3>1. ASSUME agent = "remote"
          PROVE  RemoteCache(store, turn, clock)
      BY <3>1
    <3>2. /\ l.asks <=> l.phase = "asking"
          /\ l.reason = "error" <=> l.phase = "failed"
      <4>1. store.tail.asks <=> phase = "asking"
        BY <2>6 DEF HermesStore
      <4>2. store.end.reason = "error" <=> phase = "failed"
        BY DEF HermesStore
      <4>3. l.asks <=> store.tail.asks
        BY <2>2
      <4>4. l.phase = phase /\ l.reason = store.end.reason
        BY <2>2
      <4> QED
        BY <4>1, <4>2, <4>3, <4>4
    <3>3. l.turn <= l.activity /\ l.turn <= turn
      <4>1. turn \in Nat /\ store.tail.at >= turn /\ store.tail.at \in Nat
        BY StoreTypes DEF HermesStore, Types, Messages
      <4>2. l.turn = turn /\ l.activity = store.tail.at
        BY <2>2
      <4> QED
        BY <4>1, <4>2
    <3> QED
      BY <2>1, <2>2, <2>6, <2>7, <3>1, <3>2, <3>3 DEF RemoteCache
  <2> QED
    BY <2>5, <2>8, <2>9
<1>10. CASE FetchDetails
  <2> DEFINE d == [tail |-> store.tail, user |-> store.user]
  <2>1. Fetch([details |-> d]) /\ UNCHANGED <<agent, phase, turn, turns, clock, age, desktop, reading>>
    BY <1>10 DEF FetchDetails, Fetch, codex, gate
  <2>2. d \in [tail : Messages, user : Nat] /\ d.tail = store.tail /\ d.user = store.user
    BY StoreTypes
  <2> HIDE DEF d
  <2>3. store' = [store EXCEPT !.details = d]
    BY <2>1, FetchSets
  <2>4. store' \in Stores
    BY <2>2, <2>3 DEF Types, Stores
  <2>5. Types'
    BY <2>1, <2>4 DEF Types
  <2>6. store'.details = d /\ store'.tail = store.tail /\ store'.user = store.user
        /\ store'.end = store.end /\ store'.listing = store.listing
    BY <2>3 DEF Types, Stores
  <2>7. HermesStore(store', phase', turn')
    BY <2>1, <2>6 DEF HermesStore
  <2>8. agent = "remote" => RemoteCache(store', turn', clock')
    <3>1. ASSUME agent = "remote"
          PROVE  RemoteCache(store, turn, clock)
      BY <3>1
    <3>2. d.user >= turn /\ (agent = "remote" => d.user >= store.listing.turn)
      <4>1. store.listing.turn \in Nat
        BY DEF Types, Stores, Listings
      <4>2. turn \in Nat /\ store.user = turn
        BY DEF Types, HermesStore
      <4>3. agent = "remote" => store.listing.turn <= turn
        BY <3>1 DEF RemoteCache
      <4> QED
        BY <2>2, <4>1, <4>2, <4>3
    <3> QED
      BY <2>1, <2>2, <2>6, <3>1, <3>2 DEF RemoteCache
  <2> QED
    BY <2>5, <2>7, <2>8
<1> QED
  BY <1>1, <1>2, <1>3, <1>4, <1>5, <1>6, <1>7, <1>8, <1>9, <1>10
  DEF Application, Stream, EndLate, MoveRollout, BeginLine, Reuse

(* The database of Hermes.                                                 *)
LEMMA HermesTells ==
    ASSUME Types, agent = "hermes", HermesStore(store, phase, turn)
    PROVE  Tells(HermesCard(store, age)) /\ StartsIn(HermesCard(store, age))
<1> DEFINE c == HermesCard(store, age)
<1>1. Seen = phase /\ SeenTurn = turn /\ store.user = turn /\ turn \in Nat /\ age \in Nat
  BY DEF Seen, SeenTurn, HermesStore, Types
<1>2. age < Window => age <= Window
  BY <1>1 DEF Window
<1>3. /\ c.state = "completed" => phase = "done"
      /\ phase = "done" => c.state = "completed"
      /\ phase \in Busy /\ age < Window => c.state \in Active
      /\ phase = "asking" /\ age < Window => c.state = "waiting"
      /\ c.state = "waiting" => phase \in {"asking", "dead"}
  BY <1>2 DEF HermesCard, Card, HermesStore, Ended, Active, Busy, Types, Phases
<1>4. c.started \in {0, turn}
  BY <1>1 DEF HermesCard, Card
<1> HIDE DEF c
<1>5. Tells(c)
  BY <1>1, <1>3 DEF Tells, Fresh
<1>6. StartsIn(c)
  BY <1>1, <1>4 DEF StartsIn
<1> QED
  BY <1>5, <1>6 DEF c

(* The cached responses of a remote one.                                   *)
LEMMA RemoteTells ==
    ASSUME Types, agent = "remote", RemoteCache(store, turn, clock), store.listing.known
    PROVE  LET c == CachedCard(store.listing, store.details)
           IN  Tells(c) /\ StartsIn(c)
<1> DEFINE l == store.listing
           d == store.details
           c == CachedCard(l, d)
<1>1. /\ l \in Listings /\ l.turn \in Nat /\ l.activity \in Nat /\ l.phase \in Phases
      /\ d.tail.at \in Nat /\ d.user \in Nat
  <2>1. store.listing \in Listings /\ store.details \in [tail : Messages, user : Nat]
    BY DEF Types, Stores
  <2> QED
    BY <2>1 DEF Listings, Messages
<1>2. Seen = l.phase /\ SeenTurn = l.turn
  BY DEF Seen, SeenTurn
<1>3. c.state = CachedState(l)
  BY DEF CachedCard, Card
<1>4. c.started = IF Covers(l, d) THEN d.user ELSE 0
  BY DEF CachedCard, Card
<1>5. Covers(l, d) => d.user >= l.turn
  <2>1. l.turn <= l.activity /\ (d.tail.at >= l.turn => d.user >= l.turn)
    BY DEF RemoteCache
  <2>2. Covers(l, d) => d.tail.at >= l.activity
    BY DEF Covers
  <2> QED
    BY <1>1, <2>1, <2>2
<1>6. /\ CachedState(l) = "completed" => l.phase \in {"done", "aborted", "idle"}
      /\ l.phase = "done" => CachedState(l) = "completed"
      /\ l.phase \in Busy => CachedState(l) \in Active
      /\ l.phase = "asking" => CachedState(l) = "waiting"
      /\ CachedState(l) = "waiting" => l.phase = "asking"
  BY <1>1 DEF RemoteCache, CachedState, Active, Busy, Phases, Listings
<1> HIDE DEF c, l, d
<1>7. Tells(c)
  BY <1>2, <1>3, <1>6 DEF Tells, Fresh
<1>8. StartsIn(c)
  BY <1>2, <1>4, <1>5 DEF StartsIn
<1> QED
  BY <1>7, <1>8 DEF c, l, d

-----------------------------------------------------------------------------
(* Claude Code.                                                            *)

(* The record a change of status leaves.                                   *)
LEMMA RecordTypes ==
    ASSUME Types, NEW st \in {"idle", "busy", "permission", "error"}
    PROVE  LET r == [store.record EXCEPT !.status = st, !.changed = now,
                                         !.later = (turns > 0)]
           IN  /\ r \in Records /\ r.status = st /\ r.changed = clock + 1
               /\ r.later <=> turns > 0
               /\ r.process = store.record.process
<1> DEFINE later == turns > 0
           r == [store.record EXCEPT !.status = st, !.changed = now, !.later = later]
<1>1. later \in BOOLEAN /\ now \in Nat /\ now = clock + 1
  BY DEF Types, now
<1>2. store.record \in Records
  BY StoreTypes
<1>3. r.status = st /\ r.changed = now /\ r.process = store.record.process
  BY <1>2 DEF Records
<1>4. r.later = later
  BY <1>2 DEF Records
<1>5. later <=> turns > 0
  OBVIOUS
<1> HIDE DEF later
<1>6. r \in Records
  BY <1>1, <1>2 DEF Records
<1>7. r.later <=> turns > 0
  BY <1>4, <1>5
<1> QED
  BY <1>1, <1>3, <1>6, <1>7 DEF later

LEMMA WithRecord ==
    ASSUME Types, NEW r \in Records
    PROVE  With(store.tail, store.user, store.usage, store.tool, store.end, r,
                store.path, store.lines) \in Stores
BY DEF Types, Stores, With

LEMMA ClaudeWrites ==
    ASSUME Types, agent = "claude", ClaudeStore(store, phase, turn), Application
    PROVE  Types' /\ ClaudeStore(store', phase', turn')
<1> USE DEF SameTurn, Answering
<1>c. clock + 1 >= turn /\ clock + 1 \in Nat /\ turns \in Nat
  BY DEF Types
<1>1. CASE Prompt
  <2> DEFINE r == [store.record EXCEPT !.status = "busy", !.changed = now,
                                !.later = (turns > 0)]
  <2>r. /\ r \in Records /\ r.status = "busy" /\ r.changed = clock + 1
        /\ r.later <=> turns > 0
        /\ r.process = store.record.process
    BY RecordTypes
  <2>1. Write("thinking", [record |-> r])
    BY <1>1 DEF Prompt, Record
  <2> HIDE DEF r
  <2>2. /\ Wrote("thinking")
        /\ store' = With(store.tail, store.user, store.usage, store.tool,
                         store.end, r, store.path, store.lines)
    BY <2>1, WriteSets DEF Given
  <2>3. store' \in Stores
    BY <2>2, <2>r, WithRecord
  <2>4. turn' = clock + 1 /\ turns' = turns + 1
    BY <1>1 DEF Prompt, now
  <2>5. Types'
    BY <2>2, <2>3, <2>4, <2>r, WriteTypes DEF Phases, Busy
  <2> QED
    BY <1>c, <2>2, <2>4, <2>5, <2>r
    DEF ClaudeStore, With, Wrote, Busy, Types
<1>2. CASE \E asks \in BOOLEAN : CallTool(asks)
  <2>0. PICK asks \in BOOLEAN : CallTool(asks)
    BY <1>2
  <2> DEFINE to == IF asks THEN "asking" ELSE "tool"
            st == IF asks THEN "permission" ELSE "busy"
            r == [store.record EXCEPT !.status = st, !.changed = now,
                                !.later = (turns > 0)]
  <2>to. /\ to \in {"asking", "tool"}
         /\ to = "asking" <=> asks
    OBVIOUS
  <2>st. /\ st \in {"permission", "busy"}
         /\ st = "permission" <=> asks
    OBVIOUS
  <2>r. /\ r \in Records /\ r.status = st /\ r.changed = clock + 1
        /\ r.later <=> turns > 0
        /\ r.process = store.record.process
    BY <2>st, RecordTypes
  <2>1. Write(to, [record |-> r])
    BY <2>0 DEF CallTool, Record
  <2> HIDE DEF to, st, r
  <2>2. /\ Wrote(to)
        /\ store' = With(store.tail, store.user, store.usage, store.tool,
                         store.end, r, store.path, store.lines)
    BY <2>1, WriteSets DEF Given
  <2>3. store' \in Stores
    BY <2>2, <2>to, <2>st, <2>r, StoreTypes, WithTypes
  <2>4. turn' = turn /\ turns' = turns /\ turns > 0
    BY <2>0 DEF CallTool, Types, Busy
  <2>5. Types'
    BY <2>2, <2>3, <2>4, <2>to, <2>st, <2>r, WriteTypes DEF Phases, Busy
  <2> QED
    BY <1>c, <2>2, <2>4, <2>5, <2>to, <2>st, <2>r
    DEF ClaudeStore, With, Wrote, Busy, Types
<1>3. CASE Allow
  <2> DEFINE r == [store.record EXCEPT !.status = "busy", !.changed = now,
                                !.later = (turns > 0)]
  <2>r. /\ r \in Records /\ r.status = "busy" /\ r.changed = clock + 1
        /\ r.later <=> turns > 0
        /\ r.process = store.record.process
    BY RecordTypes
  <2>1. Write("tool", [record |-> r])
    BY <1>3 DEF Allow, Record
  <2> HIDE DEF r
  <2>2. /\ Wrote("tool")
        /\ store' = With(store.tail, store.user, store.usage, store.tool,
                         store.end, r, store.path, store.lines)
    BY <2>1, WriteSets DEF Given
  <2>3. store' \in Stores
    BY <2>2, <2>r, WithRecord
  <2>4. turn' = turn /\ turns' = turns /\ turns > 0
    BY <1>3 DEF Allow, Types, Busy
  <2>5. Types'
    BY <2>2, <2>3, <2>4, <2>r, WriteTypes DEF Phases, Busy
  <2> QED
    BY <1>c, <2>2, <2>4, <2>5, <2>r
    DEF ClaudeStore, With, Wrote, Busy, Types
<1>4. CASE ToolEnds
  <2> DEFINE r == [store.record EXCEPT !.status = "busy", !.changed = now,
                                !.later = (turns > 0)]
  <2>r. /\ r \in Records /\ r.status = "busy" /\ r.changed = clock + 1
        /\ r.later <=> turns > 0
        /\ r.process = store.record.process
    BY RecordTypes
  <2>1. Write("thinking", [record |-> r])
    BY <1>4 DEF ToolEnds, Record
  <2> HIDE DEF r
  <2>2. /\ Wrote("thinking")
        /\ store' = With(store.tail, store.user, store.usage, store.tool,
                         store.end, r, store.path, store.lines)
    BY <2>1, WriteSets DEF Given
  <2>3. store' \in Stores
    BY <2>2, <2>r, WithRecord
  <2>4. turn' = turn /\ turns' = turns /\ turns > 0
    BY <1>4 DEF ToolEnds, Types, Busy
  <2>5. Types'
    BY <2>2, <2>3, <2>4, <2>r, WriteTypes DEF Phases, Busy
  <2> QED
    BY <1>c, <2>2, <2>4, <2>5, <2>r
    DEF ClaudeStore, With, Wrote, Busy, Types
<1>5. CASE Finish
  <2> DEFINE r == [store.record EXCEPT !.status = "idle", !.changed = now,
                                !.later = (turns > 0)]
  <2>r. /\ r \in Records /\ r.status = "idle" /\ r.changed = clock + 1
        /\ r.later <=> turns > 0
        /\ r.process = store.record.process
    BY RecordTypes
  <2>1. Write("done", [record |-> r])
    BY <1>5 DEF Finish, Record
  <2> HIDE DEF r
  <2>2. /\ Wrote("done")
        /\ store' = With(store.tail, store.user, store.usage, store.tool,
                         store.end, r, store.path, store.lines)
    BY <2>1, WriteSets DEF Given
  <2>3. store' \in Stores
    BY <2>2, <2>r, WithRecord
  <2>4. turn' = turn /\ turns' = turns /\ turns > 0
    BY <1>5 DEF Finish, Types, Busy
  <2>5. Types'
    BY <2>2, <2>3, <2>4, <2>r, WriteTypes DEF Phases, Busy
  <2> QED
    BY <1>c, <2>2, <2>4, <2>5, <2>r
    DEF ClaudeStore, With, Wrote, Busy, Types
<1>6. CASE Fail
  <2> DEFINE r == [store.record EXCEPT !.status = "error", !.changed = now,
                                !.later = (turns > 0)]
  <2>r. /\ r \in Records /\ r.status = "error" /\ r.changed = clock + 1
        /\ r.later <=> turns > 0
        /\ r.process = store.record.process
    BY RecordTypes
  <2>1. Write("failed", [record |-> r])
    BY <1>6 DEF Fail, Record
  <2> HIDE DEF r
  <2>2. /\ Wrote("failed")
        /\ store' = With(store.tail, store.user, store.usage, store.tool,
                         store.end, r, store.path, store.lines)
    BY <2>1, WriteSets DEF Given
  <2>3. store' \in Stores
    BY <2>2, <2>r, WithRecord
  <2>4. turn' = turn /\ turns' = turns /\ turns > 0
    BY <1>6 DEF Fail, Types, Busy
  <2>5. Types'
    BY <2>2, <2>3, <2>4, <2>r, WriteTypes DEF Phases, Busy
  <2> QED
    BY <1>c, <2>2, <2>4, <2>5, <2>r
    DEF ClaudeStore, With, Wrote, Busy, Types
<1>7. CASE Abort
  <2> DEFINE r == [store.record EXCEPT !.status = "idle", !.changed = now,
                                !.later = (turns > 0)]
  <2>r. /\ r \in Records /\ r.status = "idle" /\ r.changed = clock + 1
        /\ r.later <=> turns > 0
        /\ r.process = store.record.process
    BY RecordTypes
  <2>1. Write("aborted", [record |-> r])
    BY <1>7 DEF Abort, Record
  <2> HIDE DEF r
  <2>2. /\ Wrote("aborted")
        /\ store' = With(store.tail, store.user, store.usage, store.tool,
                         store.end, r, store.path, store.lines)
    BY <2>1, WriteSets DEF Given
  <2>3. store' \in Stores
    BY <2>2, <2>r, WithRecord
  <2>4. turn' = turn /\ turns' = turns /\ turns > 0
    BY <1>7 DEF Abort, Types, Busy
  <2>5. Types'
    BY <2>2, <2>3, <2>4, <2>r, WriteTypes DEF Phases, Busy
  <2> QED
    BY <1>c, <2>2, <2>4, <2>5, <2>r
    DEF ClaudeStore, With, Wrote, Busy, Types
<1>8. CASE Exit
  <2>1. /\ store' = [store EXCEPT !.record.process = "none"] /\ desktop' = FALSE
        /\ phase' = IF phase \in Busy THEN "dead" ELSE phase
        /\ UNCHANGED <<agent, turn, turns, clock, age, reading>>
    BY <1>8 DEF Exit, codex
  <2>2. store' \in Stores
    BY <2>1, ProcessTypes
  <2>3. Types'
    BY <2>1, <2>2 DEF Types, Phases, Busy
  <2>4. /\ store'.record.process = "none" /\ store'.record.status = store.record.status
        /\ store'.record.changed = store.record.changed
        /\ store'.record.later = store.record.later
    BY <2>1 DEF Types, Stores, Records
  <2> QED
    BY <2>1, <2>3, <2>4 DEF ClaudeStore, Busy
<1>9. CASE Reuse
  <2>1. /\ store' = [store EXCEPT !.record.process = "other"]
        /\ UNCHANGED <<agent, phase, turn, turns, clock, age, reading, desktop>>
    BY <1>9 DEF Reuse, codex, gate
  <2>2. store' \in Stores
    BY <2>1, ProcessTypes
  <2>3. Types'
    BY <2>1, <2>2 DEF Types
  <2>4. /\ store'.record.process = "other" /\ store'.record.status = store.record.status
        /\ store'.record.changed = store.record.changed
        /\ store'.record.later = store.record.later
    BY <2>1 DEF Types, Stores, Records
  <2> QED
    BY <2>1, <2>3, <2>4 DEF ClaudeStore
<1> QED
  BY <1>1, <1>2, <1>3, <1>4, <1>5, <1>6, <1>7, <1>8, <1>9
  DEF Application, Stream, EndLate, MoveRollout, BeginLine, FetchListing, FetchDetails, Fetch

(* The record of a live process.                                           *)
LEMMA ClaudeTells ==
    ASSUME Types, agent = "claude", ClaudeStore(store, phase, turn), NEW c \in ClaudeCards(store.record)
    PROVE  Tells(c) /\ StartsIn(c)
<1> DEFINE state == ClaudeState(store.record)
<1>1. store.record.process = "own" /\ c = ClaudeCard(store.record)
  BY DEF ClaudeCards, Alive
<1>2. c.state = state /\ c.started = IF state \in Active THEN store.record.changed ELSE 0
  BY <1>1 DEF ClaudeCard, Card
<1>3. /\ state = "completed" => phase \in {"done", "aborted", "idle"}
      /\ phase = "done" => state = "completed"
      /\ phase \in Busy => state \in Active
      /\ phase = "asking" => state = "waiting"
      /\ state = "waiting" => phase = "asking"
  BY <1>1 DEF ClaudeStore, ClaudeState, Types, Phases, Busy, Active
<1>4. Seen = phase /\ SeenTurn = turn /\ store.record.changed >= turn
  BY DEF Seen, SeenTurn, ClaudeStore
<1> HIDE DEF state
<1>5. Tells(c)
  BY <1>2, <1>3, <1>4 DEF Tells, Fresh
<1> QED
  BY <1>2, <1>4, <1>5 DEF StartsIn

-----------------------------------------------------------------------------
(* Codex.                                                                  *)

LEMMA NewCursorTypes ==
    ASSUME NEW path \in Nat
    PROVE  /\ NewCursor(path) \in Cursors
           /\ NewCursor(path).lifecycle = NoLifecycle
           /\ NewCursor(path).verified = FALSE /\ NewCursor(path).path = path
           /\ NewCursor(path).offset = 0
<1>1. NoLifecycle \in Lifecycles
  BY DEF NoLifecycle, Lifecycles
<1> QED
  BY <1>1 DEF NewCursor, Cursors

LEMMA LifecycleTypes ==
    ASSUME NEW l \in Lifecycles, NEW e \in Lines, e.kind # "session"
    PROVE  LifecycleEvent(l, e) \in Lifecycles
<1>1. /\ e.of \in Nat
      /\ e.kind \in {"started", "completed", "paused", "asked", "answered", "other"}
  BY DEF Lines
<1>2. /\ l.asked \cup {e.of} \in SUBSET Nat
      /\ l.asked \ {e.of} \in SUBSET Nat
  BY <1>1 DEF Lifecycles
<1>3. CASE e.kind = "started"
  BY <1>1, <1>3 DEF LifecycleEvent, Lifecycles
<1>4. CASE e.kind \in {"completed", "paused"}
  BY <1>1, <1>4 DEF LifecycleEvent, Lifecycles
<1>5. CASE e.kind = "asked"
  BY <1>2, <1>5 DEF LifecycleEvent, Lifecycles
<1>6. CASE e.kind = "answered"
  BY <1>2, <1>6 DEF LifecycleEvent, Lifecycles
<1>7. CASE e.kind = "other"
  BY <1>7 DEF LifecycleEvent
<1> QED
  BY <1>1, <1>3, <1>4, <1>5, <1>6, <1>7

LEMMA ReadLineTypes ==
    ASSUME NEW c \in Cursors, NEW e \in Lines
    PROVE  ReadLine(c, 1, e) \in Cursors
<1> DEFINE v == IF e.kind = "session" THEN e.of = 1 ELSE c.verified
           l == IF e.kind = "session"
                THEN IF e.of = 1 THEN c.lifecycle ELSE NoLifecycle
                ELSE IF c.verified THEN LifecycleEvent(c.lifecycle, e) ELSE c.lifecycle
<1>1. c.lifecycle \in Lifecycles /\ c.offset \in Nat /\ c.verified \in BOOLEAN
  BY DEF Cursors
<1>2. v \in BOOLEAN
  BY <1>1
<1>3. l \in Lifecycles
  BY <1>1, LifecycleTypes DEF NoLifecycle, Lifecycles
<1>4. c.offset + 1 \in Nat
  BY <1>1
<1>5. ReadLine(c, 1, e) = [c EXCEPT !.offset = c.offset + 1, !.verified = v, !.lifecycle = l]
  BY DEF ReadLine
<1> HIDE DEF v, l
<1> QED
  BY <1>2, <1>3, <1>4, <1>5 DEF Cursors

(* A line appended to the rollout adds a cursor to what reading it goes    *)
(* through, and leaves the others as they were.                            *)
LEMMA HistoryGrows ==
    ASSUME NEW path \in Nat, NEW lines \in Seq(Lines), NEW e \in Lines,
           NEW h \in Seq(Cursors), Reads(h, path, lines)
    PROVE  LET g == Append(h, ReadLine(h[Len(h)], 1, e))
           IN  /\ g \in Seq(Cursors) /\ Reads(g, path, Append(lines, e))
               /\ Len(g) = Len(h) + 1 /\ g[Len(g)] = ReadLine(h[Len(h)], 1, e)
               /\ \A k \in 1 .. Len(h) : g[k] = h[k]
<1> DEFINE c == ReadLine(h[Len(h)], 1, e)
           g == Append(h, c)
           more == Append(lines, e)
<1>1. Len(h) = Len(lines) + 1 /\ Len(lines) \in Nat
  BY DEF Reads
<1>2. h[Len(h)] \in Cursors
  BY <1>1
<1>3. c \in Cursors
  BY <1>2, ReadLineTypes
<1> HIDE DEF c
<1>4. /\ g \in Seq(Cursors) /\ Len(g) = Len(h) + 1 /\ g[Len(g)] = c
      /\ \A k \in 1 .. Len(h) : g[k] = h[k]
  BY <1>3
<1>5. /\ Len(more) = Len(lines) + 1 /\ more[Len(lines) + 1] = e
      /\ \A k \in 1 .. Len(lines) : more[k] = lines[k]
  OBVIOUS
<1> HIDE DEF g, more
<1>6. g[1] = NewCursor(path)
  BY <1>1, <1>4 DEF Reads
<1>7. ASSUME NEW k \in 1 .. Len(more)
      PROVE  g[k + 1] = ReadLine(g[k], 1, more[k])
  <2>1. CASE k = Len(more)
    <3>1. k = Len(h) /\ k + 1 = Len(g) /\ more[k] = e /\ g[k] = h[k]
      BY <1>1, <1>4, <1>5, <2>1
    <3> QED
      BY <1>4, <3>1 DEF c
  <2>2. CASE k # Len(more)
    <3>1. /\ k \in 1 .. Len(lines) /\ k + 1 \in 1 .. Len(h) /\ k \in 1 .. Len(h)
      BY <1>1, <1>5, <2>2
    <3> QED
      BY <1>4, <1>5, <3>1 DEF Reads
  <2> QED
    BY <2>1, <2>2
<1>8. Reads(g, path, more)
  BY <1>1, <1>4, <1>5, <1>6, <1>7 DEF Reads
<1> QED
  BY <1>4, <1>8 DEF c, g, more

(* What a rollout that has grown leaves of the history.                    *)
LEMMA HistoryKept ==
    ASSUME Types, agent = "codex", NEW h \in Seq(Cursors), CodexHistory(h),
           cursor \in Cursors, UNCHANGED codex,
           store'.path = store.path, store'.lines # <<>>,
           NEW g \in Seq(Cursors), Reads(g, store'.path, store'.lines),
           Len(h) <= Len(g), \A k \in 1 .. Len(h) : g[k] = h[k],
           CodexEnd(g[Len(g)].lifecycle, phase', turn', abandoned'),
           g[Len(g)].verified = TRUE
    PROVE  CodexHistory(g)'
<1>1. Len(h) = Len(store.lines) + 1 /\ Len(g) = Len(store'.lines) + 1
  BY DEF CodexHistory, Reads
<1>2. Len(store.lines) \in Nat /\ Len(store'.lines) \in Nat
  <2>1. Len(h) \in Nat /\ Len(g) \in Nat
    OBVIOUS
  <2>2. store.lines \in Seq(Lines)
    BY StoreTypes
  <2>3. Len(store.lines) \in Nat
    BY <2>2
  <2> QED
    BY <1>1, <2>1, <2>3
<1>3. cursor.offset \in Nat
  BY DEF Cursors
<1>4. cursor'.path = store'.path =>
          cursor'.offset <= Len(store'.lines) /\ cursor' = g[cursor'.offset + 1]
  <2>1. SUFFICES ASSUME cursor.path = store.path
                 PROVE  cursor.offset <= Len(store'.lines) /\ cursor = g[cursor.offset + 1]
    BY DEF codex
  <2>2. cursor.offset <= Len(store.lines) /\ cursor = h[cursor.offset + 1]
    BY <2>1 DEF CodexHistory
  <2>3. cursor.offset <= Len(store'.lines) /\ cursor.offset + 1 \in 1 .. Len(h)
    BY <1>1, <1>2, <1>3, <2>2
  <2> QED
    BY <2>2, <2>3
<1>5. cursor'.path <= store'.path /\ (reading' => cursor'.path = store'.path)
  BY DEF CodexHistory, codex
<1> QED
  BY <1>4, <1>5 DEF CodexHistory

(* A line that is written to a rollout moves its end by one event.         *)
LEMMA CodexLine ==
    ASSUME Types, agent = "codex", cursor \in Cursors,
           NEW h \in Seq(Cursors), CodexHistory(h), store.lines # <<>>,
           NEW to \in Phases \ {"dead"}, NEW e \in Lines, e.kind # "session",
           Write(to, [lines |-> Append(store.lines, e)]),
           \/ turn' = clock + 1 /\ turns' = turns + 1
           \/ turn' = turn /\ turns' = turns /\ (to = "idle" \/ turns > 0),
           CodexEnd(LifecycleEvent(h[Len(h)].lifecycle, e), to, turn', abandoned')
    PROVE  Types' /\ \E g \in Seq(Cursors) : CodexHistory(g)'
<1> DEFINE more == Append(store.lines, e)
           g == Append(h, ReadLine(h[Len(h)], 1, e))
<1>1. /\ store.lines \in Seq(Lines) /\ store.path \in Nat
      /\ more \in Seq(Lines) /\ more # <<>>
  <2>1. store.lines \in Seq(Lines) /\ store.path \in {1, 2}
    BY StoreTypes
  <2> QED
    BY <2>1
<1>2. Reads(h, store.path, store.lines)
  BY DEF CodexHistory
<1>3. /\ g \in Seq(Cursors) /\ Reads(g, store.path, more)
      /\ Len(g) = Len(h) + 1 /\ g[Len(g)] = ReadLine(h[Len(h)], 1, e)
      /\ \A k \in 1 .. Len(h) : g[k] = h[k]
  BY <1>1, <1>2, HistoryGrows
<1>4. Write(to, [lines |-> more])
  OBVIOUS
<1>5. h[Len(h)] \in Cursors /\ h[Len(h)].verified = TRUE
  <2>1. Len(h) = Len(store.lines) + 1 /\ Len(store.lines) \in Nat
    BY <1>1, <1>2 DEF Reads
  <2>2. h[Len(h)] \in Cursors
    BY <2>1
  <2> QED
    BY <2>2 DEF CodexHistory
<1>6. /\ ReadLine(h[Len(h)], 1, e).verified = TRUE
      /\ ReadLine(h[Len(h)], 1, e).lifecycle = LifecycleEvent(h[Len(h)].lifecycle, e)
  BY <1>5 DEF ReadLine, Cursors
<1> HIDE DEF more, g
<1>7. /\ Wrote(to)
      /\ store' = With(store.tail, store.user, store.usage, store.tool, store.end,
                       store.record, store.path, more)
  BY <1>4, WriteSets DEF Given
<1>8. store' \in Stores
  BY <1>1, <1>7, StoreTypes, WithTypes
<1>9. Types'
  BY <1>7, <1>8, WriteTypes
<1>10. /\ store'.path = store.path /\ store'.lines = more /\ phase' = to
       /\ UNCHANGED codex
  BY <1>7 DEF With, Wrote
<1>11. Len(h) <= Len(g)
  BY <1>3
<1>12. CodexHistory(g)'
  BY <1>1, <1>3, <1>6, <1>10, <1>11, HistoryKept
<1> QED
  BY <1>3, <1>9, <1>12

(* The first line of a rollout says whose it is, and tells nothing.        *)
LEMMA FirstLine ==
    ASSUME NEW path \in Nat
    PROVE  LET e == [kind |-> "session", of |-> 1]
               g == <<NewCursor(path), ReadLine(NewCursor(path), 1, e)>>
           IN  /\ e \in Lines /\ g \in Seq(Cursors) /\ Reads(g, path, <<e>>)
               /\ Len(g) = 2 /\ g[1] = NewCursor(path)
               /\ g[2].lifecycle = NoLifecycle /\ g[2].verified = TRUE
<1> DEFINE e == [kind |-> "session", of |-> 1]
           c == ReadLine(NewCursor(path), 1, e)
           g == <<NewCursor(path), c>>
<1>1. e \in Lines
  BY DEF Lines
<1>2. NewCursor(path) \in Cursors /\ NewCursor(path).lifecycle = NoLifecycle
  BY NewCursorTypes
<1>3. c \in Cursors
  BY <1>1, <1>2, ReadLineTypes
<1>4. c.lifecycle = NoLifecycle /\ c.verified = TRUE
  BY <1>2 DEF ReadLine, Cursors
<1>5. \A k \in 1 .. Len(<<e>>) : k = 1
  OBVIOUS
<1>6. g[2] = ReadLine(g[1], 1, <<e>>[1]) /\ g[1] = NewCursor(path)
  OBVIOUS
<1>7. Reads(g, path, <<e>>)
  BY <1>5, <1>6 DEF Reads
<1> HIDE DEF c
<1>8. g \in Seq(Cursors) /\ Len(g) = 2 /\ g[2] = c
  BY <1>2, <1>3
<1> QED
  BY <1>1, <1>4, <1>6, <1>7, <1>8 DEF c

(* So does the first turn of a rollout, with its prompt.                   *)
LEMMA FirstTurn ==
    ASSUME NEW path \in Nat, NEW e \in Lines, e.kind = "started"
    PROVE  \E g \in Seq(Cursors) :
               /\ Reads(g, path, Append(<<[kind |-> "session", of |-> 1]>>, e))
               /\ Len(g) = 3 /\ g[1] = NewCursor(path) /\ g[3].verified = TRUE
               /\ g[3].lifecycle = LifecycleEvent(NoLifecycle, e)
<1> DEFINE s == [kind |-> "session", of |-> 1]
           f == <<NewCursor(path), ReadLine(NewCursor(path), 1, s)>>
           c == ReadLine(f[Len(f)], 1, e)
           g == Append(f, c)
<1>1. /\ s \in Lines /\ f \in Seq(Cursors) /\ Reads(f, path, <<s>>)
      /\ Len(f) = 2 /\ f[1] = NewCursor(path)
      /\ f[2].lifecycle = NoLifecycle /\ f[2].verified = TRUE
  BY FirstLine
<1> HIDE DEF f
<1>2. <<s>> \in Seq(Lines)
  BY <1>1
<1> HIDE DEF s
<1>3. Reads(g, path, Append(<<s>>, e))
  BY <1>1, <1>2, HistoryGrows
<1>s. f \in Seq(Cursors) /\ Len(f) = 2 /\ f[1] = NewCursor(path)
  BY <1>1
<1>4. f[2] \in Cursors
  BY <1>s
<1>5. c \in Cursors
  BY <1>1, <1>4, ReadLineTypes
<1>6. c.verified = TRUE /\ c.lifecycle = LifecycleEvent(NoLifecycle, e)
  BY <1>1, <1>4 DEF ReadLine, Cursors
<1> HIDE DEF c
<1>7. g \in Seq(Cursors) /\ Len(g) = 3 /\ g[3] = c /\ g[1] = NewCursor(path)
  <2>1. /\ g \in Seq(Cursors) /\ Len(g) = Len(f) + 1 /\ g[Len(f) + 1] = c
        /\ \A k \in 1 .. Len(f) : g[k] = f[k]
    <3>1. f \in Seq(Cursors) /\ c \in Cursors
      BY <1>s, <1>5
    <3> QED
      BY <3>1, AppendProperties
  <2> HIDE DEF g
  <2> QED
    BY <1>s, <2>1
<1> HIDE DEF g
<1> QED
  BY <1>3, <1>6, <1>7 DEF s

(* Whatever Codex writes, reading its rollout to the end tells the phase.  *)
LEMMA CodexWrites ==
    ASSUME Types, agent = "codex", cursor \in Cursors,
           NEW h \in Seq(Cursors), CodexHistory(h), Application
    PROVE  Types' /\ \E g \in Seq(Cursors) : CodexHistory(g)'
<1> USE DEF SameTurn, Answering
<1> DEFINE l == h[Len(h)].lifecycle
<1>h. /\ store.lines \in Seq(Lines) /\ store.path \in {1, 2} /\ Len(store.lines) \in Nat
      /\ Reads(h, store.path, store.lines) /\ Len(h) = Len(store.lines) + 1
  <2>1. store.lines \in Seq(Lines) /\ store.path \in {1, 2}
    BY StoreTypes
  <2>2. Len(store.lines) \in Nat
    BY <2>1
  <2>3. Reads(h, store.path, store.lines)
    BY DEF CodexHistory
  <2> QED
    BY <2>1, <2>2, <2>3 DEF Reads
<1>p. store.path \in Nat
  BY <1>h
<1>l. /\ l \in Lifecycles /\ CodexEnd(l, phase, turn, abandoned)
      /\ turn \in Nat /\ turns \in Nat /\ clock + 1 \in Nat /\ clock \in Nat
      /\ turns > 0 => turn > 0
      /\ turns > 1 => turn > 1
      /\ turn <= clock
  <2>1. h[Len(h)] \in Cursors
    BY <1>h
  <2> QED
    BY <2>1 DEF Cursors, CodexHistory, Types
<1> HIDE DEF l
<1>a. /\ \A x \in abandoned : x \in Nat /\ x <= turn
      /\ clock + 1 \notin abandoned
  BY <1>l DEF CodexEnd
<1>1. CASE Prompt /\ store.lines # <<>>
  <2> DEFINE e == [kind |-> "started", of |-> now]
  <2>1. e \in Lines /\ e.kind = "started" /\ e.of = clock + 1
    BY <1>l DEF Lines, now
  <2>2. store.lines \o <<e>> = Append(store.lines, e)
    BY <1>h, <2>1
  <2>3. Write("thinking", [lines |-> store.lines \o <<e>>])
    BY <1>1 DEF Prompt
  <2>4. /\ turn' = clock + 1 /\ turns' = turns + 1 /\ abandoned' = abandoned
        /\ phase \in {"idle", "done", "failed", "aborted"}
    BY <1>1 DEF Prompt, now
  <2> HIDE DEF e
  <2>5. Write("thinking", [lines |-> Append(store.lines, e)])
    BY <2>2, <2>3
  <2>6. CodexEnd(LifecycleEvent(l, e), "thinking", turn', abandoned')
    <3> DEFINE n == LifecycleEvent(l, e)
    <3>1. n.state = "running" /\ n.turn = clock + 1 /\ n.asked = l.asked
      BY <1>l, <2>1 DEF LifecycleEvent, Lifecycles
    <3>2. l.asked = abandoned
      BY <1>l, <2>4 DEF CodexEnd
    <3> HIDE DEF n
    <3>3. \A x \in abandoned : x \in Nat /\ x <= clock + 1
      BY <1>l, <1>a
    <3> QED
      BY <1>a, <2>4, <3>1, <3>2, <3>3 DEF CodexEnd, n
  <2>7. "thinking" \in Phases \ {"dead"}
    BY DEF Phases, Busy
  <2>8. e.kind # "session"
    BY <2>1
  <2> QED
    BY <1>1, <2>1, <2>4, <2>5, <2>6, <2>7, <2>8, CodexLine DEF l
<1>2. CASE Prompt /\ store.lines = <<>>
  <2> DEFINE s == [kind |-> "session", of |-> 1]
             e == [kind |-> "started", of |-> now]
             both == <<s>> \o <<e>>
  <2>1. e \in Lines /\ e.kind = "started" /\ e.of = clock + 1 /\ s \in Lines
    BY <1>l DEF Lines, now
  <2>2. both = Append(<<s>>, e) /\ both \in Seq(Lines) /\ both # <<>>
    <3> HIDE DEF s, e
    <3> QED
      BY <2>1
  <2>3. Write("thinking", [lines |-> both])
    BY <1>2 DEF Prompt
  <2>4. turn' = clock + 1 /\ turns' = turns + 1 /\ abandoned' = abandoned
    BY <1>2 DEF Prompt, now
  <2>a. abandoned = {}
    <3>1. h[Len(h)] = NewCursor(store.path)
      BY <1>h, <1>2 DEF Reads
    <3>2. l = NoLifecycle /\ phase \notin {"asking", "dead"}
      BY <1>p, <1>2, <3>1, NewCursorTypes DEF l, CodexHistory, Prompt
    <3> QED
      BY <1>l, <3>2 DEF CodexEnd, NoLifecycle
  <2> HIDE DEF e
  <2>5. PICK g \in Seq(Cursors) :
            /\ Reads(g, store.path, Append(<<s>>, e))
            /\ Len(g) = 3 /\ g[1] = NewCursor(store.path) /\ g[3].verified = TRUE
            /\ g[3].lifecycle = LifecycleEvent(NoLifecycle, e)
    BY <1>p, <2>1, FirstTurn
  <2> HIDE DEF s, both
  <2>6. CodexEnd(LifecycleEvent(NoLifecycle, e), "thinking", turn', abandoned')
    BY <2>1, <2>4, <2>a DEF CodexEnd, LifecycleEvent, NoLifecycle, Busy
  <2>7. /\ Wrote("thinking")
        /\ store' = With(store.tail, store.user, store.usage, store.tool, store.end,
                         store.record, store.path, both)
    BY <2>3, WriteSets DEF Given
  <2>8. store' \in Stores
    BY <2>2, <2>7, StoreTypes, WithTypes
  <2>9. Types'
    BY <2>4, <2>7, <2>8, WriteTypes DEF Phases, Busy
  <2>10. /\ store'.path = store.path /\ store'.lines = both /\ phase' = "thinking"
         /\ UNCHANGED codex
    BY <2>7 DEF With, Wrote
  <2>11. Len(h) = 1 /\ h[1] = NewCursor(store.path)
    BY <1>h, <1>2 DEF Reads
  <2>12. \A k \in 1 .. Len(h) : g[k] = h[k]
    <3>1. \A k \in 1 .. Len(h) : k = 1
      BY <2>11
    <3> QED
      BY <2>5, <2>11, <3>1
  <2>13. Reads(g, store'.path, store'.lines) /\ store'.lines # <<>>
    BY <2>2, <2>5, <2>10
  <2>14. CodexEnd(g[Len(g)].lifecycle, phase', turn', abandoned') /\ g[Len(g)].verified = TRUE
    BY <2>5, <2>6, <2>10
  <2>15. Len(h) <= Len(g)
    BY <2>5, <2>11
  <2>16. CodexHistory(g)'
    BY <2>10, <2>12, <2>13, <2>14, <2>15, HistoryKept
  <2> QED
    BY <2>9, <2>16
<1>3. CASE \E asks \in BOOLEAN : CallTool(asks)
  <2>0. PICK asks \in BOOLEAN : CallTool(asks)
    BY <1>3
  <2> DEFINE to == IF asks THEN "asking" ELSE "tool"
             e == [kind |-> IF asks THEN "asked" ELSE "other", of |-> IF asks THEN turn ELSE 0]
  <2>1. /\ e \in Lines /\ e.kind = (IF asks THEN "asked" ELSE "other")
        /\ e.of = (IF asks THEN turn ELSE 0)
    BY <1>l DEF Lines
  <2>2. Write(to, [lines |-> Append(store.lines, e)])
    <3>1. CASE asks = TRUE
      BY <2>0, <3>1 DEF CallTool, Line
    <3>2. CASE asks = FALSE
      BY <2>0, <3>2 DEF CallTool, Line
    <3> QED
      BY <3>1, <3>2
  <2>3. turn' = turn /\ turns' = turns /\ abandoned' = abandoned /\ phase = "thinking"
    BY <2>0 DEF CallTool
  <2> HIDE DEF e
  <2>4. store.lines # <<>> /\ turns > 0
    BY <2>3 DEF CodexHistory, Types
  <2>5. CodexEnd(LifecycleEvent(l, e), to, turn', abandoned')
    BY <1>l, <2>1, <2>3 DEF CodexEnd, LifecycleEvent, Lifecycles, Busy
  <2>6. to \in Phases \ {"dead"} /\ e.kind # "session"
    BY <2>1 DEF Phases, Busy
  <2> HIDE DEF to
  <2> QED
    BY <2>1, <2>2, <2>3, <2>4, <2>5, <2>6, CodexLine DEF l
<1>4. CASE ToolEnds
  <2> DEFINE e == [kind |-> (IF phase = "asking" THEN "answered" ELSE "other"), of |-> turn]
  <2>1. e \in Lines /\ e.kind = (IF phase = "asking" THEN "answered" ELSE "other") /\ e.of = turn
    BY <1>l DEF Lines
  <2>2. /\ Write("thinking", [lines |-> Append(store.lines, e)])
        /\ turn' = turn /\ turns' = turns /\ abandoned' = abandoned
        /\ phase \in {"tool", "asking"}
    BY <1>4 DEF ToolEnds, Line
  <2> HIDE DEF e
  <2>3. store.lines # <<>> /\ turns > 0
    BY <2>2 DEF CodexHistory, Types, Busy
  <2>4. CodexEnd(LifecycleEvent(l, e), "thinking", turn', abandoned')
    BY <1>l, <2>1, <2>2 DEF CodexEnd, LifecycleEvent, Lifecycles, Stale, Busy
  <2>5. "thinking" \in Phases \ {"dead"}
    BY DEF Phases, Busy
  <2>6. e.kind # "session"
    BY <2>1
  <2> QED
    BY <2>1, <2>2, <2>3, <2>4, <2>5, <2>6, CodexLine DEF l
<1>5. CASE Finish
  <2> DEFINE e == [kind |-> "completed", of |-> turn]
  <2>1. e \in Lines /\ e.kind = "completed" /\ e.of = turn
    BY <1>l DEF Lines
  <2>2. /\ Write("done", [lines |-> Append(store.lines, e)])
        /\ turn' = turn /\ turns' = turns /\ abandoned' = abandoned /\ phase = "thinking"
    BY <1>5 DEF Finish, Line
  <2> HIDE DEF e
  <2>3. store.lines # <<>> /\ turns > 0
    BY <2>2 DEF CodexHistory, Types, Busy
  <2>4. CodexEnd(LifecycleEvent(l, e), "done", turn', abandoned')
    BY <1>l, <2>1, <2>2 DEF CodexEnd, LifecycleEvent, Lifecycles, Stale, Busy
  <2>5. "done" \in Phases \ {"dead"}
    BY DEF Phases, Busy
  <2>6. e.kind # "session"
    BY <2>1
  <2> QED
    BY <2>1, <2>2, <2>3, <2>4, <2>5, <2>6, CodexLine DEF l
<1>6. CASE Abort
  <2> DEFINE e == [kind |-> "paused", of |-> turn]
  <2>1. e \in Lines /\ e.kind = "paused" /\ e.of = turn
    BY <1>l DEF Lines
  <2>2. /\ Write("aborted", [lines |-> Append(store.lines, e)])
        /\ turn' = turn /\ turns' = turns /\ phase \in Busy
        /\ abandoned' = IF phase = "asking" THEN abandoned \cup {turn} ELSE abandoned
    BY <1>6 DEF Abort, Line, Busy
  <2> HIDE DEF e
  <2>3. store.lines # <<>> /\ turns > 0
    BY <2>2 DEF CodexHistory, Types, Busy
  <2>4. CodexEnd(LifecycleEvent(l, e), "aborted", turn', abandoned')
    BY <1>l, <2>1, <2>2 DEF CodexEnd, LifecycleEvent, Lifecycles, Stale, Busy
  <2>5. "aborted" \in Phases \ {"dead"}
    BY DEF Phases, Busy
  <2>6. e.kind # "session"
    BY <2>1
  <2> QED
    BY <2>1, <2>2, <2>3, <2>4, <2>5, <2>6, CodexLine DEF l
<1>7. CASE EndLate
  <2> DEFINE e == [kind |-> "paused", of |-> 1]
  <2>1. e \in Lines /\ e.kind = "paused" /\ e.of = 1
    BY <1>l DEF Lines
  <2>2. /\ Write(phase, [lines |-> Append(store.lines, e)])
        /\ turn' = turn /\ turns' = turns /\ abandoned' = abandoned
        /\ phase \in Busy /\ turns = 2
    BY <1>7 DEF EndLate, Line
  <2> HIDE DEF e
  <2>3. store.lines # <<>> /\ turns > 0
    BY <2>2 DEF CodexHistory, Types, Busy
  <2>4. CodexEnd(LifecycleEvent(l, e), phase, turn', abandoned')
    BY <1>l, <2>1, <2>2 DEF CodexEnd, LifecycleEvent, Lifecycles, Stale, Busy
  <2>5. phase \in Phases \ {"dead"}
    BY <2>2 DEF Phases, Busy
  <2>6. e.kind # "session"
    BY <2>1
  <2> QED
    BY <2>1, <2>2, <2>3, <2>4, <2>5, <2>6, CodexLine DEF l
<1>8. CASE MoveRollout
  <2> DEFINE s == [kind |-> "session", of |-> 1]
             g == <<NewCursor(2), ReadLine(NewCursor(2), 1, s)>>
             ls == <<s>>
  <2>1. /\ s \in Lines /\ g \in Seq(Cursors) /\ Reads(g, 2, ls)
        /\ Len(g) = 2 /\ g[2].lifecycle = NoLifecycle /\ g[2].verified = TRUE
    BY FirstLine
  <2>2. Write("idle", [path |-> 2, lines |-> ls])
    BY <1>8 DEF MoveRollout
  <2>3. store.path = 1 /\ ~reading /\ turn' = turn /\ turns' = turns /\ abandoned' = {}
    BY <1>8 DEF MoveRollout
  <2> HIDE DEF s, g
  <2>4. ls \in Seq(Lines) /\ ls # <<>>
    BY <2>1
  <2> HIDE DEF ls
  <2>5. /\ Wrote("idle")
        /\ store' = With(store.tail, store.user, store.usage, store.tool, store.end,
                         store.record, 2, ls)
    BY <2>2, WriteSets DEF Given
  <2>6. store' \in Stores
    BY <2>4, <2>5, StoreTypes, WithTypes
  <2>7. Types'
    BY <2>3, <2>5, <2>6, WriteTypes DEF Phases, Busy
  <2>8. /\ store'.path = 2 /\ store'.lines = ls /\ phase' = "idle" /\ cursor' = cursor
        /\ reading' = FALSE
    BY <2>3, <2>5 DEF With, Wrote, codex, Types
  <2>9. cursor'.path <= 1 /\ cursor'.path \in Nat
    BY <2>3, <2>8 DEF CodexHistory, Cursors
  <2>10. CodexEnd(NoLifecycle, "idle", turn', abandoned')
    BY <2>3 DEF CodexEnd, NoLifecycle, Busy
  <2>11. CodexHistory(g)'
    <3>1. CodexEnd(g[Len(g)].lifecycle, phase', turn', abandoned') /\ g[Len(g)].verified = TRUE
      BY <2>1, <2>8, <2>10
    <3>2. cursor'.path # store'.path /\ cursor'.path <= store'.path
      BY <2>8, <2>9
    <3> QED
      BY <2>1, <2>4, <2>8, <3>1, <3>2 DEF CodexHistory
  <2> QED
    BY <2>1, <2>7, <2>11
<1>9. CASE BeginLine
  <2>1. /\ store' = [store EXCEPT !.torn = TRUE]
        /\ UNCHANGED <<agent, phase, turn, turns, abandoned, clock, age, cursor, reading,
                       desktop>>
    BY <1>9 DEF BeginLine, codex, gate
  <2>2. /\ store' \in Stores /\ store'.path = store.path /\ store'.lines = store.lines
    BY <2>1 DEF Types, Stores
  <2>3. Types'
    BY <2>1, <2>2 DEF Types
  <2>4. CodexHistory(h)'
    BY <2>1, <2>2 DEF CodexHistory
  <2> QED
    BY <2>3, <2>4
<1>10. CASE Exit
  <2>1. /\ store' = [store EXCEPT !.record.process = "none"] /\ desktop' = FALSE
        /\ phase' = IF phase \in Busy THEN "dead" ELSE phase
        /\ UNCHANGED <<agent, turn, turns, abandoned, clock, age, cursor, reading>>
    BY <1>10 DEF Exit, codex
  <2>2. store' \in Stores
    BY <2>1, ProcessTypes
  <2>3. store'.path = store.path /\ store'.lines = store.lines
    BY <2>1 DEF Types, Stores
  <2>4. Types'
    BY <2>1, <2>2 DEF Types, Phases, Busy
  <2>5. CodexEnd(l, phase', turn', abandoned')
    BY <1>l, <2>1 DEF CodexEnd, Busy
  <2>6. phase' # "idle" => phase # "idle"
    BY <2>1 DEF Busy
  <2>7. CodexHistory(h)'
    BY <2>1, <2>3, <2>5, <2>6 DEF CodexHistory, l
  <2> QED
    BY <2>4, <2>7
<1> QED
  BY <1>1, <1>2, <1>3, <1>4, <1>5, <1>6, <1>7, <1>8, <1>9, <1>10
  DEF Application, Stream, Allow, Fail, FetchListing, FetchDetails, Fetch, Reuse

(* The daemon's cursor goes through the history of the rollout.            *)
LEMMA CodexReads ==
    ASSUME Types, cursor \in Cursors, NEW h \in Seq(Cursors), CodexHistory(h),
           OpenRollout \/ ReadRollout
    PROVE  cursor' \in Cursors /\ CodexHistory(h)'
<1>1. /\ store.lines \in Seq(Lines) /\ store.path \in Nat /\ Len(store.lines) \in Nat
      /\ Reads(h, store.path, store.lines) /\ Len(h) = Len(store.lines) + 1
  <2>1. store.lines \in Seq(Lines) /\ store.path \in {1, 2}
    BY StoreTypes
  <2>2. Len(store.lines) \in Nat
    BY <2>1
  <2>3. Reads(h, store.path, store.lines)
    BY DEF CodexHistory
  <2> QED
    BY <2>1, <2>2, <2>3 DEF Reads
<1>2. UNCHANGED <<agent, phase, turn, abandoned, store>>
  BY DEF OpenRollout, ReadRollout, app
<1>3. /\ cursor'.path = store.path /\ cursor' \in Cursors
      /\ cursor'.offset <= Len(store.lines) /\ cursor' = h[cursor'.offset + 1]
  <2>1. CASE OpenRollout
    <3>1. CASE cursor.path # store.path \/ Len(store.lines) < cursor.offset
      <4>1. cursor' = NewCursor(store.path)
        BY <2>1, <3>1 DEF OpenRollout, Resumed
      <4>2. h[1] = NewCursor(store.path)
        BY <1>1 DEF Reads
      <4>3. cursor' \in Cursors /\ cursor'.path = store.path /\ cursor'.offset = 0
        BY <1>1, <4>1, NewCursorTypes
      <4> QED
        BY <1>1, <4>1, <4>2, <4>3
    <3>2. CASE cursor.path = store.path /\ ~(Len(store.lines) < cursor.offset)
      <4>1. cursor' = cursor
        BY <2>1, <3>2 DEF OpenRollout, Resumed
      <4> QED
        BY <3>2, <4>1 DEF CodexHistory
    <3> QED
      BY <3>1, <3>2
  <2>2. CASE ReadRollout
    <3> DEFINE k == cursor.offset + 1
    <3>1. cursor.path = store.path /\ cursor = h[k] /\ cursor.offset < Len(store.lines)
      BY <2>2 DEF ReadRollout, CodexHistory
    <3>2. cursor.offset \in Nat /\ k \in 1 .. Len(store.lines)
      BY <1>1, <3>1 DEF Cursors
    <3>3. cursor' = ReadLine(cursor, 1, store.lines[k]) /\ store.lines[k] \in Lines
      BY <1>1, <2>2, <3>2 DEF ReadRollout
    <3>4. cursor' = h[k + 1]
      BY <1>1, <3>1, <3>2, <3>3 DEF Reads
    <3>5. cursor' \in Cursors
      BY <3>3, ReadLineTypes
    <3>6. cursor'.offset = k /\ cursor'.path = cursor.path
      BY <3>3 DEF ReadLine, Cursors
    <3> HIDE DEF k
    <3> QED
      BY <1>1, <3>1, <3>2, <3>4, <3>5, <3>6
  <2> QED
    BY <2>1, <2>2
<1>4. CodexHistory(h)'
  BY <1>1, <1>2, <1>3 DEF CodexHistory
<1> QED
  BY <1>3, <1>4

(* A rollout that has been read to its end tells of the turn.              *)
LEMMA CodexTells ==
    ASSUME Types, cursor \in Cursors, NEW h \in Seq(Cursors), CodexHistory(h),
           PublishRollout
    PROVE  Tells(CodexCard(cursor.lifecycle))
<1> DEFINE l == cursor.lifecycle
           c == CodexCard(l)
<1>1. agent = "codex" /\ cursor.path = store.path
  BY DEF PublishRollout, CodexHistory, Types
<1>2. cursor = h[Len(h)]
  <2>1. cursor.offset <= Len(store.lines) /\ cursor = h[cursor.offset + 1]
    BY <1>1 DEF CodexHistory
  <2>2. cursor.offset >= Len(store.lines) /\ cursor.offset \in Nat
    BY DEF PublishRollout, Cursors
  <2>3. store.lines \in Seq(Lines)
    BY StoreTypes
  <2>4. Len(store.lines) \in Nat
    BY <2>3
  <2>5. cursor.offset = Len(store.lines)
    BY <2>1, <2>2, <2>4
  <2>6. Len(h) = cursor.offset + 1
    BY <2>5 DEF CodexHistory, Reads
  <2> QED
    BY <2>1, <2>6
<1>3. CodexEnd(l, phase, turn, abandoned) /\ l \in Lifecycles
  BY <1>2 DEF CodexHistory, Cursors
<1>4. c.state = IF l.asked # {} THEN "waiting" ELSE l.state
  BY DEF CodexCard, Card
<1> HIDE DEF l, c
<1>5. /\ c.state = "completed" => phase = "done"
      /\ phase = "done" => c.state = "completed" \/ abandoned # {}
      /\ phase \in Busy => c.state \in Active
      /\ phase = "asking" => c.state = "waiting"
      /\ c.state = "waiting" => phase \in {"asking", "dead"} \/ abandoned # {}
  BY <1>3, <1>4 DEF CodexEnd, Busy, Active, Types, Phases
<1>6. Seen = phase
  BY <1>1 DEF Seen
<1>7. Tells(c)
  BY <1>1, <1>5, <1>6 DEF Tells, Fresh
<1> QED
  BY <1>7 DEF c, l

-----------------------------------------------------------------------------
(* Every application.                                                      *)

LEMMA ApplicationWrites ==
    ASSUME Inv, Application
    PROVE  Inv'
<1>1. Types /\ cursor \in Cursors
  BY DEF Inv
<1>2. UNCHANGED <<agent, cursor>>
  BY DEF Application, Prompt, Stream, CallTool, Allow, ToolEnds, Finish, Fail, Abort,
         EndLate, MoveRollout, BeginLine, FetchListing, FetchDetails, Fetch, Exit, Reuse,
         Write, codex
<1>3. CASE agent = "zcode"
  <2>1. ZCodeStore(store, phase, turn)
    BY <1>3 DEF Inv, AppInv
  <2>2. Types' /\ ZCodeStore(store', phase', turn')
    BY <1>1, <1>3, <2>1, ZCodeWrites
  <2> QED
    BY <1>1, <1>2, <1>3, <2>2 DEF Inv, AppInv
<1>4. CASE agent \in {"hermes", "remote"}
  <2>1. /\ HermesStore(store, phase, turn)
        /\ agent = "remote" => RemoteCache(store, turn, clock)
    BY <1>4 DEF Inv, AppInv
  <2>2. /\ Types' /\ HermesStore(store', phase', turn')
        /\ agent = "remote" => RemoteCache(store', turn', clock')
    BY <1>1, <1>4, <2>1, HermesWrites
  <2> QED
    BY <1>1, <1>2, <1>4, <2>2 DEF Inv, AppInv
<1>5. CASE agent = "claude"
  <2>1. ClaudeStore(store, phase, turn)
    BY <1>5 DEF Inv, AppInv
  <2>2. Types' /\ ClaudeStore(store', phase', turn')
    BY <1>1, <1>5, <2>1, ClaudeWrites
  <2> QED
    BY <1>1, <1>2, <1>5, <2>2 DEF Inv, AppInv
<1>6. CASE agent = "codex"
  <2>1. PICK h \in Seq(Cursors) : CodexHistory(h)
    BY <1>6 DEF Inv, AppInv
  <2>2. Types' /\ \E g \in Seq(Cursors) : CodexHistory(g)'
    BY <1>1, <1>6, <2>1, CodexWrites
  <2> QED
    BY <1>1, <1>2, <1>6, <2>2 DEF Inv, AppInv
<1> QED
  BY <1>1, <1>3, <1>4, <1>5, <1>6 DEF Types

(* Whatever leaves the stores and the cursor as they are.                  *)
LEMMA StoresKept ==
    ASSUME Inv, UNCHANGED <<agent, phase, turn, turns, abandoned, clock, store, cursor,
                            desktop>>,
           age' \in Nat, reading' = FALSE \/ reading' = reading
    PROVE  Inv'
<1>1. Types'
  <2>1. Types
    BY DEF Inv
  <2>2. reading' \in BOOLEAN /\ (reading' => reading)
    <3>1. CASE reading' = FALSE
      BY <3>1
    <3>2. CASE reading' = reading
      BY <2>1, <3>2 DEF Types
    <3> QED
      BY <3>1, <3>2
  <2> QED
    BY <2>1, <2>2 DEF Types
<1>2. ASSUME agent = "codex"
      PROVE  \E h \in Seq(Cursors) : CodexHistory(h)'
  <2>1. PICK h \in Seq(Cursors) : CodexHistory(h)
    BY <1>2 DEF Inv, AppInv
  <2>2. CodexHistory(h)'
    BY <2>1 DEF CodexHistory
  <2> QED
    BY <2>2
<1> QED
  BY <1>1, <1>2 DEF Inv, AppInv

LEMMA StepKeepsInv ==
    ASSUME Inv, [Next]_vars
    PROVE  Inv'
<1> USE DEF app, codex, gate
<1>n. age \in Nat /\ age + 1 \in Nat
  BY DEF Inv, Types
<1>1. CASE Application
  BY <1>1, ApplicationWrites
<1>2. CASE Tick
  BY <1>n, <1>2, StoresKept DEF Tick, SameTurn
<1>3. CASE Client
  BY <1>n, <1>3, StoresKept DEF Client, Connect, Disconnect, LeaseEnds, Publish, Session
<1>4. CASE Probe
  BY <1>n, <1>4, StoresKept DEF Probe
<1>5. CASE ClearFeed \/ PollFeed \/ PublishRollout \/ PollFails
  BY <1>n, <1>5, StoresKept DEF ClearFeed, PollFeed, PublishRollout, PollFails
<1>6. CASE OpenRollout \/ ReadRollout
  <2>1. agent = "codex" /\ Types /\ cursor \in Cursors
    BY <1>6 DEF Inv, Types, OpenRollout, ReadRollout
  <2>2. PICK h \in Seq(Cursors) : CodexHistory(h)
    BY <2>1 DEF Inv, AppInv
  <2>3. cursor' \in Cursors /\ CodexHistory(h)'
    BY <1>6, <2>1, <2>2, CodexReads
  <2>4. /\ UNCHANGED <<agent, phase, turn, turns, clock, age, store, desktop>>
        /\ reading' = TRUE \/ reading' = reading
    BY <1>6 DEF OpenRollout, ReadRollout
  <2>5. Types'
    BY <2>1, <2>4 DEF Types
  <2> QED
    BY <2>1, <2>3, <2>4, <2>5 DEF Inv, AppInv
<1>7. CASE UNCHANGED vars
  BY <1>n, <1>7, StoresKept DEF vars
<1> QED
  BY <1>1, <1>2, <1>3, <1>4, <1>5, <1>6, <1>7 DEF Next, Daemon

LEMMA InitInv == Init => Inv
<1> SUFFICES ASSUME Init PROVE Inv
  OBVIOUS
<1>1. NoMessage \in Messages
  BY DEF NoMessage, Message, Messages, Ends
<1>2. NoListing \in Listings /\ NoDetails \in [tail : Messages, user : Nat]
  BY <1>1 DEF NoListing, Listings, NoDetails, Phases, Busy
<1>3. store = EmptyStore
  BY DEF Init
<1>4. /\ EmptyStore.tail = NoMessage /\ EmptyStore.listing = NoListing
      /\ EmptyStore.details = NoDetails /\ EmptyStore.user = 0
      /\ EmptyStore.usage = "none" /\ EmptyStore.end.reason = ""
      /\ EmptyStore.path = 1 /\ EmptyStore.lines = <<>>
      /\ EmptyStore.tool.status = "none" /\ EmptyStore.record.process = "own"
      /\ EmptyStore.record.status = "idle" /\ EmptyStore.record.changed = 0
  BY DEF EmptyStore, Tool
<1>5. EmptyStore \in Stores
  <2>1. <<>> \in Seq(Lines)
    OBVIOUS
  <2>2. [process |-> "own", status |-> "idle", changed |-> 0, later |-> FALSE] \in Records
    BY DEF Records
  <2>3. Tool("none", "none") \in [status : {"none", "running", "completed"},
                                  approval : {"none", "pending", "granted"}]
    BY DEF Tool
  <2>4. [reason |-> "", at |-> 0] \in Reasons
    BY DEF Reasons
  <2> QED
    BY <1>1, <1>2, <2>1, <2>2, <2>3, <2>4 DEF EmptyStore, Stores
<1>6. /\ phase = "idle" /\ turn = 0 /\ clock = 0 /\ cursor = NewCursor(0)
      /\ reading = FALSE /\ abandoned = {}
  BY DEF Init
<1>7. Types
  <2>1. agent \in {"zcode", "hermes", "remote", "claude", "codex"}
    BY FeedsAssumption DEF Init
  <2>2. phase = "idle" /\ turn = 0 /\ turns = 0 /\ clock = 0 /\ age = 0
    BY DEF Init
  <2>3. reading \in BOOLEAN /\ desktop \in BOOLEAN /\ ~reading
    BY DEF Init
  <2> QED
    BY <1>3, <1>5, <2>1, <2>2, <2>3 DEF Types, Phases
<1>8. cursor \in Cursors
  BY <1>6, NewCursorTypes
<1>9. /\ NoMessage.role = "none" /\ NoMessage.at = 0 /\ NoMessage.asks = FALSE
      /\ NoDetails.tail = NoMessage /\ NoDetails.user = 0
      /\ NoListing.phase = "idle" /\ NoListing.turn = 0 /\ NoListing.active = FALSE
      /\ NoListing.asks = FALSE /\ NoListing.reason = "" /\ NoListing.activity = 0
  BY DEF NoMessage, Message, NoDetails, NoListing
<1>z. 0 >= 0 /\ 0 <= 0
  OBVIOUS
<1>10. ZCodeStore(EmptyStore, "idle", 0)
  BY <1>4, <1>9 DEF ZCodeStore, PendingApproval, Busy
<1>11. HermesStore(EmptyStore, "idle", 0)
  BY <1>z, <1>4, <1>9 DEF HermesStore
<1>12. RemoteCache(EmptyStore, 0, 0)
  BY <1>z, <1>4, <1>9 DEF RemoteCache, Busy
<1>13. ClaudeStore(EmptyStore, "idle", 0)
  BY <1>z, <1>4 DEF ClaudeStore
<1>14. \E h \in Seq(Cursors) : CodexHistory(h)
  <2> DEFINE h == <<NewCursor(1)>>
  <2>1. /\ NewCursor(1) \in Cursors /\ NewCursor(1).lifecycle = NoLifecycle
        /\ NewCursor(1).verified = FALSE /\ cursor.path = 0
    BY <1>6, NewCursorTypes
  <2>2. h \in Seq(Cursors) /\ Len(h) = 1 /\ h[1] = NewCursor(1)
    BY <2>1
  <2>3. Reads(h, 1, <<>>)
    BY <2>2 DEF Reads
  <2>4. CodexEnd(NoLifecycle, "idle", turn, abandoned)
    BY <1>6 DEF CodexEnd, NoLifecycle, Busy
  <2> HIDE DEF h
  <2>5. CodexHistory(h)
    <3>1. store.path = 1 /\ store.lines = <<>>
      BY <1>3, <1>4
    <3>2. /\ h[Len(h)].lifecycle = NoLifecycle /\ h[Len(h)].verified = FALSE
          /\ cursor.path # store.path /\ cursor.path <= store.path
      BY <2>1, <2>2, <3>1
    <3> QED
      BY <1>6, <2>3, <2>4, <3>1, <3>2 DEF CodexHistory
  <2> QED
    BY <2>2, <2>5
<1> QED
  BY <1>3, <1>6, <1>7, <1>8, <1>10, <1>11, <1>12, <1>13, <1>14 DEF Inv, AppInv

-----------------------------------------------------------------------------
(* The stores, and the cursor in a rollout, are always ones that the phase *)
(* of the session can have left.                                           *)
THEOREM Invariant == Spec => []Inv
<1>1. Inv /\ [Next]_vars => Inv'
  BY StepKeepsInv
<1> QED
  BY InitInv, <1>1, PTL DEF Spec

(* What a feed makes of the stores is true of the session.                 *)
LEMMA PollTells ==
    ASSUME Inv, PollFeed, NEW c \in card'
    PROVE  Tells(c) /\ StartsIn(c)
<1>1. Types /\ AppInv /\ c \in Snapshot /\ agent \in {"zcode", "hermes", "remote", "claude"}
  BY DEF Inv, PollFeed, Types
<1>2. CASE agent = "zcode"
  BY <1>1, <1>2, ZCodeTells DEF Snapshot, AppInv
<1>3. CASE agent = "hermes"
  BY <1>1, <1>3, HermesTells DEF Snapshot, AppInv
<1>4. CASE agent = "remote"
  <2>1. store.listing.known /\ c = CachedCard(store.listing, store.details)
    BY <1>1, <1>4 DEF Snapshot
  <2> QED
    BY <1>1, <1>4, <2>1, RemoteTells DEF AppInv
<1>5. CASE agent = "claude"
  BY <1>1, <1>5, ClaudeTells DEF Snapshot, AppInv
<1> QED
  BY <1>1, <1>2, <1>3, <1>4, <1>5

(* A card that is published tells what the session does: no trace of an    *)
(* earlier request, turn or rollout passes for the current turn, for every *)
(* application and every number of turns and writes.  What is not covered  *)
(* is in Tells: a session whose date is not recent, and a rollout of Codex *)
(* with a turn aborted while it asked.                                     *)
THEOREM CardsTellTheTurn == Spec => CardTellsTheTurn
<1>1. Inv /\ [Next]_vars => [PollFeed \/ PublishRollout => \A c \in card' : Tells(c)]_vars
  <2>1. SUFFICES ASSUME Inv, PollFeed \/ PublishRollout, NEW c \in card'
                 PROVE  Tells(c)
    OBVIOUS
  <2>2. CASE PollFeed
    BY <2>1, <2>2, PollTells
  <2>3. CASE PublishRollout
    <3>1. Types /\ cursor \in Cursors /\ agent = "codex" /\ c = CodexCard(cursor.lifecycle)
      BY <2>1, <2>3 DEF Inv, Types, PublishRollout
    <3>2. PICK h \in Seq(Cursors) : CodexHistory(h)
      BY <2>1, <3>1 DEF Inv, AppInv
    <3> QED
      BY <2>3, <3>1, <3>2, CodexTells
  <2> QED
    BY <2>1, <2>2, <2>3
<1> QED
  BY Invariant, <1>1, PTL DEF Spec, CardTellsTheTurn

(* The timer of a card never starts at a turn before the one it tells of:  *)
(* a transcript older than the listing lends no date (turn_timestamps,     *)
(* apply_cached_turn_timing).                                              *)
THEOREM TimersStartInTurn == Spec => StartIsOfThisTurn
<1>1. Inv /\ [Next]_vars =>
          [PollFeed => \A c \in card' :
              c.state \in Active \cup {"completed"} /\ c.started # 0
                 => c.started >= SeenTurn]_vars
  BY PollTells DEF StartsIn
<1> QED
  BY Invariant, <1>1, PTL DEF Spec, StartIsOfThisTurn
=============================================================================

----------------------------- MODULE SerialLink ------------------------------
(***************************************************************************)
(* The RP2040 link: the firmware's queues (main.c), the daemon's and the   *)
(* stand-alone MCP server's side of it (main.rs, daemon.rs), which probe   *)
(* it, replace it and reassemble Codex messages from its reports           *)
(* (CodexDecoder, codex.rs).                                               *)
(*                                                                         *)
(* The reader thread hands frames over as FrameCodec shows.  A Codex       *)
(* message takes two reports, its object with the line end split anywhere. *)
(***************************************************************************)
EXTENDS Integers, Sequences, FiniteSetsExt

CONSTANTS
    Modes,          \* "daemon" and "mcp": which loop runs
    TxCap,          \* BRIDGE_TX_QUEUE_CAPACITY
    MaxMessages,    \* bound on the messages the desktop sends
    MaxMishaps,     \* bound on hangs, losses of frames, unplugging and late readers
    MaxRequests,    \* bound on the requests of the MCP client
    HandshakeTime,  \* the 3 seconds of wait_for_firmware
    MaxDelay        \* DAEMON_SERIAL_RETRY_MAX_DELAY, SERIAL_RETRY_MAX_DELAY

ASSUME LinkAssumption ==
    /\ Modes \subseteq {"daemon", "mcp"}
    /\ TxCap \in Nat \ {0}
    /\ {MaxMessages, MaxMishaps, MaxRequests} \subseteq Nat
    /\ {HandshakeTime, MaxDelay} \subseteq Nat \ {0}

None == -1
Broken == -2
HEALTH_CHECK_INTERVAL == 1
HEALTH_CHECK_TIMEOUT == 1
SERIAL_RETRY_INITIAL_DELAY == 1

VARIABLES
    board,    \* "up", "hung" or "gone"
    tx,       \* bridge_tx: frames not yet written to the CDC
    pings,    \* pings the firmware has not read
    app,      \* the report the desktop sends next: <<message, half>>
    mishaps,
    mode,     \* which loop this process runs
    port,     \* "closed", "open", "broken" by the loss of the board, or "stuck":
              \* held by a reader that would not end
    events,   \* channel of the runtime's reader thread
    link,     \* "down", "handshake" or "up" (bridge.serial is Some)
    step,     \* where the loop stands
    lost,     \* serial_disconnected is Some
    decoder,  \* codex_decoder.buffer: the message whose first half it holds,
              \* Broken when pieces of an earlier one are before it
    health,   \* probe: time to next_probe_at; pending: to pending_deadline
    retry,    \* at: time to serial_retry_at; delay: serial_retry_delay
    left,     \* time left of a handshake
    input,    \* requests of the MCP client: waiting, answered
    got,      \* messages that reached process_codex_message: <<first, second half>>
    dropped   \* reports lost to a full queue or damaged on the wire

firmware == <<board, tx, pings, app, mishaps>>
loop == <<step, lost>>
client == <<mode, input>>
seen == <<got, dropped>>
vars == <<firmware, client, port, events, link, loop, decoder, health, retry, left, seen>>

(* The halves of the messages; the channel also says that a ping was       *)
(* answered, that a frame was damaged, and that the reader has ended.      *)
Messages == 1 .. MaxMessages
Halves == Messages \X {1, 2}
Frames == [kind : {"report"}, of : Halves]
          \cup [kind : {"status", "error", "disconnected"}]

TypeOK ==
    /\ board \in {"up", "hung", "gone"} /\ pings \in Nat
    /\ tx \in Seq(Frames) /\ Len(tx) <= TxCap /\ events \in Seq(Frames)
    /\ app \in Halves \cup {<<MaxMessages + 1, 1>>}
    /\ mishaps \in 0 .. MaxMishaps
    /\ mode \in Modes
    /\ port \in {"closed", "open", "broken", "stuck"}
    /\ link \in {"down", "handshake", "up"}
    /\ step \in {"drain", "check", "open", "handshake", "sleep"} /\ lost \in BOOLEAN
    /\ decoder \in Messages \cup {None, Broken}
    /\ health \in [probe : 0 .. HEALTH_CHECK_INTERVAL,
                   pending : (0 .. HEALTH_CHECK_TIMEOUT) \cup {None}]
    /\ retry \in [at : (0 .. MaxDelay) \cup {None}, delay : 1 .. MaxDelay]
    /\ left \in 0 .. HandshakeTime
    /\ input \in [waiting : Nat, answered : Nat]
    /\ input.waiting + input.answered <= MaxRequests
    /\ got \subseteq Messages \X Messages /\ dropped \subseteq Halves

NewHealth == [probe |-> HEALTH_CHECK_INTERVAL, pending |-> None]

Init ==
    /\ board \in {"up", "gone"} /\ tx = <<>> /\ pings = 0
    /\ app = <<1, 1>> /\ mishaps = 0
    /\ mode \in Modes
    \* open_runtime: port "auto" lets either loop start without a board, and
    \* only the daemon has a retry set then.
    /\ link = IF board = "up" THEN "up" ELSE "down"
    /\ port = IF board = "up" THEN "open" ELSE "closed"
    /\ events = <<>> /\ step = "drain" /\ lost = FALSE
    /\ decoder = None /\ health = NewHealth
    /\ retry = [at |-> IF board = "up" \/ mode = "mcp" THEN None ELSE 0,
                delay |-> SERIAL_RETRY_INITIAL_DELAY]
    /\ left = 0 /\ input = [waiting |-> 0, answered |-> 0]
    /\ got = {} /\ dropped = {}

-----------------------------------------------------------------------------
(* The firmware and what happens to it. *)

Push(frame) == tx' = IF Len(tx) < TxCap THEN Append(tx, frame) ELSE tx

(* tud_hid_set_report_cb: a report goes to the bridge, or is dropped. *)
DesktopSends ==
    /\ board = "up" /\ app[1] <= MaxMessages
    /\ Push([kind |-> "report", of |-> app])
    /\ dropped' = IF Len(tx) < TxCap THEN dropped ELSE dropped \cup {app}
    /\ app' = IF app[2] = 1 THEN <<app[1], 2>> ELSE <<app[1] + 1, 1>>
    /\ UNCHANGED <<board, pings, mishaps, client, port, events, link, loop,
                   decoder, health, retry, left, got>>

(* on_bridge_frame: a ping is answered with a status frame. *)
AnswerPing ==
    /\ board = "up" /\ pings > 0
    /\ pings' = pings - 1
    /\ Push([kind |-> "status"])
    /\ UNCHANGED <<board, app, mishaps, client, port, events, link, loop,
                   decoder, health, retry, left, seen>>

(* bridge_tx_flush waits until the host has opened the port. *)
Flush(event) ==
    /\ board = "up" /\ port = "open" /\ tx # <<>>
    /\ tx' = Tail(tx)
    /\ events' = Append(events, event)
    /\ UNCHANGED <<board, pings, app, client, port, link, loop, decoder,
                   health, retry, left, got>>

FlushFrame == Flush(Head(tx)) /\ UNCHANGED <<mishaps, dropped>>
FlushDamaged ==
    /\ mishaps < MaxMishaps /\ mishaps' = mishaps + 1
    /\ Flush([kind |-> "error"])
    /\ dropped' = IF Head(tx).kind = "report"
                  THEN dropped \cup {Head(tx).of} ELSE dropped

Mishap(before, after) ==
    /\ board \in before /\ board' = after
    /\ mishaps < MaxMishaps /\ mishaps' = mishaps + 1
    /\ UNCHANGED <<client, link, loop, decoder, health, retry, left, seen>>

Hang == Mishap({"up"}, "hung") /\ UNCHANGED <<tx, pings, app, port, events>>

(* The desktop gives up the message it was sending; a read fails. *)
Unplug ==
    /\ Mishap({"up", "hung"}, "gone")
    /\ tx' = <<>> /\ pings' = 0
    /\ app' = IF app[2] = 1 THEN app ELSE <<app[1] + 1, 1>>
    /\ IF port = "open"
       THEN /\ events' = Append(events, [kind |-> "disconnected"])
            /\ port' = "broken"
       ELSE UNCHANGED <<events, port>>

Recover ==
    /\ board \in {"gone", "hung"} /\ board' = "up"
    /\ UNCHANGED <<tx, pings, app, mishaps, client, port, events, link, loop,
                   decoder, health, retry, left, seen>>

-----------------------------------------------------------------------------
(* One pass of the loop: the requests of the client and the serial events, *)

(* CodexDecoder: a first half waits for the next report, which completes a *)
(* message if it is a second half, another's as well as its own.  A second *)
(* half with nothing before it is skipped to the end of its line.          *)
(* The half that waits comes before the events.                            *)
Reports ==
    {k \in DOMAIN events : events[k].kind = "report"}
    \cup (IF decoder \in Messages THEN {0} ELSE {})
Half(k) == IF k = 0 THEN <<decoder, 1>> ELSE events[k].of

Neighbours ==
    {p \in Reports \X Reports :
        p[1] < p[2] /\ \A i \in Reports : i <= p[1] \/ p[2] <= i}

(* At a first half behind another the decoder starts anew, at that half or *)
(* at an object within the one before; then the message is lost as well    *)
(* (invalid_prefix_length).                                                *)
Restarts ==
    {k \in Reports :
        /\ Half(k)[2] = 1
        /\ \/ \E p \in Neighbours : p[2] = k /\ Half(p[1])[2] = 1
           \/ decoder = Broken /\ \A i \in Reports : k <= i}

Feed(skipped) ==
    LET whole == {p \in Neighbours : /\ Half(p[1])[2] = 1 /\ Half(p[2])[2] = 2
                                     /\ p[1] \notin skipped}
    IN  {<<Half(p[1])[1], Half(p[2])[1]>> : p \in whole}

Remainder(skipped) ==
    LET open == {k \in Reports : Half(k)[2] = 1 /\ \A i \in Reports : i <= k}
    IN  CASE Reports = {} -> decoder
          [] Reports # {} /\ open = {} -> None
          [] open # {} /\ open \subseteq skipped -> Broken
          [] OTHER -> Half(CHOOSE k \in open : TRUE)[1]

Has(kind) == \E k \in DOMAIN events : events[k].kind = kind

Answer(n) == [waiting |-> input.waiting - n, answered |-> input.answered + n]

(* A message that asks for an answer is acknowledged on the link, which    *)
(* fails when the board has gone.                                          *)
AckFails(skipped) == port = "broken" /\ Feed(skipped) # {}

(* The events behind a message that cannot be acknowledged are handled.    *)
Drain ==
    /\ step = "drain"
    /\ input' = Answer(input.waiting)
    /\ \E skipped \in SUBSET Restarts :
          /\ got' = got \cup Feed(skipped)
          /\ decoder' = Remainder(skipped)
          /\ lost' = (Has("disconnected") \/ AckFails(skipped))
    /\ health' = IF Has("status") THEN NewHealth ELSE health
    /\ events' = <<>>
    /\ step' = "check"
    /\ UNCHANGED <<firmware, mode, port, link, retry, left, dropped>>

TimedOut == link = "up" /\ health.pending = 0

(* ... a retry or the health check, ... *)
MustReplace ==
    \/ lost
    \/ mode = "daemon" /\ link = "down" /\ retry.at = 0
    \/ TimedOut

(* replace_runtime begins with the end of the old runtime; its reader may  *)
(* not be stopped within the second it is given, and then keeps the port.  *)
JoinReader ==
    \/ /\ port' = IF port = "stuck" THEN "stuck" ELSE "closed"
       /\ UNCHANGED mishaps
    \/ /\ port = "open" /\ port' = "stuck"
       /\ mishaps < MaxMishaps /\ mishaps' = mishaps + 1

Close ==
    /\ JoinReader
    /\ link' = "down" /\ events' = <<>> /\ step' = "open" /\ lost' = FALSE
    /\ UNCHANGED <<board, tx, pings, app, client, decoder, health, retry, left, seen>>

Replace == step = "check" /\ MustReplace /\ Close

Due == link = "up" /\ health.pending = None /\ health.probe = 0

(* Mutant: nobody waits for the answer. *)
PingUnwatched ==
    /\ step = "check" /\ ~MustReplace
    /\ Due /\ port = "open"
    /\ pings' = Min({pings + 1, 2})
    /\ step' = "drain"
    /\ UNCHANGED <<board, tx, app, mishaps, client, port, events, link, lost,
                   decoder, health, retry, left, seen>>

(* ... and a probe if it is time. *)
Ping ==
    /\ step = "check" /\ ~MustReplace
    /\ Due /\ port = "open"
    /\ pings' = pings + 1
    /\ health' = [health EXCEPT !.pending = HEALTH_CHECK_TIMEOUT]
    /\ step' = "drain"
    /\ UNCHANGED <<board, tx, app, mishaps, client, port, events, link, lost,
                   decoder, retry, left, seen>>

PingFails == step = "check" /\ ~MustReplace /\ Due /\ port # "open" /\ Close

NoPing ==
    /\ step = "check" /\ ~MustReplace /\ ~Due
    /\ step' = "drain"
    /\ UNCHANGED <<firmware, client, port, events, link, lost, decoder, health,
                   retry, left, seen>>

-----------------------------------------------------------------------------
(* open_serial_runtime. *)

(* Mutant: the delay of the next attempt is doubled, its time not set. *)
FailForGood ==
    /\ step' = IF mode = "daemon" THEN "drain" ELSE "sleep"
    /\ retry' = [retry EXCEPT !.delay = Min({retry.delay * 2, MaxDelay})]
    /\ link' = "down" /\ events' = <<>>

(* The daemon goes on and comes back; the MCP server sleeps in             *)
(* reconnect_mcp, whose delay starts anew for every loss.                  *)
Fail ==
    /\ step' = IF mode = "daemon" THEN "drain" ELSE "sleep"
    /\ retry' = [at |-> retry.delay, delay |-> Min({retry.delay * 2, MaxDelay})]
    /\ link' = "down" /\ events' = <<>>

(* Mutant: requests wait until the link is back. *)
KeepWaiting == input' = input

(* reconnect_mcp answers the requests of each turn with an error. *)
Refuse ==
    input' = IF mode = "mcp" THEN Answer(input.waiting) ELSE input

OpenFails ==
    /\ step = "open" /\ (board = "gone" \/ port = "stuck")
    /\ Fail /\ Refuse
    /\ UNCHANGED <<firmware, mode, port, lost, decoder, health, left, seen>>

Open ==
    /\ step = "open" /\ board # "gone" /\ port = "closed"
    /\ Refuse
    /\ port' = "open" /\ link' = "handshake" /\ step' = "handshake"
    /\ left' = HandshakeTime
    /\ pings' = pings + 1
    /\ UNCHANGED <<board, tx, app, mishaps, mode, events, lost, decoder,
                   health, retry, seen>>

(* Mutant: a new runtime goes on with the old decoder. *)
LinkedWithOldDecoder ==
    /\ step = "handshake" /\ events # <<>> /\ Head(events).kind = "status"
    /\ events' = Tail(events)
    /\ link' = "up" /\ step' = "drain"
    /\ health' = NewHealth
    /\ retry' = [at |-> None, delay |-> SERIAL_RETRY_INITIAL_DELAY]
    /\ left' = 0
    /\ UNCHANGED <<firmware, client, port, lost, decoder, seen>>

(* The first status frame ends the handshake, ... *)
Linked ==
    /\ step = "handshake" /\ events # <<>> /\ Head(events).kind = "status"
    /\ events' = Tail(events)
    /\ link' = "up" /\ step' = "drain"
    /\ decoder' = None /\ health' = NewHealth
    /\ retry' = [at |-> None, delay |-> SERIAL_RETRY_INITIAL_DELAY]
    /\ left' = 0
    /\ UNCHANGED <<firmware, client, port, lost, seen>>

(* ... what comes before it is discarded, ... *)
Discard ==
    /\ step = "handshake" /\ events # <<>>
    /\ Head(events).kind \in {"report", "error"}
    /\ events' = Tail(events)
    /\ UNCHANGED <<firmware, client, port, link, loop, decoder, health, retry,
                   left, seen>>

(* ... and a reader that ends or three seconds without one end it, too.    *)
HandshakeFails ==
    /\ step = "handshake"
    /\ IF events = <<>> THEN left = 0 ELSE Head(events).kind = "disconnected"
    /\ Fail /\ JoinReader
    /\ left' = 0
    /\ UNCHANGED <<board, tx, pings, app, client, lost, decoder, health,
                   seen>>

TryAgain ==
    /\ step = "sleep" /\ retry.at = 0
    /\ step' = "open"
    /\ UNCHANGED <<firmware, client, port, events, link, lost, decoder,
                   health, retry, left, seen>>

ReaderEnds ==
    /\ port = "stuck" /\ port' = "closed"
    /\ UNCHANGED <<firmware, client, events, link, loop, decoder, health, retry,
                   left, seen>>

-----------------------------------------------------------------------------
Ask ==
    /\ mode = "mcp" /\ input.waiting + input.answered < MaxRequests
    /\ input' = [input EXCEPT !.waiting = @ + 1]
    /\ UNCHANGED <<firmware, mode, port, events, link, loop, decoder, health,
                   retry, left, seen>>

Down(t) == IF t > 0 THEN t - 1 ELSE t

(* A tick is long for the firmware, which has read and written what it can,*)
(* for the events of a pass, which have been handled, and for a handshake, *)
(* which waits on the channel and pings at each tick.                      *)
FirmwareIsIdle == board = "up" => pings = 0 /\ (port = "open" => tx = <<>>)

Tick ==
    /\ FirmwareIsIdle
    /\ step # "check"
    /\ step = "handshake" => events = <<>> /\ left > 0
    /\ health' = IF link = "up"
                 THEN [probe |-> Down(health.probe), pending |-> Down(health.pending)]
                 ELSE health
    /\ retry' = [retry EXCEPT !.at = Down(@)]
    /\ left' = Down(left)
    /\ pings' = IF step = "handshake" /\ port = "open" THEN Min({pings + 1, 2}) ELSE pings
    /\ UNCHANGED <<board, tx, app, mishaps, client, port, events, link, loop,
                   decoder, seen>>

Firmware == AnswerPing \/ FlushFrame
Loop ==
    \/ Drain \/ Replace \/ Ping \/ PingFails \/ NoPing
    \/ OpenFails \/ Open \/ Linked \/ Discard \/ HandshakeFails \/ TryAgain
World == DesktopSends \/ FlushDamaged \/ Hang \/ Unplug \/ Recover \/ Ask

Next == Firmware \/ Loop \/ World \/ ReaderEnds \/ Tick
Spec == Init /\ [][Next]_vars

(* The threads run and a cancelled read ends some day.  A loop that sleeps *)
(* between its passes does not keep time from passing, hence SF.           *)
FairSpec ==
    Spec /\ WF_vars(Firmware) /\ WF_vars(Loop) /\ WF_vars(ReaderEnds) /\ SF_vars(Tick)

-----------------------------------------------------------------------------
(* Properties.                                                             *)

(* A message is never put together from the halves of two others because a *)
(* runtime ended in the middle of one: only when the end of the first and  *)
(* the beginning of the second were both lost to a full queue or damaged   *)
(* on the wire (replace_runtime, CodexDecoder).                            *)
MessagesAreWhole ==
    \A m \in got : m[1] # m[2] => {<<m[1], 2>>, <<m[2], 1>>} \subseteq dropped

(* The stand-alone server that found no board at its start: nothing sets a *)
(* retry for it, and send_health_ping has no writer that could fail.       *)
Standalone == mode = "mcp" /\ link = "down" /\ step \in {"drain", "check"}

(* A board that stays is linked in the end and remains so, whatever was    *)
(* lost or late before; only a stand-alone server that has started without *)
(* one goes on without (retry_serial_connection, reconnect_mcp, run_mcp).  *)
LinkRecovers == <>[](board = "up") => <>[](link = "up") \/ []Standalone

(* A board that is gone or has stopped to answer is not taken for linked   *)
(* for ever (HealthCheck).                                                 *)
DeadLinkIsNoticed == <>[](board # "up") => <>[](link # "up")

(* The MCP client gets its answers also while the link is being replaced   *)
(* (reconnect_mcp).                                                        *)
RequestsAreAnswered == input.waiting > 0 ~> input.waiting = 0
=============================================================================

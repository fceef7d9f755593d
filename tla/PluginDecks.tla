----------------------------- MODULE PluginDecks -----------------------------
(***************************************************************************)
(* The controllers of the daemon (daemon.rs, plugin_controller.rs,         *)
(* main.rs): Stream Deck plugins, and the deck the daemon drives itself    *)
(* when it was started with one.  Without it ("--controller none") the     *)
(* first plugin is promoted to primary.                                    *)
(*                                                                         *)
(* A plugin process connects, maybe again and again, under one instance    *)
(* id.  Each connection is a session with a reader thread and a writer     *)
(* thread; the daemon's loop drains the messages of all sessions, then     *)
(* renders and polls the controllers.  A plugin's controller is named here *)
(* by the session whose channels it holds.                                 *)
(***************************************************************************)
EXTENDS Naturals, Sequences

CONSTANTS Sessions,     \* connections the acceptor may hand out
          Plugins,      \* instance ids of plugin processes, all with slots
          Hw,           \* the deck given with --controller
          Wishes,       \* slot owners a plugin may ask for
          None,
          InboxLimit    \* bound of the model: messages not yet drained

ASSUME DecksAssumption ==
    /\ None \notin Sessions \cup Plugins \cup Wishes \cup {Hw}
    /\ Hw \notin Sessions \cup Plugins
    /\ InboxLimit \in Nat

VARIABLES
    reader,     \* thread: none, reading, sent (its last message), gone
    plugin,     \* the instance id in the session's hello
    deaf,       \* controllers that writes no longer reach: the writer thread
                \* has ended, or the device was pulled out
    plugged,    \* the deck Hw is there to be opened
    said,       \* the slot owners in the last line of each plugin session
    inbox,      \* session_rx
    mapped,     \* plugin_sessions
    bridge,     \* controllers, task_device_id, what the board knows of them
    step        \* where the loop stands

threads == <<reader, plugin, said>>
devices == <<deaf, plugged>>
vars == <<threads, devices, inbox, mapped, bridge, step>>

Message == [kind : {"hello", "bye"}, session : Sessions]
Decks == Sessions \cup {Hw}

(* "shown" are the decks that were sent what they should show; "owners"    *)
(* the slot owners the board has for the partitioned device (None: those   *)
(* of the partition).                                                      *)
Bridges == [choice : {None, Hw}, primary : Decks \cup {None},
            aux : SUBSET Sessions, device : Plugins \cup {Hw, None},
            board : SUBSET (Plugins \cup {Hw}), shown : SUBSET Decks,
            owners : Wishes \cup {None}]

Controllers(b) == b.aux \cup ({b.primary} \ {None})
DeviceOf(c) == IF c = Hw THEN Hw ELSE plugin[c]

(* set_slot_owners("none", ...): no device is partitioned.                 *)
Forget(b) == [b EXCEPT !.device = None, !.owners = None]

-----------------------------------------------------------------------------
(***************************************************************************)
(* detach_plugin_controller: the primary, or the auxiliary controllers of  *)
(* this device.  A device without controller is left as it is.             *)
(***************************************************************************)
Detach(b, d) ==
    LET c == [b EXCEPT !.board = @ \ {d}]
    IN  IF b.device = d /\ b.primary # None
        THEN Forget([c EXCEPT !.primary = None])
        ELSE IF \A s \in b.aux : plugin[s] # d THEN b
        ELSE LET e == [c EXCEPT !.aux = {s \in @ : plugin[s] # d}]
             IN  IF b.device = d THEN Forget(e) ELSE e

(* The decks that cannot be sent what has changed for them; a deck that    *)
(* shows what it should is sent nothing.                                   *)
Failing(b) == (Controllers(b) \cap deaf) \ b.shown

(* Mutant: an auxiliary controller that fails keeps its slots.             *)
RefreshKeepingSlots(b) ==
    LET failing == Failing(b)
    IN  IF b.primary \in failing THEN [b EXCEPT !.primary = None]
        ELSE [b EXCEPT !.aux = @ \ failing,
                       !.shown = @ \cup (Controllers(b) \ failing)]

(* Mutant: a primary that fails is kept for the next refresh.              *)
RefreshRetrying(b) ==
    LET failing == Failing(b)
    IN  IF b.primary \in failing THEN b
        ELSE [b EXCEPT !.aux = @ \ failing,
                       !.board = @ \ {plugin[s] : s \in b.aux \cap failing},
                       !.shown = @ \cup (Controllers(b) \ failing)]

(***************************************************************************)
(* refresh_task_board.  A failing primary ends the refresh                 *)
(* (detach_controller) before any auxiliary deck is rendered; auxiliary    *)
(* controllers that fail leave the board.                                  *)
(***************************************************************************)
Refresh(b) ==
    LET failing == Failing(b)
    IN  IF b.primary \in failing THEN [b EXCEPT !.primary = None]
        ELSE [b EXCEPT !.aux = @ \ failing,
                       !.board = @ \ {plugin[s] : s \in b.aux \cap failing},
                       !.shown = @ \cup (Controllers(b) \ failing)]

(* What is on the board, the context or the colours may have changed for   *)
(* all decks but those in S.                                               *)
Changed(b, S) == [b EXCEPT !.shown = S]

(***************************************************************************)
(* poll_controller: controllers whose reader thread is gone, or whose      *)
(* device is, are dropped: a primary by detach_controller, an auxiliary    *)
(* one with its slots.                                                     *)
(***************************************************************************)
Poll(b) ==
    LET lost == {s \in Sessions : reader[s] = "gone"} \cup ({Hw} \cap deaf)
        left == {plugin[s] : s \in b.aux \cap lost}
        c == [b EXCEPT !.primary = IF @ \in lost THEN None ELSE @,
                       !.aux = @ \ lost,
                       !.board = @ \ left]
    IN  IF c.primary = None /\ b.device \in left THEN Forget(c) ELSE c

(* Mutant: only the primary is asked.                                      *)
WishesOfPrimary(b) ==
    IF b.primary \in Sessions THEN said[b.primary] ELSE None

(* primary_slot_overrides and task_slot_owners: the primary, or else the   *)
(* auxiliary controller of the partitioned device.  Its last line has just *)
(* been read by poll_controller.                                           *)
Wished(b) ==
    LET own == {c \in Controllers(b) \cap Sessions : plugin[c] = b.device}
    IN  IF own = {} THEN None
        ELSE said[IF b.primary \in own THEN b.primary
                     ELSE CHOOSE c \in own : TRUE]

(* Mutant: the controller of the stale session stays.                      *)
AttachBeside(b, s, stale) ==
    LET d == plugin[s]
        e == [b EXCEPT !.board = @ \cup {d}, !.shown = @ \ {s}]
    IN  IF b.primary = None /\ b.device = None
        THEN [e EXCEPT !.primary = s, !.device = d, !.owners = None]
        ELSE [e EXCEPT !.aux = @ \cup {s}]

(***************************************************************************)
(* ControllerHello: a session of the same plugin that is still mapped is   *)
(* stale and is detached first; the newcomer is promoted if there is no    *)
(* primary and no partitioned device.                                      *)
(***************************************************************************)
Attach(b, s, stale) ==
    LET d == plugin[s]
        c == IF stale # {} THEN Detach(b, d) ELSE b
        e == [c EXCEPT !.board = @ \cup {d}, !.shown = @ \ {s}]
    IN  IF c.primary = None /\ c.device = None
        THEN [e EXCEPT !.primary = s, !.device = d, !.owners = None]
        ELSE [e EXCEPT !.aux = @ \cup {s}]

(* Mutant: the deck is opened again only if no other one is served.        *)
ReopenAlone(b) ==
    IF Controllers(b) = {} /\ b.choice = Hw /\ plugged
    THEN [b EXCEPT !.primary = Hw, !.board = @ \cup {Hw},
                   !.shown = @ \ {Hw}]
    ELSE b

(* reconnect_controller_if_due: the deck is opened and shown everything    *)
(* again.                                                                  *)
Reopen(b) ==
    IF b.primary = None /\ b.choice = Hw /\ plugged
    THEN [b EXCEPT !.primary = Hw, !.board = @ \cup {Hw},
                   !.shown = @ \ {Hw}]
    ELSE b

-----------------------------------------------------------------------------
(* open_runtime: the deck asked for is there, or the daemon does not start *)
(* at all.                                                                 *)
Init ==
    /\ reader = [s \in Sessions |-> "none"]
    /\ plugin = [s \in Sessions |-> None]
    /\ said = [s \in Sessions |-> None]
    /\ deaf = {}
    /\ plugged = TRUE
    /\ inbox = << >>
    /\ mapped = {}
    /\ \E choice \in {None, Hw} :
           bridge = [choice |-> choice, primary |-> choice, aux |-> {},
                     device |-> choice, board |-> {choice} \ {None},
                     shown |-> {choice} \ {None}, owners |-> None]
    /\ step = "messages"

Send(kind, s) ==
    /\ Len(inbox) < InboxLimit
    /\ inbox' = Append(inbox, [kind |-> kind, session |-> s])

Announced(s) == \E k \in DOMAIN inbox :
    inbox[k] = [kind |-> "hello", session |-> s]

(* handle_plugin_session, up to the hello; the slot owners in the hello    *)
(* are the first line of the event channel.                                *)
Connect(s, p, wish) ==
    /\ reader[s] = "none"
    /\ Send("hello", s)
    /\ reader' = [reader EXCEPT ![s] = "reading"]
    /\ plugin' = [plugin EXCEPT ![s] = p]
    /\ said' = [said EXCEPT ![s] = wish]
    /\ UNCHANGED <<devices, mapped, bridge, step>>

(* A capacity line with slot owners.                                       *)
Announce(s, wish) ==
    /\ reader[s] = "reading"
    /\ s \in Controllers(bridge) \/ Announced(s)
    /\ said' = [said EXCEPT ![s] = wish]
    /\ UNCHANGED <<reader, plugin, devices, inbox, mapped, bridge, step>>

(* The reader reaches the end of the input, an error or its timeout: it    *)
(* tells the loop, and only then drops its end of the event channel.       *)
EndOfInput(s) ==
    /\ reader[s] = "reading"
    /\ Send("bye", s)
    /\ reader' = [reader EXCEPT ![s] = "sent"]
    /\ UNCHANGED <<plugin, said, devices, mapped, bridge, step>>

DropSender(s) ==
    /\ reader[s] = "sent"
    /\ reader' = [reader EXCEPT ![s] = "gone"]
    /\ UNCHANGED <<plugin, said, devices, inbox, mapped, bridge, step>>

(* A line arrives for a controller that was dropped: the reader ends and   *)
(* tells nobody.                                                           *)
LineForNobody(s) ==
    /\ reader[s] = "reading"
    /\ s \notin Controllers(bridge) /\ ~Announced(s)
    /\ reader' = [reader EXCEPT ![s] = "gone"]
    /\ UNCHANGED <<plugin, said, devices, inbox, mapped, bridge, step>>

(* The writer thread cannot write and ends.                                *)
WriterEnds(s) ==
    /\ s \in Controllers(bridge) \/ Announced(s)
    /\ s \notin deaf
    /\ deaf' = deaf \cup {s}
    /\ UNCHANGED <<threads, plugged, inbox, mapped, bridge, step>>

(* The deck is pulled out; what is open of it stays broken.                *)
PullOut ==
    /\ bridge.choice = Hw /\ plugged
    /\ plugged' = FALSE
    /\ deaf' = deaf \cup ({Hw} \cap {bridge.primary})
    /\ UNCHANGED <<threads, inbox, mapped, bridge, step>>

PlugIn ==
    /\ ~plugged
    /\ plugged' = TRUE
    /\ UNCHANGED <<threads, deaf, inbox, mapped, bridge, step>>

-----------------------------------------------------------------------------
Receive(kind, s) ==
    /\ step = "messages" /\ inbox # << >>
    /\ Head(inbox) = [kind |-> kind, session |-> s]
    /\ inbox' = Tail(inbox)
    /\ UNCHANGED <<threads, devices, step>>

Hello(s, S) ==
    /\ Receive("hello", s)
    /\ LET stale == {t \in mapped : plugin[t] = plugin[s]}
       IN  /\ bridge' = Refresh(Attach(Changed(bridge, S), s, stale))
           /\ mapped' = (mapped \ stale) \cup {s}

(* Mutant: the device is detached whether or not the session is mapped.    *)
ByeToDevice(s, S) ==
    /\ Receive("bye", s)
    /\ bridge' = Refresh(Detach(Changed(bridge, S), plugin[s]))
    /\ mapped' = mapped \ {s}

(* Disconnected or Error: of a session that is mapped; of any other one it *)
(* concerns cards it never published.  A refresh follows in both cases.    *)
Bye(s, S) ==
    /\ Receive("bye", s)
    /\ LET b == Changed(bridge, S)
       IN  bridge' = Refresh(IF s \in mapped THEN Detach(b, plugin[s]) ELSE b)
    /\ mapped' = mapped \ {s}

(* No message is left: the deck is opened again if it is there, and the    *)
(* decks are rendered.  Time is left out: the delay of a retry and the     *)
(* interval between two refreshes are over in every pass.                  *)
Render(S) ==
    /\ step = "messages" /\ inbox = << >>
    /\ LET b == Changed(bridge, S)
           c == Reopen(b)
       IN  /\ bridge' = Refresh(c)
           /\ deaf' = IF c # b THEN deaf \ {Hw} ELSE deaf
    /\ step' = "poll"
    /\ UNCHANGED <<threads, plugged, inbox, mapped>>

(* poll_controller, and the slot owners the plugins ask for.               *)
PollControllers(S) ==
    /\ step = "poll"
    /\ LET b == Poll(Changed(bridge, S))
       IN  bridge' = [b EXCEPT !.owners = Wished(b)]
    /\ step' = "messages"
    /\ UNCHANGED <<threads, devices, inbox, mapped>>

Threads ==
    \/ \E s \in Sessions :
        \/ \E p \in Plugins, w \in Wishes \cup {None} : Connect(s, p, w)
        \/ \E w \in Wishes \cup {None} : Announce(s, w)
        \/ EndOfInput(s)
        \/ DropSender(s)
        \/ LineForNobody(s)
        \/ WriterEnds(s)
    \/ PullOut
    \/ PlugIn

Loop ==
    \E S \in SUBSET bridge.shown :
        \/ \E s \in Sessions : Hello(s, S) \/ Bye(s, S)
        \/ Render(S)
        \/ PollControllers(S)

Next == Threads \/ Loop

Spec == Init /\ [][Next]_vars

(* The loop of the daemon never waits for anything but time.               *)
FairSpec == Spec /\ WF_vars(Loop)

-----------------------------------------------------------------------------
TypeOK ==
    /\ reader \in [Sessions -> {"none", "reading", "sent", "gone"}]
    /\ plugin \in [Sessions -> Plugins \cup {None}]
    /\ said \in [Sessions -> Wishes \cup {None}]
    /\ deaf \subseteq Decks /\ plugged \in BOOLEAN
    /\ inbox \in Seq(Message) /\ mapped \subseteq Sessions
    /\ bridge \in Bridges /\ step \in {"messages", "poll"}

(* A plugin has one controller, however many of its sockets are still open *)
(* on the daemon's side (remove_plugin_sessions_by_device).                *)
OneDeck ==
    \A s, t \in Controllers(bridge) : DeviceOf(s) = DeviceOf(t) => s = t

(* A late disconnect of a stale socket, or of another plugin, never takes  *)
(* the deck from the session that replaced it (daemon.rs, ControllerHello).*)
LiveDeckAttached ==
    \A s \in mapped \ deaf : reader[s] = "reading" => s \in Controllers(bridge)

(* Slots belong to a deck that is attached, the partitioned one excepted:  *)
(* no card is parked on an auxiliary deck that is gone.                    *)
SlotsAreServed ==
    \A d \in bridge.board \ {bridge.device} :
        \E s \in Controllers(bridge) : DeviceOf(s) = d

(* Again and again every deck that is attached shows what it should: one   *)
(* that fails is taken off and never keeps the others from being rendered, *)
(* although a failing primary ends the refresh (refresh_task_board).       *)
DecksCatchUp == []<>(Controllers(bridge) \subseteq bridge.shown)

(* The deck the daemon was started with becomes primary again once it is   *)
(* back, whatever plugins came and went in between                         *)
(* (reconnect_controller_if_due, ControllerHello).                         *)
DeckReturns ==
    []<>(bridge.choice = Hw => bridge.primary = Hw \/ ~plugged)

(* The slot owners a plugin asks for on the partitioned deck are applied,  *)
(* also when it comes back as an auxiliary controller                      *)
(* (primary_slot_overrides).                                               *)
WishesAreApplied ==
    []<>(\A s \in Controllers(bridge) \cap Sessions :
            plugin[s] = bridge.device => bridge.owners = said[s])
=============================================================================

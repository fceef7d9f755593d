-------------------------------- MODULE Keys --------------------------------
(***************************************************************************)
(* A task key and the mic key of a Stream Deck, from the finger to what    *)
(* the computer does: the plugin (task-card.ts, mic.ts), the lines it      *)
(* sends, the daemon that routes them (route_task_button, _action,         *)
(* _toggle and route_desktop_dictation of main.rs), the worker that drives *)
(* a desktop app (zcode_window.rs, hermes_window.rs) and the window that   *)
(* has the focus.  Agents move the cards about meanwhile.                  *)
(*                                                                         *)
(* Task mode is on and the key's slot is within the slots of its deck.     *)
(* Completion, review and pending selections are TaskBoard's; here a card  *)
(* has a place and may ask.  The plugin stays connected.                   *)
(***************************************************************************)
EXTENDS Integers, Sequences, FiniteSets

CONSTANTS
    Fed,           \* cards fed by the daemon from a desktop app
    Mirrored,      \* codex-hid cards: session 0, with a key of the Micro
    Apps,          \* desktop apps with dictation, in the order of the code
    Setups,        \* the app of the cards in Fed, a serial link or not, and
                   \* whether the deck is the primary controller
    MaxAttempts,   \* tries of the automation worker, 3
    MaxGestures,   \* bound: gestures on the two keys together
    MaxChanges,    \* bound: changes agents make to the board
    MaxSwitches    \* bound: times the user switches windows

Tasks == Fed \cup Mirrored
AppSet == {Apps[k] : k \in DOMAIN Apps}
Windows == AppSet \cup {"codex", "other"}
Gestures == 1 .. MaxGestures
Places == {"key", "off", "gone"}
None == "none"

ASSUME AppsAssumption ==
    /\ Apps \in Seq(AppSet) /\ Apps # <<>>
    /\ {"codex", "other", None} \cap AppSet = {}
ASSUME CardsAssumption ==
    /\ Fed \cap Mirrored = {} /\ None \notin Tasks
    /\ Setups \subseteq AppSet \X BOOLEAN \X BOOLEAN
ASSUME BoundsAssumption ==
    /\ MaxAttempts \in Nat \ {0}
    /\ {MaxGestures, MaxChanges, MaxSwitches} \subseteq Nat

VARIABLES
    app,      \* the desktop app whose sessions the cards in Fed are
    serial,   \* bridge.has_serial()
    primary,  \* the deck is bridge.controller, as with "--controller none"
    board,    \* place of each card, the asking ones, the selected one
    view,     \* the board as the plugin last heard of it
    key,      \* the task key: image, rendered target, upload, press
    mic,      \* finger on the mic key; open dictation flags; bar on screen
    wire,     \* lines of the plugin the daemon has not polled
    busy,     \* the app whose composer set_microphone is focusing, or None
    front,    \* the window in the foreground
    hid,      \* keys of the Micro that Codex has been told are down
    auto,     \* AUTOMATION_QUEUE and its worker
    saw,      \* history: the images a gesture may have been aimed at
    acts,     \* history: what each gesture made the sessions hear
    used      \* gestures, board changes and window switches so far

deck == <<view, key, saw>>
desk == <<mic, busy, front>>
vars == <<app, serial, primary, board, view, key, mic, wire, busy, front, hid,
          auto, saw, acts, used>>

Request == [task : Tasks, n : Gestures]
NoRequest == [task |-> None, n |-> 0]

TypeOK ==
    /\ app \in AppSet /\ {serial, primary} \subseteq BOOLEAN
    /\ board \in [place : [Tasks -> Places],
                  ask : SUBSET Tasks, selected : Tasks \cup {None}]
    /\ view.shown \in Tasks \cup {None}
    /\ key.image \in Tasks \cup {None} /\ key.target \in Tasks \cup {None}
    /\ key.gesture \in 0 .. MaxGestures
    /\ mic.open \subseteq Windows /\ mic.bar \in Windows \cup {None}
    /\ busy \in Windows \cup {None} /\ front \in Windows
    /\ hid \subseteq Mirrored \cup {"ACT10"}
    /\ auto.pending \in Request \cup {NoRequest}
    /\ auto.request \in Request \cup {NoRequest}
    /\ auto.attempt \in 0 .. MaxAttempts
    /\ saw \in [Gestures -> SUBSET (Tasks \cup {None})]

OnKey(b) ==
    IF \E t \in Tasks : b.place[t] = "key"
    THEN CHOOSE t \in Tasks : b.place[t] = "key" ELSE None
ViewOf(b) == [shown |-> OnKey(b), ask |-> b.ask, selected |-> b.selected]

Init ==
    /\ \E s \in Setups : app = s[1] /\ serial = s[2] /\ primary = s[3]
    /\ \E t \in Tasks : \E ask \in {{}, {t}} :
          board = [place |-> [u \in Tasks |-> IF u = t THEN "key" ELSE "off"],
                   ask |-> ask, selected |-> None]
    /\ view = ViewOf(board)
    /\ key = [image |-> view.shown, target |-> view.shown, upload |-> "idle",
              down |-> None, long |-> FALSE, gesture |-> 0]
    /\ mic = [down |-> FALSE, open |-> {}, bar |-> None]
    /\ wire = <<>> /\ busy = None /\ hid = {}
    /\ front \in Windows
    /\ auto = [pending |-> NoRequest, request |-> NoRequest, attempt |-> 0,
               asleep |-> FALSE, asked |-> 0, shown |-> 0, settled |-> 0]
    /\ saw = [g \in Gestures |-> {}] /\ acts = [g \in Gestures |-> <<>>]
    /\ used = [gestures |-> 0, changes |-> 0, switches |-> 0]

AgentApp(t) == IF t \in Fed THEN app ELSE "codex"

-----------------------------------------------------------------------------
(* The surroundings: agents, and the user's other hand.                    *)

(* Of two cards on the key the one that was there moves off.               *)
Placed(t, p) ==
    [place    |-> [u \in Tasks |->
                      IF u = t THEN p
                      ELSE IF p = "key" /\ board.place[u] = "key" THEN "off"
                      ELSE board.place[u]],
     ask      |-> IF p = "gone" THEN board.ask \ {t} ELSE board.ask,
     selected |-> IF p = "gone" /\ board.selected = t THEN None ELSE board.selected]

(* A card asks, or what it asked is answered elsewhere or expires.         *)
Asked(t) ==
    IF t \in board.ask THEN [board EXCEPT !.ask = @ \ {t}]
    ELSE IF board.place[t] = "gone" THEN board
    ELSE [board EXCEPT !.ask = @ \cup {t}]

ChangeBoard ==
    /\ used.changes < MaxChanges
    /\ used' = [used EXCEPT !.changes = @ + 1]
    /\ \E t \in Tasks : \E b \in {Asked(t)} \cup {Placed(t, p) : p \in Places} :
          board' = b
    /\ UNCHANGED <<app, serial, primary, deck, desk, wire, hid, auto, acts>>

SwitchWindow(w) ==
    /\ used.switches < MaxSwitches /\ w # front
    /\ used' = [used EXCEPT !.switches = @ + 1]
    /\ front' = w
    /\ UNCHANGED <<app, serial, primary, board, deck, mic, wire, busy, hid,
                   auto, acts>>

-----------------------------------------------------------------------------
(* The plugin.                                                             *)

(* A render line arrives; lines between it and the last are passed over.   *)
Render ==
    /\ view # ViewOf(board)
    /\ view' = ViewOf(board)
    /\ UNCHANGED <<app, serial, primary, board, key, desk, wire, hid, auto,
                   saw, acts, used>>

(* refresh: the image is uploaded, and only then is the key bound to it.   *)
StartUpload ==
    /\ key.upload = "idle" /\ key.target # view.shown
    /\ key' = [key EXCEPT !.upload = view.shown,
                          !.target = IF view.shown = None THEN None ELSE @]
    /\ UNCHANGED <<app, serial, primary, board, view, desk, wire, hid, auto,
                   saw, acts, used>>

ImageAppears ==
    /\ key.upload \notin {"idle", key.image}
    /\ key' = [key EXCEPT !.image = key.upload]
    /\ UNCHANGED <<app, serial, primary, board, view, desk, wire, hid, auto,
                   saw, acts, used>>

EndUpload ==
    /\ key.upload # "idle" /\ key.upload = key.image
    /\ key' = [key EXCEPT !.target = key.image, !.upload = "idle"]
    /\ UNCHANGED <<app, serial, primary, board, view, desk, wire, hid, auto,
                   saw, acts, used>>

Send(lines) == wire' = wire \o lines
Card(kind, t, down) == [kind |-> kind, task |-> t, down |-> down, g |-> key.gesture]
Mic(down) == [kind |-> "mic", task |-> None, down |-> down, g |-> 0]

(* onKeyDown: a key without a card does nothing.                           *)
KeyDown ==
    /\ key.down = None /\ used.gestures < MaxGestures /\ key.target # None
    /\ used' = [used EXCEPT !.gestures = @ + 1]
    /\ key' = [key EXCEPT !.down = key.target, !.gesture = used'.gestures]
    /\ saw' = [saw EXCEPT ![used'.gestures] =
                  {key.image} \cup IF key.upload # "idle" THEN {key.target} ELSE {}]
    /\ UNCHANGED <<app, serial, primary, board, view, desk, wire, hid, auto,
                   acts>>

Answerable(t) == t \in view.ask /\ view.selected = t

(* The timer of a long press.                                              *)
LongPress ==
    /\ key.down # None /\ ~key.long
    /\ key' = [key EXCEPT !.long = TRUE]
    /\ Send(<<Card(IF Answerable(key.down) THEN "action" ELSE "toggle",
                   key.down, TRUE)>>)
    /\ UNCHANGED <<app, serial, primary, board, view, desk, hid, auto, saw,
                   acts, used>>

Released == [key EXCEPT !.down = None, !.long = FALSE]
ShortLines(t) ==
    IF Answerable(t) THEN <<Card("action", t, TRUE)>>
    ELSE <<Card("button", t, TRUE), Card("button", t, FALSE)>>

KeyUp ==
    /\ key.down # None /\ key' = Released
    /\ Send(IF key.long THEN <<>> ELSE ShortLines(key.down))
    /\ UNCHANGED <<app, serial, primary, board, view, desk, hid, auto, saw,
                   acts, used>>

MicDown ==
    /\ ~mic.down /\ used.gestures < MaxGestures
    /\ used' = [used EXCEPT !.gestures = @ + 1]
    /\ mic' = [mic EXCEPT !.down = TRUE]
    /\ Send(<<Mic(TRUE)>>)
    /\ UNCHANGED <<app, serial, primary, board, deck, busy, front, hid, auto,
                   acts>>

MicUp ==
    /\ mic.down
    /\ mic' = [mic EXCEPT !.down = FALSE]
    /\ Send(<<Mic(FALSE)>>)
    /\ UNCHANGED <<app, serial, primary, board, deck, busy, front, hid, auto,
                   acts, used>>

-----------------------------------------------------------------------------
(* The daemon routes the lines in order.                                   *)

(* Mutant: an event is resolved by the slot alone.                         *)
ResolveBySlot(m) == OnKey(board)

(* resolve_task_target: a card that is gone makes the line inert.          *)
Resolve(m) == IF board.place[m.task] = "gone" THEN None ELSE m.task

Hear(t, g) == acts' = [acts EXCEPT ![g] = Append(@, t)]

(* The press of route_task_button: select_task needs a slot, and a card    *)
(* off the key may have another one; the desktop app of a fed card is      *)
(* driven whether or not the board selected it.                            *)
Select(t, g) ==
    /\ \/ /\ board.place[t] \in {"key", "off"}
          /\ board' = [board EXCEPT !.selected = t] /\ Hear(t, g)
       \/ board.place[t] # "key" /\ UNCHANGED <<board, acts>>
    /\ auto' = IF t \in Fed
               THEN [auto EXCEPT !.pending = [task |-> t, n |-> auto.asked + 1],
                                 !.asked = @ + 1]
               ELSE auto

(* The Micro key that a mirrored card stands for goes down and up with it. *)
MicroKey(t, down) ==
    hid' = IF t \notin Mirrored \/ ~serial THEN hid
           ELSE IF down THEN hid \cup {t} ELSE hid \ {t}

(* Mutant: the selection is not edge-triggered.                            *)
RouteButtonTwice(t, m) ==
    /\ Select(t, m.g) /\ MicroKey(t, m.down)
    /\ UNCHANGED <<front, mic, busy>>

RouteButton(t, m) ==
    /\ IF m.down THEN Select(t, m.g) ELSE UNCHANGED <<board, acts, auto>>
    /\ MicroKey(t, m.down)
    /\ UNCHANGED <<front, mic, busy>>

RouteAction(t, m) ==
    /\ IF t \in board.ask /\ board.selected = t THEN Hear(t, m.g) ELSE UNCHANGED acts
    /\ UNCHANGED <<board, auto, hid, front, mic, busy>>

(* Minimise the app in front, or select the card and raise its app, which  *)
(* Windows may refuse.                                                     *)
RouteToggle(t, m) ==
    /\ IF front = AgentApp(t)
       THEN front' = "other" /\ UNCHANGED <<board, acts, auto>>
       ELSE Select(t, m.g) /\ front' \in {front, AgentApp(t)}
    /\ UNCHANGED <<hid, mic, busy>>

(* Mutant: an open dictation is not remembered.                            *)
TalkerInFront == IF front \in AppSet THEN front ELSE "codex"

(* Whose mic it is: an app with an open dictation or in front, in the      *)
(* order of the code; otherwise Codex.                                     *)
Talker ==
    LET mine == {k \in DOMAIN Apps : Apps[k] \in mic.open \/ front = Apps[k]}
    IN  IF mine = {} THEN "codex"
        ELSE Apps[CHOOSE k \in mine : \A j \in mine : k <= j]

(* set_microphone.  The press checks the focus and then spends a script's  *)
(* time on the composer; the release types Escape if a press opened it.    *)
SetMicrophone(w, down) ==
    /\ IF down
       THEN IF front = w
            THEN busy' = w /\ UNCHANGED mic
            ELSE busy' = busy /\ mic' = [mic EXCEPT !.open = @ \ {w}]
       ELSE /\ mic' = [mic EXCEPT !.open = @ \ {w},
                                  !.bar = IF w \in mic.open THEN None ELSE @]
            /\ busy' = busy
    /\ UNCHANGED hid

RouteMic(m) ==
    /\ IF Talker = "codex" /\ serial
       THEN /\ hid' = IF m.down THEN hid \cup {"ACT10"} ELSE hid \ {"ACT10"}
            /\ UNCHANGED <<mic, busy>>
       ELSE SetMicrophone(Talker, m.down)
    /\ UNCHANGED <<board, acts, auto, front>>

Inert == UNCHANGED <<board, acts, auto, hid, front, mic, busy>>

RouteLine(t, m) ==
    \/ m.kind = "mic" /\ RouteMic(m)
    \/ m.kind = "button" /\ RouteButton(t, m)
    \/ m.kind = "action" /\ RouteAction(t, m)

(* poll_controller knows no toggle, and no key of the Micro is one.        *)
OnPrimary(t, m) ==
    \/ RouteLine(t, m)
    \/ m.kind = "toggle" /\ Inert

(* route_task_device_events.                                               *)
OnAuxiliary(t, m) ==
    \/ RouteLine(t, m)
    \/ m.kind = "toggle" /\ RouteToggle(t, m)

Route ==
    /\ wire # <<>> /\ busy = None
    /\ wire' = Tail(wire)
    /\ LET m == Head(wire)
           t == IF m.kind = "mic" THEN None ELSE Resolve(m)
       IN  IF m.kind # "mic" /\ t = None THEN Inert
           ELSE IF primary THEN OnPrimary(t, m) ELSE OnAuxiliary(t, m)
    /\ UNCHANGED <<app, serial, primary, deck, used>>

(* The composer has the focus, or not: Win+H only into the app itself.     *)
ComposerFocused ==
    /\ busy # None /\ busy' = None
    /\ mic' = IF front = busy
              THEN [mic EXCEPT !.open = @ \cup {busy}, !.bar = busy]
              ELSE [mic EXCEPT !.open = @ \ {busy}]
    /\ UNCHANGED <<app, serial, primary, board, deck, wire, front, hid, auto,
                   acts, used>>

ComposerFails ==
    /\ busy # None /\ busy' = None
    /\ UNCHANGED <<app, serial, primary, board, deck, mic, wire, front, hid,
                   auto, acts, used>>

-----------------------------------------------------------------------------
(* The automation worker of the app.  Hermes also gives a request up when  *)
(* a newer one is queued; ZCode looks between two tries.                   *)

Worker(a) ==
    /\ auto' = a
    /\ UNCHANGED <<app, serial, primary, board, deck, desk, wire, hid, acts, used>>
Idle(a) == [a EXCEPT !.request = NoRequest, !.attempt = 0, !.asleep = FALSE]
Trying == auto.request # NoRequest /\ ~auto.asleep

TakeRequest ==
    /\ auto.request = NoRequest /\ auto.pending # NoRequest
    /\ Worker([auto EXCEPT !.request = auto.pending, !.pending = NoRequest,
                           !.attempt = 1])

TrySucceeds ==
    /\ Trying
    /\ Worker(Idle([auto EXCEPT !.shown = auto.request.n,
                                !.settled = auto.request.n]))

TryFails ==
    /\ Trying /\ auto.attempt < MaxAttempts
    /\ Worker([auto EXCEPT !.asleep = TRUE])

LastTryFails ==
    /\ Trying /\ auto.attempt = MaxAttempts
    /\ Worker(Idle([auto EXCEPT !.settled = auto.request.n]))

Superseded ==
    /\ Trying /\ app = "hermes" /\ auto.asked # auto.request.n
    /\ Worker(Idle(auto))

(* Mutant: the older request is put back behind the newer one.             *)
WakeYielding ==
    /\ auto.asleep
    /\ Worker(IF auto.pending # NoRequest
              THEN [auto EXCEPT !.asleep = FALSE, !.attempt = 1,
                                !.request = auto.pending, !.pending = auto.request]
              ELSE [auto EXCEPT !.asleep = FALSE, !.attempt = @ + 1])

(* Mutant: the worker gives up both requests.                              *)
WakeDropping ==
    /\ auto.asleep
    /\ Worker(IF auto.pending # NoRequest
              THEN Idle([auto EXCEPT !.pending = NoRequest])
              ELSE [auto EXCEPT !.asleep = FALSE, !.attempt = @ + 1])

Wake ==
    /\ auto.asleep
    /\ Worker(IF auto.pending # NoRequest THEN Idle(auto)
              ELSE [auto EXCEPT !.asleep = FALSE, !.attempt = @ + 1])

-----------------------------------------------------------------------------
Plugin ==
    \/ Render \/ StartUpload \/ ImageAppears \/ EndUpload
    \/ KeyDown \/ LongPress \/ KeyUp \/ MicDown \/ MicUp
Daemon == Route \/ ComposerFocused \/ ComposerFails
Automation ==
    TakeRequest \/ TrySucceeds \/ TryFails \/ LastTryFails \/ Superseded \/ Wake

Next ==
    \/ ChangeBoard
    \/ \E w \in Windows : SwitchWindow(w)
    \/ Plugin \/ Daemon \/ Automation

Spec == Init /\ [][Next]_vars

(* The worker thread runs; a script that is tried ends one way or another. *)
FairSpec == Spec /\ WF_vars(Automation)

-----------------------------------------------------------------------------
(* Properties.                                                             *)

(* A gesture acts on the card whose picture the finger was aimed at, or on *)
(* none: "resolving the slot again here could activate a different task"   *)
(* (task-card.ts, onKeyDown).  While a picture is being uploaded the key   *)
(* still means the one it replaces.                                        *)
ActsOnTheShownCard ==
    \A g \in Gestures : \A k \in DOMAIN acts[g] : acts[g][k] \in saw[g]

(* One gesture is one selection or one answer: the release and the timer   *)
(* of a long press add nothing to it ("emitting task_selected twice makes  *)
(* one click execute twice", route_task_button).                           *)
OneGestureOneAct == \A g \in Gestures : Len(acts[g]) <= 1

(* A desktop app that was driven to the session of a press is never driven *)
(* back to that of an earlier one (run_request, "A newer press supersedes  *)
(* this retry loop").                                                      *)
NoOlderSession == [][auto'.shown >= auto.shown]_vars

(* A press on a fed card is not forgotten by the worker: its session, or   *)
(* that of a later press, is shown or has been tried to the last attempt   *)
(* (queue_request).                                                        *)
PressesAreSettled ==
    \A n \in Gestures : auto.asked >= n ~> auto.settled >= n

MicAtRest ==
    /\ ~mic.down /\ busy = None
    /\ \A k \in DOMAIN wire : wire[k].kind # "mic"

(* "The bridge remembers that it opened the dictation bar, so the release  *)
(* always closes it even if ... you switched windows mid-hold" (docs/      *)
(* ZCode_integration.md, docs/Hermes_integration.md; microphone_active).   *)
ReleaseClosesDictation ==
    MicAtRest => mic.open \cap AppSet = {} /\ mic.bar \notin AppSet

(* The same of the app the code asks first: an open dictation of it takes  *)
(* the release whatever window is in front.                                *)
FirstAppIsClosed ==
    MicAtRest => Apps[1] \notin mic.open /\ mic.bar # Apps[1]
=============================================================================

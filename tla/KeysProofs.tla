----------------------------- MODULE KeysProofs -----------------------------
(***************************************************************************)
(* Theorems about Keys for every set of cards, list of apps and bound.     *)
(*                                                                         *)
(* The inductive invariant follows a gesture from the finger to the        *)
(* sessions: a key that is bound to a card shows its picture (UploadInv);  *)
(* what is down, and what is on its way to the daemon, was shown when the  *)
(* finger came down (PressInv, WireInv); and the lines that act are in the *)
(* order of their gestures, all of them later than anything that has acted *)
(* (PressInv, WireInv, ActInv).  Beside it stand the order of the requests *)
(* of the automation worker (AutoInv), and the alternation of presses and  *)
(* releases of the mic key on the wire, of which the next one is a release *)
(* while the dictation of the first app is open or about to open (MicInv). *)
(***************************************************************************)
EXTENDS Keys, SequenceTheorems, TLAPS

Lines ==
    [kind : {"button", "action", "toggle"}, task : Tasks, down : BOOLEAN, g : Gestures]
    \cup [kind : {"mic"}, task : {None}, down : BOOLEAN, g : {0}]

KeyStates ==
    [image : Tasks \cup {None}, target : Tasks \cup {None},
     upload : Tasks \cup {None, "idle"}, down : Tasks \cup {None},
     long : BOOLEAN, gesture : 0 .. MaxGestures]

MicStates == [down : BOOLEAN, open : SUBSET Windows, bar : Windows \cup {None}]

Workers ==
    [pending : Request \cup {NoRequest}, request : Request \cup {NoRequest},
     attempt : 0 .. MaxAttempts, asleep : BOOLEAN, asked : 0 .. MaxGestures,
     shown : 0 .. MaxGestures, settled : 0 .. MaxGestures]

Counts == [gestures : 0 .. MaxGestures, changes : 0 .. MaxChanges,
           switches : 0 .. MaxSwitches]

TypeInv ==
    /\ TypeOK
    /\ key \in KeyStates /\ mic \in MicStates /\ auto \in Workers /\ used \in Counts
    /\ wire \in Seq(Lines)
    /\ acts \in [Gestures -> Seq(Tasks)]
    /\ auto.asleep => auto.request # NoRequest /\ auto.attempt < MaxAttempts

(* A line that can make a session hear something.                          *)
Loud(m) == m.kind # "mic" /\ m.down

(* Nothing has been heard of g or of a later gesture.                      *)
Unheard(g) == \A h \in Gestures : h >= g => acts[h] = <<>>

UploadInv == key.upload = "idle" => key.target = key.image

PressInv ==
    /\ key.gesture <= used.gestures
    /\ key.down # None => key.gesture \in Gestures /\ key.down \in saw[key.gesture]
    /\ key.down # None /\ ~key.long =>
          /\ auto.asked < key.gesture
          /\ Unheard(key.gesture)
          /\ \A k \in DOMAIN wire : Loud(wire[k]) => wire[k].g < key.gesture

WireInv ==
    /\ \A k \in DOMAIN wire : wire[k].kind # "mic" =>
          /\ wire[k].g <= used.gestures
          /\ wire[k].task \in saw[wire[k].g]
          /\ wire[k].kind # "button" => wire[k].down
    /\ \A k \in DOMAIN wire : Loud(wire[k]) => auto.asked < wire[k].g /\ Unheard(wire[k].g)
    /\ \A j, k \in DOMAIN wire :
          j < k /\ Loud(wire[j]) /\ Loud(wire[k]) => wire[j].g < wire[k].g

ActInv ==
    /\ auto.asked <= used.gestures
    /\ \A g \in Gestures : g > used.gestures => acts[g] = <<>>
    /\ ActsOnTheShownCard
    /\ OneGestureOneAct

GestureInv == UploadInv /\ PressInv /\ WireInv /\ ActInv

AutoInv ==
    /\ auto.shown <= auto.asked
    /\ auto.request # NoRequest =>
          auto.shown <= auto.request.n /\ auto.request.n <= auto.asked
    /\ auto.pending # NoRequest =>
          /\ auto.shown <= auto.pending.n /\ auto.request.n <= auto.pending.n
          /\ auto.pending.n <= auto.asked

(* No line between the j-th and the k-th of w is of the mic key.           *)
NoMic(w, j, k) == \A i \in DOMAIN w : j < i /\ i < k => w[i].kind # "mic"

(* The first app has an open dictation or is about to get one.             *)
Engaged == Apps[1] \in mic.open \/ busy = Apps[1]

MicInv ==
    /\ mic.bar = Apps[1] => Apps[1] \in mic.open
    /\ busy = Apps[1] => Apps[1] \notin mic.open
    /\ \A k \in DOMAIN wire :
          wire[k].kind = "mic" /\ NoMic(wire, k, Len(wire) + 1) => wire[k].down = mic.down
    /\ \A j, k \in DOMAIN wire :
          j < k /\ wire[j].kind = "mic" /\ wire[k].kind = "mic" /\ NoMic(wire, j, k)
              => wire[j].down # wire[k].down
    /\ Engaged => /\ \A k \in DOMAIN wire :
                        wire[k].kind = "mic" /\ NoMic(wire, 0, k) => ~wire[k].down
                  /\ NoMic(wire, 0, Len(wire) + 1) => mic.down

Inv == TypeInv /\ GestureInv /\ AutoInv /\ MicInv

-----------------------------------------------------------------------------
Constants ==
    /\ Apps \in Seq(AppSet) /\ Apps # <<>> /\ Apps[1] \in AppSet /\ 1 \in DOMAIN Apps
    /\ DOMAIN Apps \subseteq Nat /\ \A k \in DOMAIN Apps : Apps[k] \in AppSet /\ 1 <= k
    /\ "codex" \notin AppSet /\ "other" \notin AppSet /\ None \notin AppSet
    /\ Fed \cap Mirrored = {} /\ None \notin Tasks
    /\ MaxAttempts \in Nat \ {0} /\ MaxGestures \in Nat
    /\ MaxChanges \in Nat /\ MaxSwitches \in Nat
    /\ AppSet \subseteq Windows /\ "codex" \in Windows /\ "other" \in Windows
    /\ Fed \subseteq Tasks /\ Mirrored \subseteq Tasks
    /\ Gestures = 1 .. MaxGestures /\ NoRequest \notin Request

LEMMA ConstantsHold == Constants
<1>1. /\ Apps \in Seq(AppSet) /\ Len(Apps) \in Nat /\ DOMAIN Apps = 1 .. Len(Apps)
      /\ Apps # <<>>
  BY AppsAssumption, LenProperties
<1>2. Len(Apps) # 0
  BY <1>1, EmptySeq
<1>3. \A k \in DOMAIN Apps : Apps[k] \in AppSet
  BY <1>1, ElementOfSeq
<1>4. NoRequest \notin Request
  BY CardsAssumption DEF NoRequest, Request
<1>5. {"codex", "other", None} \cap AppSet = {} /\ None \notin Tasks /\ Fed \cap Mirrored = {}
  BY AppsAssumption, CardsAssumption
<1>6. /\ MaxAttempts \in Nat \ {0} /\ MaxGestures \in Nat
      /\ MaxChanges \in Nat /\ MaxSwitches \in Nat
  BY BoundsAssumption
<1>7. /\ AppSet \subseteq Windows /\ "codex" \in Windows /\ "other" \in Windows
      /\ Fed \subseteq Tasks /\ Mirrored \subseteq Tasks /\ Gestures = 1 .. MaxGestures
  BY DEF Windows, Tasks, Gestures
<1>8. /\ 1 \in DOMAIN Apps /\ DOMAIN Apps \subseteq Nat
      /\ \A k \in DOMAIN Apps : 1 <= k
  BY <1>1, <1>2
<1> QED
  BY <1>1, <1>3, <1>4, <1>5, <1>6, <1>7, <1>8 DEF Constants

(* What is sent is behind everything else on the wire.                     *)
LEMMA LinesSent ==
    ASSUME wire \in Seq(Lines), NEW lines \in Seq(Lines), wire' = wire \o lines
    PROVE  /\ wire' \in Seq(Lines) /\ Len(wire) \in Nat /\ Len(lines) \in Nat
           /\ Len(wire') = Len(wire) + Len(lines)
           /\ DOMAIN wire = 1 .. Len(wire) /\ DOMAIN lines = 1 .. Len(lines)
           /\ DOMAIN wire' = 1 .. Len(wire) + Len(lines)
           /\ \A k \in 1 .. Len(wire) : wire'[k] = wire[k]
           /\ \A k \in 1 .. Len(lines) : wire'[Len(wire) + k] = lines[k]
           /\ \A k \in DOMAIN wire' :
                 k \in DOMAIN wire \/ \E i \in DOMAIN lines : k = Len(wire) + i
<1>1. /\ Len(wire) \in Nat /\ Len(lines) \in Nat
      /\ DOMAIN wire = 1 .. Len(wire) /\ DOMAIN lines = 1 .. Len(lines)
  BY LenProperties
<1>2. /\ wire' \in Seq(Lines) /\ Len(wire') = Len(wire) + Len(lines)
      /\ \A i \in 1 .. Len(wire) + Len(lines) :
            wire'[i] = IF i <= Len(wire) THEN wire[i] ELSE lines[i - Len(wire)]
  BY ConcatProperties
<1>3. DOMAIN wire' = 1 .. Len(wire) + Len(lines)
  BY <1>2, LenProperties
<1>4. \A k \in 1 .. Len(lines) : wire'[Len(wire) + k] = lines[k]
  <2> SUFFICES ASSUME NEW k \in 1 .. Len(lines)
               PROVE  wire'[Len(wire) + k] = lines[k]
    OBVIOUS
  <2>1. /\ Len(wire) + k \in 1 .. Len(wire) + Len(lines)
        /\ ~(Len(wire) + k <= Len(wire)) /\ (Len(wire) + k) - Len(wire) = k
    BY <1>1
  <2> QED
    BY <1>2, <2>1
<1>5. ASSUME NEW k \in DOMAIN wire', k \notin DOMAIN wire
      PROVE  \E i \in DOMAIN lines : k = Len(wire) + i
  <2>1. k - Len(wire) \in DOMAIN lines /\ k = Len(wire) + (k - Len(wire))
    BY <1>1, <1>3, <1>5
  <2> QED
    BY <2>1
<1> QED
  BY <1>1, <1>2, <1>3, <1>4, <1>5

LEMMA LineTaken ==
    ASSUME wire \in Seq(Lines), wire # <<>>, wire' = Tail(wire)
    PROVE  /\ wire' \in Seq(Lines) /\ Len(wire) \in Nat \ {0}
           /\ Len(wire') = Len(wire) - 1
           /\ DOMAIN wire = 1 .. Len(wire) /\ DOMAIN wire' = 1 .. Len(wire) - 1
           /\ Head(wire) = wire[1] /\ Head(wire) \in Lines
           /\ \A k \in DOMAIN wire' : wire'[k] = wire[k + 1] /\ k + 1 \in DOMAIN wire
BY HeadTailProperties, LenProperties, EmptySeq

LEMMA LinesOnWire ==
    ASSUME wire \in Seq(Lines)
    PROVE  \A k \in DOMAIN wire :
              /\ wire[k] \in Lines
              /\ wire[k].kind # "mic" => wire[k].g \in Gestures /\ wire[k].task \in Tasks
<1>1. \A k \in DOMAIN wire : wire[k] \in Lines
  BY LenProperties, ElementOfSeq
<1> QED
  BY <1>1 DEF Lines

-----------------------------------------------------------------------------
(* Parts that a step leaves alone.                                         *)
LEMMA GestureKept ==
    ASSUME GestureInv, UNCHANGED <<key, saw, wire, acts>>, auto'.asked = auto.asked,
           used'.gestures = used.gestures
    PROVE  GestureInv'
BY DEF GestureInv, UploadInv, PressInv, WireInv, ActInv, Unheard, Loud,
       ActsOnTheShownCard, OneGestureOneAct

LEMMA MicKept ==
    ASSUME MicInv, UNCHANGED <<wire, mic, busy>>
    PROVE  MicInv'
BY DEF MicInv, NoMic, Engaged

LEMMA AutoKept ==
    ASSUME AutoInv, UNCHANGED auto
    PROVE  AutoInv'
BY DEF AutoInv

-----------------------------------------------------------------------------
(* The plugin sends lines.                                                 *)

(* Lines of the task key come between those of the mic key.                *)
LEMMA CardsSent ==
    ASSUME MicInv, wire \in Seq(Lines), NEW lines \in Seq(Lines), wire' = wire \o lines,
           \A i \in DOMAIN lines : lines[i].kind # "mic",
           UNCHANGED <<mic, busy>>
    PROVE  MicInv'
<1>1. /\ Len(wire) \in Nat /\ Len(lines) \in Nat /\ Len(wire') = Len(wire) + Len(lines)
      /\ DOMAIN wire = 1 .. Len(wire) /\ DOMAIN wire' = 1 .. Len(wire')
      /\ \A k \in DOMAIN wire : wire'[k] = wire[k]
      /\ \A k \in DOMAIN wire' : wire'[k].kind = "mic" => k \in DOMAIN wire
  BY LinesSent
<1>2. \A k \in DOMAIN wire : wire'[k].kind = "mic" <=> wire[k].kind = "mic"
  BY <1>1
<1>3. \A k \in DOMAIN wire' : wire'[k].kind = "mic" => k \in DOMAIN wire
  BY <1>1
<1>4. ASSUME NEW j \in Nat, NEW k \in Nat, k <= Len(wire) + 1, NoMic(wire', j, k)
      PROVE  NoMic(wire, j, k)
  BY <1>1, <1>2, <1>4 DEF NoMic
<1>5. ASSUME NEW j \in Nat, NoMic(wire', j, Len(wire') + 1)
      PROVE  NoMic(wire, j, Len(wire) + 1)
  BY <1>1, <1>2, <1>5 DEF NoMic
<1>6. \A k \in DOMAIN wire : wire'[k].down = wire[k].down /\ k \in Nat /\ k <= Len(wire) + 1
  BY <1>1
<1>7. \A k \in DOMAIN wire' :
         wire'[k].kind = "mic" /\ NoMic(wire', k, Len(wire') + 1) => wire'[k].down = mic.down
  BY <1>1, <1>2, <1>3, <1>5, <1>6 DEF MicInv
<1>8. \A j, k \in DOMAIN wire' :
         j < k /\ wire'[j].kind = "mic" /\ wire'[k].kind = "mic" /\ NoMic(wire', j, k)
            => wire'[j].down # wire'[k].down
  BY <1>1, <1>2, <1>3, <1>4, <1>6 DEF MicInv
<1>9. Engaged => /\ \A k \in DOMAIN wire' :
                       wire'[k].kind = "mic" /\ NoMic(wire', 0, k) => ~wire'[k].down
                 /\ NoMic(wire', 0, Len(wire') + 1) => mic.down
  BY <1>1, <1>2, <1>3, <1>4, <1>5, <1>6 DEF MicInv
<1> QED
  BY <1>7, <1>8, <1>9 DEF MicInv, Engaged

(* A line of the mic key is the opposite of the one before it.             *)
LEMMA MicSent ==
    ASSUME MicInv, mic \in MicStates, wire \in Seq(Lines), NEW d \in BOOLEAN,
           mic.down = ~d, wire' = wire \o <<Mic(d)>>,
           mic'.down = d, mic'.open = mic.open, mic'.bar = mic.bar,
           UNCHANGED busy
    PROVE  MicInv' /\ wire' \in Seq(Lines)
<1> DEFINE n == Len(wire) + 1
<1>1. Mic(d) \in Lines /\ Mic(d).kind = "mic" /\ Mic(d).down = d
  BY DEF Lines, Mic
<1>2. wire \o <<Mic(d)>> = Append(wire, Mic(d))
  BY <1>1, AppendIsConcat
<1>3. /\ wire' \in Seq(Lines) /\ Len(wire) \in Nat /\ Len(wire') = n
      /\ DOMAIN wire = 1 .. Len(wire) /\ DOMAIN wire' = 1 .. n
      /\ \A k \in DOMAIN wire : wire'[k] = wire[k]
      /\ wire'[n] = Mic(d)
  BY <1>1, <1>2, AppendProperties, LenProperties
<1>4. \A k \in DOMAIN wire : wire'[k].kind = "mic" <=> wire[k].kind = "mic"
  BY <1>3
<1>5. wire'[n].kind = "mic" /\ wire'[n].down = d
  BY <1>1, <1>3
<1>6. ASSUME NEW j \in Nat, NEW k \in Nat, k <= n, NoMic(wire', j, k)
      PROVE  NoMic(wire, j, k)
  BY <1>3, <1>4, <1>6 DEF NoMic
<1>7. \A k \in DOMAIN wire' : k # n => ~NoMic(wire', k, Len(wire') + 1)
  BY <1>3, <1>5 DEF NoMic
<1>8. ~NoMic(wire', 0, Len(wire') + 1)
  BY <1>3, <1>5 DEF NoMic
<1>9. \A k \in DOMAIN wire' :
         wire'[k].kind = "mic" /\ NoMic(wire', k, Len(wire') + 1) => wire'[k].down = mic'.down
  BY <1>5, <1>7
<1>10. ASSUME NEW j \in DOMAIN wire', NEW k \in DOMAIN wire', j < k, wire'[j].kind = "mic", wire'[k].kind = "mic",
              NoMic(wire', j, k)
       PROVE  wire'[j].down # wire'[k].down
  <2>1. j \in DOMAIN wire /\ wire[j].kind = "mic" /\ NoMic(wire, j, k) /\ wire'[j] = wire[j]
    BY <1>3, <1>4, <1>6, <1>10
  <2>2. CASE k = n
    BY <1>5, <2>1, <2>2 DEF MicInv
  <2>3. CASE k # n
    <3>1. k \in DOMAIN wire /\ wire'[k] = wire[k] /\ wire[k].kind = "mic"
      BY <1>3, <1>4, <1>10, <2>3
    <3> QED
      BY <1>10, <2>1, <3>1 DEF MicInv
  <2> QED
    BY <2>2, <2>3
<1>11. ASSUME Engaged, NEW k \in DOMAIN wire', wire'[k].kind = "mic", NoMic(wire', 0, k)
       PROVE  ~wire'[k].down
  <2>1. NoMic(wire, 0, k)
    BY <1>3, <1>6, <1>11
  <2>2. CASE k = n
    <3>1. mic.down
      BY <1>11, <2>1, <2>2 DEF MicInv
    <3> QED
      BY <1>5, <2>2, <3>1
  <2>3. CASE k # n
    <3>1. k \in DOMAIN wire /\ wire'[k] = wire[k] /\ wire[k].kind = "mic"
      BY <1>3, <1>4, <1>11, <2>3
    <3> QED
      BY <1>11, <2>1, <3>1 DEF MicInv
  <2> QED
    BY <2>2, <2>3
<1>12. Engaged' <=> Engaged
  BY DEF Engaged
<1> QED
  BY <1>3, <1>8, <1>9, <1>10, <1>11, <1>12 DEF MicInv

(* One of the lines a gesture sends can be heard, and it is the first.     *)
LEMMA GestureSent ==
    ASSUME TypeInv, GestureInv, NEW lines \in Seq(Lines), wire' = wire \o lines,
           \A i \in DOMAIN lines :
              /\ lines[i].kind # "mic" /\ lines[i].g = key.gesture /\ lines[i].task = key.down
              /\ lines[i].kind # "button" => lines[i].down
              /\ Loud(lines[i]) => i = 1,
           key.down # None, lines # <<>> => ~key.long,
           key' \in KeyStates, key'.gesture = key.gesture, key'.image = key.image,
           key'.target = key.target, key'.upload = key.upload,
           key'.down \in {key.down, None}, key'.down # None => key'.long,
           UNCHANGED <<saw, acts, auto, used>>
    PROVE  GestureInv' /\ wire' \in Seq(Lines)
<1>1. /\ wire \in Seq(Lines) /\ key.gesture \in Gestures /\ key.down \in saw[key.gesture]
      /\ key.gesture <= used.gestures
  BY DEF TypeInv, GestureInv, PressInv
<1>2. /\ wire' \in Seq(Lines) /\ Len(wire) \in Nat /\ Len(lines) \in Nat
      /\ DOMAIN wire = 1 .. Len(wire) /\ DOMAIN lines = 1 .. Len(lines)
      /\ \A k \in DOMAIN wire : wire'[k] = wire[k]
      /\ \A k \in DOMAIN lines : wire'[Len(wire) + k] = lines[k]
      /\ \A k \in DOMAIN wire' :
            k \in DOMAIN wire \/ \E i \in DOMAIN lines : k = Len(wire) + i
  BY <1>1, LinesSent
<1>3. \A k \in DOMAIN wire :
        Loud(wire[k]) => /\ auto.asked < wire[k].g
                         /\ \A h \in Gestures : h >= wire[k].g => acts[h] = <<>>
  BY DEF GestureInv, WireInv, Unheard
<1>4. ASSUME NEW i \in DOMAIN lines, Loud(lines[i])
      PROVE  /\ auto.asked < lines[i].g
             /\ \A h \in Gestures : h >= lines[i].g => acts[h] = <<>>
             /\ \A k \in DOMAIN wire : Loud(wire[k]) => wire[k].g < lines[i].g
  <2>1. lines # <<>>
    BY <1>2, <1>4
  <2> QED
    BY <2>1 DEF GestureInv, PressInv, Unheard
<1>5. \A k \in DOMAIN wire' : wire'[k].kind # "mic" =>
         /\ wire'[k].g <= used.gestures /\ wire'[k].task \in saw[wire'[k].g]
         /\ wire'[k].kind # "button" => wire'[k].down
  BY <1>1, <1>2 DEF GestureInv, WireInv
<1>6. \A k \in DOMAIN wire' : Loud(wire'[k]) =>
         auto.asked < wire'[k].g /\ \A h \in Gestures : h >= wire'[k].g => acts[h] = <<>>
  BY <1>2, <1>3, <1>4
<1>7. ASSUME NEW j \in DOMAIN wire', NEW k \in DOMAIN wire', j < k,
             Loud(wire'[j]), Loud(wire'[k])
      PROVE  wire'[j].g < wire'[k].g
  <2>1. CASE k \in DOMAIN wire
    BY <1>2, <1>7, <2>1 DEF GestureInv, WireInv
  <2>2. ASSUME NEW i \in DOMAIN lines, k = Len(wire) + i
        PROVE  wire'[j].g < wire'[k].g
    <3>1. wire'[k] = lines[i] /\ i = 1
      BY <1>2, <1>7, <2>2
    <3>2. j \in DOMAIN wire
      BY <1>2, <1>7, <2>2, <3>1
    <3> QED
      BY <1>2, <1>4, <1>7, <3>1, <3>2
  <2> QED
    BY <1>2, <2>1, <2>2
<1>8. WireInv'
  BY <1>5, <1>6, <1>7 DEF WireInv, Unheard, Loud
<1>9. UploadInv' /\ PressInv' /\ ActInv'
  BY <1>1 DEF GestureInv, UploadInv, PressInv, ActInv, ActsOnTheShownCard, OneGestureOneAct
<1> QED
  BY <1>2, <1>8, <1>9 DEF GestureInv

-----------------------------------------------------------------------------
(* The steps.                                                              *)
Boards == [place : [Tasks -> Places], ask : SUBSET Tasks, selected : Tasks \cup {None}]

LEMMA OnKeyType ==
    ASSUME NEW b
    PROVE  OnKey(b) \in Tasks \cup {None} /\ ViewOf(b).shown = OnKey(b)
BY DEF OnKey, ViewOf

LEMMA InitInv == Init => Inv
<1> SUFFICES ASSUME Init
             PROVE  Inv
  OBVIOUS
<1> USE ConstantsHold DEF Constants
<1>1. PICK s \in Setups : app = s[1] /\ serial = s[2] /\ primary = s[3]
  BY DEF Init
<1>2. s \in AppSet \X BOOLEAN \X BOOLEAN
  BY CardsAssumption
<1>3. app \in AppSet /\ {serial, primary} \subseteq BOOLEAN
  BY <1>1, <1>2
<1>4. board \in Boards
  BY DEF Init, Boards, Places
<1>5. view.shown \in Tasks \cup {None}
  BY OnKeyType DEF Init
<1>6. /\ key = [image |-> view.shown, target |-> view.shown, upload |-> "idle",
                down |-> None, long |-> FALSE, gesture |-> 0]
      /\ mic = [down |-> FALSE, open |-> {}, bar |-> None]
      /\ wire = <<>> /\ busy = None /\ hid = {} /\ front \in Windows
      /\ auto = [pending |-> NoRequest, request |-> NoRequest, attempt |-> 0,
                 asleep |-> FALSE, asked |-> 0, shown |-> 0, settled |-> 0]
      /\ saw = [g \in Gestures |-> {}] /\ acts = [g \in Gestures |-> <<>>]
      /\ used = [gestures |-> 0, changes |-> 0, switches |-> 0]
  BY DEF Init
<1>7. wire \in Seq(Lines) /\ DOMAIN wire = {} /\ Len(wire) = 0 /\ <<>> \in Seq(Tasks)
  BY <1>6, EmptySeq
<1>8. key \in KeyStates /\ mic \in MicStates /\ auto \in Workers /\ used \in Counts
  BY <1>5, <1>6 DEF KeyStates, MicStates, Workers, Counts
<1>9. TypeInv
  BY <1>3, <1>4, <1>5, <1>6, <1>7, <1>8 DEF TypeInv, TypeOK, KeyStates, MicStates, Workers, Boards
<1>10. GestureInv
  BY <1>6, <1>7 DEF GestureInv, UploadInv, PressInv, WireInv, ActInv, ActsOnTheShownCard,
     OneGestureOneAct
<1>11. AutoInv /\ MicInv
  BY <1>6, <1>7 DEF AutoInv, MicInv, Engaged
<1> QED
  BY <1>9, <1>10, <1>11 DEF Inv

(* The board, the window in front and what the plugin has heard change.    *)
LEMMA SurroundingsKeepInv ==
    Inv /\ (ChangeBoard \/ (\E w \in Windows : SwitchWindow(w)) \/ Render \/ UNCHANGED vars)
        => Inv'
<1> SUFFICES ASSUME Inv,
                    ChangeBoard \/ (\E w \in Windows : SwitchWindow(w)) \/ Render
                       \/ UNCHANGED vars
             PROVE  Inv'
  OBVIOUS
<1> USE ConstantsHold DEF Constants
<1>1. TypeInv /\ TypeOK /\ GestureInv /\ AutoInv /\ MicInv /\ board \in Boards /\ used \in Counts
  BY DEF Inv, TypeInv, TypeOK, Boards
<1>2. UNCHANGED <<app, serial, primary, key, mic, wire, busy, hid, auto, saw, acts>>
  BY DEF ChangeBoard, SwitchWindow, Render, vars, deck, desk
<1>3. used' \in Counts /\ used'.gestures = used.gestures
  <2>1. CASE ChangeBoard
    BY <1>1, <2>1 DEF ChangeBoard, Counts
  <2>2. ASSUME NEW w \in Windows, SwitchWindow(w)
        PROVE  used' \in Counts /\ used'.gestures = used.gestures
    BY <1>1, <2>2 DEF SwitchWindow, Counts
  <2>3. CASE Render \/ UNCHANGED vars
    BY <1>1, <2>3 DEF Render, vars
  <2> QED
    BY <2>1, <2>2, <2>3
<1>4. board' \in Boards
  <2>1. ASSUME NEW t \in Tasks, NEW p \in Places
        PROVE  Placed(t, p) \in Boards
    <3>1. board.place \in [Tasks -> Places] /\ board.ask \subseteq Tasks
          /\ board.selected \in Tasks \cup {None}
      BY <1>1 DEF Boards
    <3>2. [u \in Tasks |-> IF u = t THEN p
                           ELSE IF p = "key" /\ board.place[u] = "key" THEN "off"
                           ELSE board.place[u]] \in [Tasks -> Places]
      BY <3>1 DEF Places
    <3> QED
      BY <3>1, <3>2 DEF Placed, Boards
  <2>2. ASSUME NEW t \in Tasks
        PROVE  Asked(t) \in Boards
    BY <1>1 DEF Asked, Boards
  <2>3. CASE ChangeBoard
    BY <2>1, <2>2, <2>3 DEF ChangeBoard
  <2>4. CASE UNCHANGED board
    BY <1>1, <2>4
  <2> QED
    BY <2>3, <2>4 DEF SwitchWindow, Render, vars
<1>5. view'.shown \in Tasks \cup {None}
  <2>1. CASE Render
    BY <2>1, OnKeyType DEF Render
  <2>2. CASE UNCHANGED view
    BY <1>1, <2>2 DEF TypeOK
  <2> QED
    BY <2>1, <2>2 DEF ChangeBoard, SwitchWindow, deck, vars
<1>6. front' \in Windows
  <2>1. front' \in Windows \/ front' = front
    BY DEF ChangeBoard, SwitchWindow, Render, desk, vars
  <2> QED
    BY <1>1, <2>1 DEF TypeOK
<1>7. TypeInv'
  BY <1>1, <1>2, <1>3, <1>4, <1>5, <1>6 DEF TypeInv, TypeOK, Boards
<1> QED
  BY <1>1, <1>2, <1>3, <1>7, GestureKept, MicKept, AutoKept DEF Inv

(* An upload: while it runs the key is bound to the picture it replaces.   *)
LEMMA UploadKeepsInv == Inv /\ (StartUpload \/ ImageAppears \/ EndUpload) => Inv'
<1> SUFFICES ASSUME Inv, StartUpload \/ ImageAppears \/ EndUpload
             PROVE  Inv'
  OBVIOUS
<1>1. TypeInv /\ TypeOK /\ GestureInv /\ AutoInv /\ MicInv /\ key \in KeyStates
      /\ view.shown \in Tasks \cup {None}
  BY DEF Inv, TypeInv, TypeOK
<1>2. UNCHANGED <<app, serial, primary, board, view, mic, wire, busy, front, hid, auto,
                  saw, acts, used>>
  BY DEF StartUpload, ImageAppears, EndUpload, desk
<1>3. /\ key' \in KeyStates /\ key'.down = key.down /\ key'.long = key.long
      /\ key'.gesture = key.gesture
      /\ UploadInv'
  <2>1. CASE StartUpload
    <3>1. /\ key.target = key.image
          /\ key' = [key EXCEPT !.upload = view.shown,
                                !.target = IF view.shown = None THEN None ELSE key.target]
      BY <1>1, <2>1 DEF StartUpload, GestureInv, UploadInv
    <3> DEFINE target == IF view.shown = None THEN None ELSE key.target
    <3>2. /\ key' = [key EXCEPT !.upload = view.shown, !.target = target]
          /\ target \in Tasks \cup {None}
      BY <1>1, <3>1 DEF KeyStates
    <3>3. view.shown # None => target = key.target
      OBVIOUS
    <3> HIDE DEF target
    <3>4. /\ key' \in KeyStates /\ key'.down = key.down /\ key'.long = key.long
          /\ key'.gesture = key.gesture /\ key'.image = key.image
          /\ key'.upload = view.shown /\ key'.target = target
      BY <1>1, <3>2 DEF KeyStates
    <3>5. None # "idle"
      BY DEF None
    <3> QED
      BY <3>1, <3>3, <3>4, <3>5 DEF UploadInv
  <2>2. CASE ImageAppears
    BY <1>1, <2>2 DEF ImageAppears, KeyStates, UploadInv
  <2>3. CASE EndUpload
    BY <1>1, <2>3 DEF EndUpload, KeyStates, UploadInv
  <2> QED
    BY <2>1, <2>2, <2>3
<1>4. TypeInv'
  BY <1>1, <1>2, <1>3 DEF TypeInv, TypeOK, KeyStates
<1>5. GestureInv'
  BY <1>1, <1>2, <1>3 DEF GestureInv, PressInv, WireInv, ActInv, Unheard, Loud,
     ActsOnTheShownCard, OneGestureOneAct
<1> QED
  BY <1>1, <1>2, <1>4, <1>5, MicKept, AutoKept DEF Inv

(* A press begins a new gesture, aimed at the card the key is bound to.    *)
LEMMA KeyDownKeepsInv == Inv /\ KeyDown => Inv'
<1> SUFFICES ASSUME Inv, KeyDown
             PROVE  Inv'
  OBVIOUS
<1> USE ConstantsHold DEF Constants
<1> DEFINE n == used.gestures + 1
           aim == {key.image} \cup IF key.upload # "idle" THEN {key.target} ELSE {}
<1>1. /\ TypeInv /\ TypeOK /\ GestureInv /\ AutoInv /\ MicInv
      /\ key \in KeyStates /\ used \in Counts /\ auto \in Workers /\ wire \in Seq(Lines)
      /\ saw \in [Gestures -> SUBSET (Tasks \cup {None})]
      /\ acts \in [Gestures -> Seq(Tasks)]
  BY DEF Inv, TypeInv, TypeOK
<1>2. /\ key.down = None /\ used.gestures < MaxGestures /\ key.target # None
      /\ used' = [used EXCEPT !.gestures = used.gestures + 1]
      /\ UNCHANGED <<app, serial, primary, board, view, mic, busy, front, wire, hid, auto, acts>>
  BY DEF KeyDown, desk
<1>3. /\ n \in Gestures /\ n \in 0 .. MaxGestures /\ n > used.gestures
      /\ \A g \in Int : g <= used.gestures => g < n /\ g <= n /\ g # n
      /\ used'.gestures = n /\ used' \in Counts
  <2>1. used.gestures \in 0 .. MaxGestures
    BY <1>1 DEF Counts
  <2>2. n \in 0 .. MaxGestures /\ n \in Gestures /\ n > used.gestures
    BY <1>2, <2>1
  <2> HIDE DEF n
  <2>3. used' = [used EXCEPT !.gestures = n]
    BY <1>2 DEF n
  <2>4. used'.gestures = n /\ used' \in Counts
    BY <1>1, <2>2, <2>3 DEF Counts
  <2>5. \A g \in Int : g <= used.gestures => g < n /\ g <= n /\ g # n
    BY <2>1, <2>2
  <2> QED
    BY <2>1, <2>2, <2>4, <2>5
<1>4. /\ key' = [key EXCEPT !.down = key.target, !.gesture = n]
      /\ saw' = [saw EXCEPT ![n] = aim]
  BY <1>3 DEF KeyDown
<1>5. aim \in SUBSET (Tasks \cup {None}) /\ key.target \in aim
  BY <1>1 DEF KeyStates, GestureInv, UploadInv
<1> HIDE DEF n, aim
<1>6. /\ key' \in KeyStates /\ key'.down = key.target /\ key'.gesture = n
      /\ key'.image = key.image /\ key'.target = key.target /\ key'.upload = key.upload
  BY <1>1, <1>3, <1>4 DEF KeyStates
<1>7. /\ saw' \in [Gestures -> SUBSET (Tasks \cup {None})] /\ saw'[n] = aim
      /\ \A g \in Gestures : g # n => saw'[g] = saw[g]
  BY <1>1, <1>3, <1>4, <1>5
<1>8. TypeInv'
  BY <1>1, <1>2, <1>3, <1>6, <1>7 DEF TypeInv, TypeOK, KeyStates
<1>9. \A k \in DOMAIN wire : wire[k].kind # "mic" =>
        /\ wire[k].g \in Gestures /\ wire[k].g <= used.gestures
        /\ wire[k].g < n /\ wire[k].g <= n /\ wire[k].g # n
  <2>1. \A k \in DOMAIN wire : wire[k].kind # "mic" =>
           wire[k].g \in Gestures /\ wire[k].g <= used.gestures
    BY <1>1, LinesOnWire DEF GestureInv, WireInv
  <2>2. Gestures \subseteq Int
    OBVIOUS
  <2> QED
    BY <1>3, <2>1, <2>2
<1>10. WireInv'
  <2>1. \A k \in DOMAIN wire : wire[k].kind # "mic" =>
           /\ wire[k].g <= n /\ wire[k].task \in saw'[wire[k].g]
           /\ wire[k].kind # "button" => wire[k].down
    BY <1>1, <1>3, <1>7, <1>9 DEF GestureInv, WireInv
  <2> QED
    BY <1>1, <1>2, <1>3, <2>1 DEF GestureInv, WireInv, Unheard
<1>11. PressInv'
  <2>1. \A k \in DOMAIN wire : Loud(wire[k]) => wire[k].g < n
    BY <1>3, <1>9 DEF Loud
  <2>2. auto.asked < n
    BY <1>1, <1>3 DEF GestureInv, ActInv, Workers
  <2>3. ASSUME NEW h \in Gestures, h >= n
        PROVE  acts[h] = <<>>
    <3>1. h > used.gestures
      BY <1>1, <1>3, <2>3 DEF Counts
    <3> QED
      BY <1>1, <3>1 DEF GestureInv, ActInv
  <2> QED
    BY <1>2, <1>3, <1>5, <1>6, <1>7, <2>1, <2>2, <2>3 DEF PressInv, Unheard
<1>12. ActInv'
  <2>1. ASSUME NEW g \in Gestures, NEW k \in DOMAIN acts[g]
        PROVE  acts[g][k] \in saw'[g]
    <3>1. g # n
      BY <1>1, <1>3, <2>1 DEF GestureInv, ActInv
    <3> QED
      BY <1>1, <1>7, <2>1, <3>1 DEF GestureInv, ActInv, ActsOnTheShownCard
  <2>2. auto.asked <= n
    BY <1>1, <1>3 DEF GestureInv, ActInv, Workers
  <2>3. ASSUME NEW g \in Gestures, g > n
        PROVE  acts[g] = <<>>
    <3>1. g > used.gestures
      BY <1>1, <1>3, <2>3 DEF Counts
    <3> QED
      BY <1>1, <3>1 DEF GestureInv, ActInv
  <2>4. OneGestureOneAct
    BY <1>1 DEF GestureInv, ActInv
  <2> QED
    BY <1>2, <1>3, <2>1, <2>2, <2>3, <2>4 DEF ActInv, ActsOnTheShownCard, OneGestureOneAct
<1>13. UploadInv'
  BY <1>1, <1>6 DEF GestureInv, UploadInv
<1> QED
  BY <1>1, <1>2, <1>8, <1>10, <1>11, <1>12, <1>13, MicKept, AutoKept DEF Inv, GestureInv

(* The timer of a long press, and the release.                             *)
LEMMA KeyLinesKeepInv == Inv /\ (LongPress \/ KeyUp) => Inv'
<1> SUFFICES ASSUME Inv, LongPress \/ KeyUp
             PROVE  Inv'
  OBVIOUS
<1> USE ConstantsHold DEF Constants
<1>1. /\ TypeInv /\ TypeOK /\ GestureInv /\ AutoInv /\ MicInv
      /\ key \in KeyStates /\ wire \in Seq(Lines) /\ used \in Counts
  BY DEF Inv, TypeInv, TypeOK
<1>2. /\ UNCHANGED <<app, serial, primary, board, view, mic, busy, front, hid, auto, saw,
                     acts, used>>
      /\ key.down # None
  BY DEF LongPress, KeyUp, desk
<1>3. key.gesture \in Gestures /\ key.down \in Tasks
  BY <1>1, <1>2 DEF GestureInv, PressInv, KeyStates
<1>4. ASSUME NEW kind \in {"button", "action", "toggle"}, NEW down \in BOOLEAN
      PROVE  /\ Card(kind, key.down, down) \in Lines
             /\ Card(kind, key.down, down).kind = kind
             /\ Card(kind, key.down, down).task = key.down
             /\ Card(kind, key.down, down).g = key.gesture
             /\ Card(kind, key.down, down).down = down
  BY <1>3 DEF Card, Lines
<1>5. /\ key' \in KeyStates /\ key'.gesture = key.gesture /\ key'.image = key.image
      /\ key'.target = key.target /\ key'.upload = key.upload
      /\ key'.down \in {key.down, None}
      /\ key'.down # None => key'.long
  <2>1. CASE LongPress
    BY <1>1, <2>1 DEF LongPress, KeyStates
  <2>2. CASE KeyUp
    BY <1>1, <2>2 DEF KeyUp, Released, KeyStates
  <2> QED
    BY <2>1, <2>2
<1>6. ASSUME NEW lines \in Seq(Lines), wire' = wire \o lines,
             \A i \in DOMAIN lines :
                /\ lines[i].kind # "mic" /\ lines[i].g = key.gesture /\ lines[i].task = key.down
                /\ lines[i].kind # "button" => lines[i].down
                /\ Loud(lines[i]) => i = 1,
             lines # <<>> => ~key.long
      PROVE  Inv'
  <2>1. GestureInv' /\ wire' \in Seq(Lines)
    BY <1>1, <1>2, <1>5, <1>6, GestureSent
  <2>2. MicInv'
    BY <1>1, <1>2, <1>6, CardsSent
  <2>3. TypeInv'
    BY <1>1, <1>2, <1>5, <2>1 DEF TypeInv, TypeOK, KeyStates
  <2> QED
    BY <1>1, <1>2, <2>1, <2>2, <2>3, AutoKept DEF Inv
<1>7. ASSUME NEW kind \in {"action", "toggle"}, ~key.long,
             wire' = wire \o <<Card(kind, key.down, TRUE)>>
      PROVE  Inv'
  <2> DEFINE m == Card(kind, key.down, TRUE)
             lines == <<m>>
  <2>1. m \in Lines /\ m.kind = kind /\ m.task = key.down /\ m.g = key.gesture /\ m.down
    BY <1>4
  <2> HIDE DEF m
  <2>2. lines \in Seq(Lines) /\ DOMAIN lines = {1} /\ lines[1] = m
    BY <2>1
  <2>3. wire' = wire \o lines
    BY <1>7 DEF m
  <2> HIDE DEF lines
  <2> QED
    BY <1>6, <1>7, <2>1, <2>2, <2>3 DEF Loud
<1>8. ASSUME ~key.long,
             wire' = wire \o <<Card("button", key.down, TRUE), Card("button", key.down, FALSE)>>
      PROVE  Inv'
  <2> DEFINE m1 == Card("button", key.down, TRUE)
             m2 == Card("button", key.down, FALSE)
             lines == <<m1, m2>>
  <2>1. m1 \in Lines /\ m1.kind = "button" /\ m1.task = key.down /\ m1.g = key.gesture /\ m1.down
    BY <1>4
  <2>2. /\ m2 \in Lines /\ m2.kind = "button" /\ m2.task = key.down /\ m2.g = key.gesture
        /\ ~m2.down
    BY <1>4
  <2> HIDE DEF m1, m2
  <2>3. lines \in Seq(Lines) /\ DOMAIN lines = {1, 2} /\ lines[1] = m1 /\ lines[2] = m2
    BY <2>1, <2>2
  <2>4. wire' = wire \o lines
    BY <1>8 DEF m1, m2
  <2> HIDE DEF lines
  <2> QED
    BY <1>6, <1>8, <2>1, <2>2, <2>3, <2>4 DEF Loud
<1>9. CASE LongPress
  BY <1>7, <1>9 DEF LongPress, Send
<1>10. CASE KeyUp
  <2>1. CASE key.long
    <3>1. wire' = wire \o <<>> /\ <<>> \in Seq(Lines) /\ DOMAIN <<>> = {}
      BY <1>10, <2>1, EmptySeq DEF KeyUp, Send
    <3> QED
      BY <1>6, <3>1
  <2>2. CASE ~key.long
    BY <1>7, <1>8, <1>10, <2>2 DEF KeyUp, Send, ShortLines
  <2> QED
    BY <2>1, <2>2
<1> QED
  BY <1>9, <1>10

(* A line of the mic key says nothing of a card.                           *)
LEMMA MicLinesKeepInv == Inv /\ (MicDown \/ MicUp) => Inv'
<1> SUFFICES ASSUME Inv, MicDown \/ MicUp
             PROVE  Inv'
  OBVIOUS
<1> USE ConstantsHold DEF Constants
<1>1. /\ TypeInv /\ TypeOK /\ GestureInv /\ AutoInv /\ MicInv
      /\ mic \in MicStates /\ wire \in Seq(Lines) /\ used \in Counts
  BY DEF Inv, TypeInv, TypeOK
<1>2. UNCHANGED <<app, serial, primary, board, view, key, saw, busy, front, hid, auto, acts>>
  BY DEF MicDown, MicUp, deck
<1>3. PICK d \in BOOLEAN : /\ mic.down = ~d /\ mic' = [mic EXCEPT !.down = d]
                           /\ wire' = wire \o <<Mic(d)>>
  <2>1. CASE MicDown
    BY <1>1, <2>1 DEF MicDown, Send, MicStates
  <2>2. CASE MicUp
    BY <1>1, <2>2 DEF MicUp, Send, MicStates
  <2> QED
    BY <2>1, <2>2
<1>4. /\ mic' \in MicStates /\ mic'.down = d /\ mic'.open = mic.open /\ mic'.bar = mic.bar
  BY <1>1, <1>3, Zenon DEF MicStates
<1>5. MicInv' /\ wire' \in Seq(Lines)
  BY <1>1, <1>2, <1>3, <1>4, MicSent
<1>6. /\ used' \in Counts /\ used.gestures \in Nat
      /\ used'.gestures \in {used.gestures, used.gestures + 1}
  <2>1. CASE MicDown
    <3> DEFINE n == used.gestures + 1
    <3>1. n \in 0 .. MaxGestures /\ used.gestures \in Nat
      BY <1>1, <2>1 DEF MicDown, Counts
    <3>2. used' = [used EXCEPT !.gestures = n]
      BY <2>1 DEF MicDown
    <3> SUFFICES used' \in Counts /\ used'.gestures \in {used.gestures, n}
      BY <3>1
    <3> HIDE DEF n
    <3> QED
      BY <1>1, <3>1, <3>2 DEF Counts
  <2>2. CASE MicUp
    BY <1>1, <2>2 DEF MicUp, Counts
  <2> QED
    BY <2>1, <2>2
<1>7. TypeInv'
  BY <1>1, <1>2, <1>4, <1>5, <1>6 DEF TypeInv, TypeOK, MicStates
<1>8. /\ DOMAIN wire = 1 .. Len(wire) /\ DOMAIN wire' = 1 .. Len(wire) + 1
      /\ Len(wire) \in Nat
      /\ \A k \in DOMAIN wire : wire'[k] = wire[k]
      /\ wire'[Len(wire) + 1].kind = "mic"
  <2>1. Mic(d) \in Lines /\ Mic(d).kind = "mic"
    BY DEF Lines, Mic
  <2>2. wire' = Append(wire, Mic(d))
    BY <1>1, <1>3, <2>1, AppendIsConcat
  <2>3. wire'[Len(wire) + 1] = Mic(d)
    BY <1>1, <2>1, <2>2, AppendProperties
  <2> QED
    BY <1>1, <2>1, <2>2, <2>3, AppendProperties, LenProperties
<1>9. \A k \in DOMAIN wire' : wire'[k].kind # "mic" => k \in DOMAIN wire /\ wire'[k] = wire[k]
  BY <1>8
<1>10. /\ \A n \in Int : n <= used.gestures => n <= used'.gestures
       /\ \A n \in Int : n > used'.gestures => n > used.gestures
  BY <1>6
<1>11. /\ \A k \in DOMAIN wire : wire[k].kind # "mic" => wire[k].g \in Int
       /\ key.gesture \in Int /\ auto.asked \in Int /\ Gestures \subseteq Int
  <2>1. \A k \in DOMAIN wire : wire[k].kind # "mic" => wire[k].g \in Gestures
    BY <1>1, LinesOnWire
  <2> QED
    BY <1>1, <2>1 DEF TypeInv, KeyStates, Workers
<1>12. GestureInv'
  <2>1. WireInv'
    <3>1. \A k \in DOMAIN wire' : wire'[k].kind # "mic" =>
             /\ wire'[k].g <= used'.gestures
             /\ wire'[k].task \in saw[wire'[k].g]
             /\ wire'[k].kind # "button" => wire'[k].down
      BY <1>1, <1>9, <1>10, <1>11 DEF GestureInv, WireInv
    <3>2. \A k \in DOMAIN wire' : Loud(wire'[k]) =>
             auto.asked < wire'[k].g /\ Unheard(wire'[k].g)
      BY <1>1, <1>9 DEF GestureInv, WireInv, Loud
    <3>3. \A j, k \in DOMAIN wire' :
             j < k /\ Loud(wire'[j]) /\ Loud(wire'[k]) => wire'[j].g < wire'[k].g
      BY <1>1, <1>9 DEF GestureInv, WireInv, Loud
    <3> QED
      BY <1>2, <3>1, <3>2, <3>3 DEF WireInv, Unheard
  <2>2. PressInv'
    <3>1. key.gesture <= used'.gestures
      BY <1>1, <1>10, <1>11 DEF GestureInv, PressInv
    <3>2. key.down # None /\ ~key.long =>
             \A k \in DOMAIN wire' : Loud(wire'[k]) => wire'[k].g < key.gesture
      BY <1>1, <1>9 DEF GestureInv, PressInv, Loud
    <3> QED
      BY <1>1, <1>2, <3>1, <3>2 DEF GestureInv, PressInv, Unheard
  <2>3. ActInv'
    BY <1>1, <1>2, <1>10, <1>11 DEF GestureInv, ActInv, ActsOnTheShownCard, OneGestureOneAct
  <2>4. UploadInv'
    BY <1>1, <1>2 DEF GestureInv, UploadInv
  <2> QED
    BY <2>1, <2>2, <2>3, <2>4 DEF GestureInv
<1> QED
  BY <1>1, <1>2, <1>5, <1>7, <1>12, AutoKept DEF Inv

-----------------------------------------------------------------------------
(* The daemon takes a line.                                                *)

(* An app with an open dictation is asked before the app in front.         *)
LEMMA TalkerFirst == Apps[1] \in mic.open => Talker = Apps[1]
<1> SUFFICES ASSUME Apps[1] \in mic.open
             PROVE  Talker = Apps[1]
  OBVIOUS
<1> USE ConstantsHold DEF Constants
<1> DEFINE mine == {k \in DOMAIN Apps : Apps[k] \in mic.open \/ front = Apps[k]}
           first == CHOOSE k \in mine : \A j \in mine : k <= j
<1>1. 1 \in mine /\ \A j \in mine : 1 <= j
  OBVIOUS
<1>2. first \in mine /\ \A j \in mine : first <= j
  <2> HIDE DEF mine
  <2> QED
    BY <1>1
<1>3. first = 1
  <2>1. first \in Nat /\ first <= 1 /\ 1 <= first
    BY <1>1, <1>2
  <2> QED
    BY <2>1
<1>4. mine # {} /\ Talker = IF mine = {} THEN "codex" ELSE Apps[first]
  BY <1>1 DEF Talker
<1> QED
  BY <1>3, <1>4

(* The part of the mic key, when a line of it is taken and when another.   *)
LEMMA MicTaken ==
    ASSUME MicInv, mic \in MicStates, wire \in Seq(Lines), wire # <<>>, wire' = Tail(wire),
           busy = None, mic'.down = mic.down,
           mic'.bar = Apps[1] => Apps[1] \in mic'.open,
           busy' = Apps[1] => Apps[1] \notin mic'.open,
           Head(wire).kind # "mic" => UNCHANGED <<mic, busy>>,
           Head(wire).kind = "mic" /\ ~Head(wire).down =>
              ~(Apps[1] \in mic'.open \/ busy' = Apps[1])
    PROVE  MicInv'
<1>1. /\ Len(wire) \in Nat \ {0} /\ Len(wire') = Len(wire) - 1
      /\ DOMAIN wire = 1 .. Len(wire) /\ DOMAIN wire' = 1 .. Len(wire) - 1
      /\ Head(wire) = wire[1] /\ 1 \in DOMAIN wire
      /\ \A k \in DOMAIN wire' : wire'[k] = wire[k + 1] /\ k + 1 \in DOMAIN wire
  BY LineTaken
<1>2. ASSUME NEW j \in Nat, NEW k \in Nat, NoMic(wire', j, k),
             j > 0 \/ wire[1].kind # "mic"
      PROVE  NoMic(wire, IF j > 0 THEN j + 1 ELSE 0, k + 1)
  <2> SUFFICES ASSUME NEW i \in DOMAIN wire, (IF j > 0 THEN j + 1 ELSE 0) < i, i < k + 1
               PROVE  wire[i].kind # "mic"
    BY DEF NoMic
  <2>1. CASE i = 1
    BY <1>1, <1>2, <2>1
  <2>2. CASE i # 1
    <3>1. i - 1 \in DOMAIN wire' /\ wire'[i - 1] = wire[i] /\ j < i - 1 /\ i - 1 < k
      BY <1>1, <2>2
    <3> QED
      BY <1>2, <3>1 DEF NoMic
  <2> QED
    BY <2>1, <2>2
<1>3. ASSUME NEW k \in Nat, NoMic(wire', 0, k)
      PROVE  NoMic(wire, 1, k + 1)
  <2> SUFFICES ASSUME NEW i \in DOMAIN wire, 1 < i, i < k + 1
               PROVE  wire[i].kind # "mic"
    BY DEF NoMic
  <2>1. i - 1 \in DOMAIN wire' /\ wire'[i - 1] = wire[i] /\ 0 < i - 1 /\ i - 1 < k
    BY <1>1
  <2> QED
    BY <1>3, <2>1 DEF NoMic
<1>4. \A k \in DOMAIN wire' : /\ k \in Nat /\ k > 0 /\ k + 1 > 1
                              /\ wire'[k].kind = wire[k + 1].kind
                              /\ wire'[k].down = wire[k + 1].down
  BY <1>1
<1>5. Len(wire') + 1 \in Nat /\ Len(wire') + 1 + 1 = Len(wire) + 1
  BY <1>1
<1>6. ASSUME NEW k \in DOMAIN wire', wire'[k].kind = "mic", NoMic(wire', k, Len(wire') + 1)
      PROVE  wire'[k].down = mic'.down
  <2>1. NoMic(wire, k + 1, Len(wire) + 1)
    BY <1>2, <1>4, <1>5, <1>6
  <2> QED
    BY <1>1, <1>4, <1>6, <2>1 DEF MicInv
<1>7. ASSUME NEW j \in DOMAIN wire', NEW k \in DOMAIN wire', j < k,
             wire'[j].kind = "mic", wire'[k].kind = "mic", NoMic(wire', j, k)
      PROVE  wire'[j].down # wire'[k].down
  <2>1. NoMic(wire, j + 1, k + 1) /\ j + 1 < k + 1
    BY <1>2, <1>4, <1>7
  <2> QED
    BY <1>1, <1>4, <1>7, <2>1 DEF MicInv
<1>8. ASSUME Apps[1] \in mic'.open \/ busy' = Apps[1]
      PROVE  /\ \A k \in DOMAIN wire' :
                   wire'[k].kind = "mic" /\ NoMic(wire', 0, k) => ~wire'[k].down
             /\ NoMic(wire', 0, Len(wire') + 1) => mic'.down
  <2>1. CASE wire[1].kind = "mic"
    <3>1. wire[1].down
      BY <1>1, <1>8, <2>1
    <3>2. ASSUME NEW k \in DOMAIN wire', wire'[k].kind = "mic", NoMic(wire', 0, k)
          PROVE  ~wire'[k].down
      <4>1. NoMic(wire, 1, k + 1)
        BY <1>3, <1>4, <3>2
      <4>2. wire[1].down # wire[k + 1].down
        BY <1>1, <1>4, <2>1, <3>2, <4>1 DEF MicInv
      <4>3. wire[k + 1].down \in BOOLEAN
        <5>1. wire[k + 1] \in Lines
          BY <1>1, LinesOnWire
        <5> QED
          BY <5>1 DEF Lines
      <4> QED
        BY <1>4, <3>1, <4>2, <4>3
    <3>3. ASSUME NoMic(wire', 0, Len(wire') + 1)
          PROVE  mic'.down
      <4>1. NoMic(wire, 1, Len(wire) + 1)
        BY <1>3, <1>5, <3>3
      <4>2. wire[1].down = mic.down
        BY <1>1, <2>1, <4>1 DEF MicInv
      <4> QED
        BY <3>1, <4>2
    <3> QED
      BY <3>2, <3>3
  <2>2. CASE wire[1].kind # "mic"
    <3>1. UNCHANGED <<mic, busy>> /\ Engaged
      BY <1>1, <1>8, <2>2 DEF Engaged
    <3>2. ASSUME NEW k \in DOMAIN wire', wire'[k].kind = "mic", NoMic(wire', 0, k)
          PROVE  ~wire'[k].down
      <4>1. NoMic(wire, 0, k + 1)
        BY <1>2, <1>4, <2>2, <3>2
      <4> QED
        BY <1>1, <1>4, <3>1, <3>2, <4>1 DEF MicInv
    <3>3. ASSUME NoMic(wire', 0, Len(wire') + 1)
          PROVE  mic'.down
      <4>1. NoMic(wire, 0, Len(wire) + 1)
        BY <1>2, <1>5, <2>2, <3>3
      <4> QED
        BY <3>1, <4>1 DEF MicInv
    <3> QED
      BY <3>2, <3>3
  <2> QED
    BY <2>1, <2>2
<1> QED
  BY <1>6, <1>7, <1>8 DEF MicInv, Engaged

LEMMA OneMore ==
    ASSUME NEW a \in 0 .. MaxGestures, NEW g \in Gestures, a < g, NEW b \in {a, a + 1}
    PROVE  b \in 0 .. MaxGestures /\ b <= g
BY BoundsAssumption DEF Gestures

LEMMA OneHeard ==
    ASSUME NEW t, NEW s \in {<<>>, <<t>>}
    PROVE  Len(s) <= 1 /\ \A k \in DOMAIN s : s[k] = t
<1>1. CASE s = <<>>
  BY <1>1
<1>2. CASE s = <<t>>
  BY <1>2
<1> QED
  BY <1>1, <1>2

(* The line that is taken is heard once at the most, and as its own card.  *)
LEMMA LineHandled ==
    ASSUME TypeInv, GestureInv, wire # <<>>, wire' = Tail(wire),
           UNCHANGED <<key, saw, used>>,
           \/ UNCHANGED acts /\ auto'.asked = auto.asked
           \/ /\ Loud(Head(wire))
              /\ \/ UNCHANGED acts
                 \/ acts' = [acts EXCEPT ![Head(wire).g] = Append(@, Head(wire).task)]
              /\ auto'.asked \in {auto.asked, auto.asked + 1}
    PROVE  /\ GestureInv' /\ wire' \in Seq(Lines)
           /\ acts' \in [Gestures -> Seq(Tasks)] /\ auto'.asked \in 0 .. MaxGestures
<1> USE ConstantsHold DEF Constants
<1> DEFINE m == Head(wire)
           g == m.g
<1>1. /\ wire \in Seq(Lines) /\ acts \in [Gestures -> Seq(Tasks)]
      /\ auto.asked \in 0 .. MaxGestures /\ used.gestures \in Int
      /\ UploadInv /\ PressInv /\ WireInv /\ ActInv
      /\ key.gesture \in Int
  BY DEF TypeInv, GestureInv, Workers, Counts, KeyStates
<1>2. /\ wire' \in Seq(Lines) /\ 1 \in DOMAIN wire /\ m = wire[1]
      /\ \A k \in DOMAIN wire' : /\ wire'[k] = wire[k + 1] /\ k + 1 \in DOMAIN wire
                                 /\ 1 < k + 1
      /\ \A j, k \in DOMAIN wire' : j < k => j + 1 < k + 1
  BY <1>1, LineTaken
<1>3. \A k \in DOMAIN wire : wire[k].kind # "mic" => wire[k].g \in Gestures /\ wire[k].g \in Int
  <2>1. Gestures \subseteq Int
    OBVIOUS
  <2> QED
    BY <1>1, <2>1, LinesOnWire
<1> HIDE DEF m
<1>4. CASE UNCHANGED acts /\ auto'.asked = auto.asked
  <2>1. UploadInv' /\ ActInv'
    BY <1>1, <1>4 DEF UploadInv, ActInv, ActsOnTheShownCard, OneGestureOneAct
  <2>2. PressInv'
    BY <1>1, <1>2, <1>4 DEF PressInv, Unheard, Loud
  <2>3. WireInv'
    BY <1>1, <1>2, <1>4 DEF WireInv, Unheard, Loud
  <2> QED
    BY <1>1, <1>2, <1>4, <2>1, <2>2, <2>3 DEF GestureInv
<1>5. CASE /\ Loud(m)
           /\ \/ UNCHANGED acts
              \/ acts' = [acts EXCEPT ![g] = Append(@, m.task)]
           /\ auto'.asked \in {auto.asked, auto.asked + 1}
  <2>1. /\ g \in Gestures /\ g \in Int /\ m.task \in Tasks /\ g <= used.gestures
        /\ m.task \in saw[g] /\ auto.asked < g /\ Unheard(g)
    BY <1>1, <1>2, <1>3, <1>5, LinesOnWire DEF WireInv, Loud
  <2>2. /\ auto'.asked \in 0 .. MaxGestures /\ auto'.asked <= g
    <3>1. auto.asked \in 0 .. MaxGestures /\ g \in Gestures /\ auto.asked < g
      BY <1>1, <2>1
    <3>2. auto'.asked \in {auto.asked, auto.asked + 1}
      BY <1>5
    <3> HIDE DEF g
    <3> QED
      BY <3>1, <3>2, OneMore
  <2>3. acts[g] = <<>>
    BY <2>1 DEF Unheard
  <2>4. Append(acts[g], m.task) = <<m.task>> /\ <<m.task>> \in Seq(Tasks)
    BY <2>1, <2>3
  <2>5. /\ acts' \in [Gestures -> Seq(Tasks)]
        /\ acts'[g] \in {<<>>, <<m.task>>}
        /\ \A h \in Gestures : h # g => acts'[h] = acts[h]
    <3> DEFINE new == Append(acts[g], m.task)
    <3>1. UNCHANGED acts \/ acts' = [acts EXCEPT ![g] = new]
      BY <1>5
    <3>2. new = <<m.task>> /\ new \in Seq(Tasks)
      BY <2>4
    <3> HIDE DEF new, g
    <3> QED
      BY <1>1, <2>1, <2>3, <3>1, <3>2
  <2>6. ASSUME NEW h \in Int, h > g, Unheard(h)
        PROVE  Unheard(h)'
    BY <2>1, <2>5, <2>6 DEF Unheard
  <2>7. \A k \in DOMAIN wire' : Loud(wire'[k]) =>
           g < wire'[k].g /\ wire'[k].g \in Int /\ Unheard(wire'[k].g)
    BY <1>1, <1>2, <1>3, <1>5 DEF WireInv, Loud
  <2>8. UploadInv'
    BY <1>1 DEF UploadInv
  <2>9. PressInv'
    <3>1. ASSUME key.down # None, ~key.long
          PROVE  /\ g < key.gesture /\ Unheard(key.gesture)
                 /\ \A k \in DOMAIN wire' : Loud(wire'[k]) => wire'[k].g < key.gesture
      BY <1>1, <1>2, <1>5, <3>1 DEF PressInv
    <3>2. ASSUME key.down # None, ~key.long
          PROVE  auto'.asked < key.gesture /\ Unheard(key.gesture)'
      BY <1>1, <2>1, <2>2, <2>6, <3>1, <3>2
    <3>3. ASSUME key.down # None, ~key.long
          PROVE  \A h \in Gestures : h >= key.gesture => acts'[h] = <<>>
      BY <3>2, <3>3 DEF Unheard
    <3> QED
      BY <1>1, <3>1, <3>2, <3>3 DEF PressInv, Unheard
  <2>10. WireInv'
    <3>1. \A k \in DOMAIN wire' : wire'[k].kind # "mic" =>
             /\ wire'[k].g <= used.gestures /\ wire'[k].task \in saw[wire'[k].g]
             /\ wire'[k].kind # "button" => wire'[k].down
      BY <1>1, <1>2 DEF WireInv
    <3>2. ASSUME NEW k \in DOMAIN wire', Loud(wire'[k])
          PROVE  /\ auto'.asked < wire'[k].g
                 /\ \A h \in Gestures : h >= wire'[k].g => acts'[h] = <<>>
      <4>1. g < wire'[k].g /\ wire'[k].g \in Int /\ Unheard(wire'[k].g)
        BY <2>7, <3>2
      <4>2. auto'.asked < wire'[k].g
        BY <2>1, <2>2, <4>1
      <4>3. ASSUME NEW h \in Gestures, h >= wire'[k].g
            PROVE  acts'[h] = <<>>
        <5>1. h # g /\ acts[h] = <<>>
          BY <2>1, <4>1, <4>3 DEF Unheard
        <5> QED
          BY <2>5, <5>1
      <4> QED
        BY <4>2, <4>3
    <3>3. \A j, k \in DOMAIN wire' :
             j < k /\ Loud(wire'[j]) /\ Loud(wire'[k]) => wire'[j].g < wire'[k].g
      BY <1>1, <1>2 DEF WireInv
    <3> QED
      BY <3>1, <3>2, <3>3 DEF WireInv, Unheard, Loud
  <2>11. ActInv'
    <3>1. auto'.asked <= used.gestures
      BY <1>1, <2>1, <2>2
    <3>2. ASSUME NEW h \in Gestures, h > used.gestures
          PROVE  acts'[h] = <<>>
      <4>1. h # g
        BY <1>1, <2>1, <3>2
      <4> QED
        BY <1>1, <2>5, <3>2, <4>1 DEF ActInv
    <3>3. ASSUME NEW h \in Gestures
          PROVE  Len(acts'[h]) <= 1 /\ \A k \in DOMAIN acts'[h] : acts'[h][k] \in saw[h]
      <4>1. CASE h = g
        <5>1. acts'[h] \in {<<>>, <<m.task>>} /\ m.task \in saw[h]
          BY <2>1, <2>5, <4>1
        <5> QED
          BY <5>1, OneHeard
      <4>2. CASE h # g
        BY <1>1, <2>5, <4>2 DEF ActInv, ActsOnTheShownCard, OneGestureOneAct
      <4> QED
        BY <4>1, <4>2
    <3> QED
      BY <3>1, <3>2, <3>3 DEF ActInv, ActsOnTheShownCard, OneGestureOneAct
  <2> QED
    BY <1>2, <2>2, <2>5, <2>8, <2>9, <2>10, <2>11 DEF GestureInv
<1> QED
  BY <1>4, <1>5 DEF m

LEMMA SelectHeard ==
    ASSUME TypeInv, AutoInv, NEW t \in Tasks, NEW g \in Gestures, auto.asked < g,
           Select(t, g)
    PROVE  /\ board' \in [place : [Tasks -> Places], ask : SUBSET Tasks,
                          selected : Tasks \cup {None}]
           /\ UNCHANGED acts \/ acts' = [acts EXCEPT ![g] = Append(@, t)]
           /\ auto'.asked \in {auto.asked, auto.asked + 1}
           /\ auto' \in Workers /\ AutoInv'
           /\ auto'.asleep => auto'.request # NoRequest /\ auto'.attempt < MaxAttempts
<1> USE ConstantsHold DEF Constants
<1>1. /\ board \in [place : [Tasks -> Places], ask : SUBSET Tasks, selected : Tasks \cup {None}]
      /\ auto \in Workers
      /\ auto.asleep => auto.request # NoRequest /\ auto.attempt < MaxAttempts
  BY DEF TypeInv, TypeOK
<1>2. /\ board' \in [place : [Tasks -> Places], ask : SUBSET Tasks, selected : Tasks \cup {None}]
      /\ UNCHANGED acts \/ acts' = [acts EXCEPT ![g] = Append(@, t)]
  BY <1>1 DEF Select, Hear
<1>3. CASE auto' = auto
  BY <1>1, <1>2, <1>3, AutoKept DEF Workers
<1>4. CASE auto' # auto
  <2> DEFINE n == auto.asked + 1
             r == [task |-> t, n |-> n]
  <2>1. auto' = [auto EXCEPT !.pending = r, !.asked = n]
    BY <1>4 DEF Select
  <2>2. auto.asked \in 0 .. MaxGestures /\ n \in 0 .. MaxGestures
    BY <1>1, OneMore DEF Workers
  <2>3. n \in Gestures /\ n > auto.asked
    BY <2>2
  <2>4. r \in Request /\ r.n = n
    BY <2>3 DEF Request
  <2> HIDE DEF r
  <2>5. /\ auto'.pending = r /\ auto'.asked = n /\ auto'.request = auto.request
        /\ auto'.shown = auto.shown /\ auto'.attempt = auto.attempt
        /\ auto'.asleep = auto.asleep /\ auto' \in Workers
    BY <1>1, <2>1, <2>2, <2>4 DEF Workers
  <2>6. AutoInv'
    <3>1. auto.shown \in Int /\ auto.asked \in Int /\ auto.shown <= auto.asked
      BY <1>1 DEF Workers, AutoInv
    <3>2. auto.request.n \in Int /\ auto.request.n <= auto.asked
      <4>1. CASE auto.request = NoRequest
        BY <2>2, <4>1 DEF NoRequest
      <4>2. CASE auto.request # NoRequest
        BY <1>1, <4>2 DEF Workers, AutoInv, Request
      <4> QED
        BY <4>1, <4>2
    <3>3. auto.request # NoRequest => auto.shown <= auto.request.n
      BY DEF AutoInv
    <3> QED
      BY <2>3, <2>4, <2>5, <3>1, <3>2, <3>3 DEF AutoInv
  <2> QED
    BY <1>1, <1>2, <2>1, <2>5, <2>6
<1> QED
  BY <1>3, <1>4

(* A line of the mic key goes to the first app while its dictation is open,*)
(* and is the release then.                                                *)
LEMMA MicRouted ==
    ASSUME TypeInv, MicInv, wire # <<>>, busy = None, Head(wire).kind = "mic",
           RouteMic(Head(wire))
    PROVE  /\ mic' \in MicStates /\ mic'.down = mic.down
           /\ mic'.bar = Apps[1] => Apps[1] \in mic'.open
           /\ busy' = Apps[1] => Apps[1] \notin mic'.open
           /\ ~Head(wire).down => ~(Apps[1] \in mic'.open \/ busy' = Apps[1])
           /\ busy' \in Windows \cup {None}
           /\ hid' \subseteq Mirrored \cup {"ACT10"}
<1> USE ConstantsHold DEF Constants
<1> DEFINE m == Head(wire)
<1>1. /\ mic \in MicStates /\ front \in Windows /\ wire \in Seq(Lines)
      /\ hid \subseteq Mirrored \cup {"ACT10"}
      /\ mic.bar = Apps[1] => Apps[1] \in mic.open
  BY DEF TypeInv, TypeOK, MicInv
<1>2. m = wire[1] /\ 1 \in DOMAIN wire /\ m \in Lines
  BY <1>1, LineTaken, LenProperties, HeadTailProperties, EmptySeq
<1>3. NoMic(wire, 0, 1)
  BY <1>1, LenProperties DEF NoMic
<1>4. Apps[1] \in mic.open => ~m.down
  BY <1>2, <1>3 DEF MicInv, Engaged
<1>5. m.down \in BOOLEAN
  BY <1>2 DEF Lines
<1> HIDE DEF m
<1>6. Apps[1] \in mic.open => Talker = Apps[1] /\ Talker # "codex"
  BY TalkerFirst
<1>7. Apps[1] # None
  OBVIOUS
<1>8. CASE Talker = "codex" /\ serial
  <2>1. UNCHANGED <<mic, busy>> /\ hid' \subseteq Mirrored \cup {"ACT10"}
    BY <1>1, <1>8 DEF RouteMic, m
  <2> QED
    BY <1>1, <1>6, <1>7, <1>8, <2>1
<1>9. CASE ~(Talker = "codex" /\ serial)
  <2>1. SetMicrophone(Talker, m.down)
    BY <1>9 DEF RouteMic, m
  <2> DEFINE rest == mic.open \ {Talker}
             bar == IF Talker \in mic.open THEN None ELSE mic.bar
  <2>2. rest \subseteq Windows /\ bar \in Windows \cup {None}
    BY <1>1 DEF MicStates
  <2>3. CASE m.down /\ front = Talker
    BY <1>1, <1>4, <1>7, <2>1, <2>3 DEF SetMicrophone, m
  <2>4. CASE m.down /\ front # Talker
    <3>1. mic' = [mic EXCEPT !.open = rest] /\ UNCHANGED <<busy, hid>>
      BY <2>1, <2>4 DEF SetMicrophone
    <3>2. Apps[1] \notin mic.open /\ Apps[1] \notin rest
      BY <1>4, <2>4
    <3> HIDE DEF rest
    <3>3. /\ mic' \in MicStates /\ mic'.down = mic.down /\ mic'.bar = mic.bar
          /\ mic'.open = rest
      BY <1>1, <2>2, <3>1 DEF MicStates
    <3> QED
      BY <1>1, <1>7, <2>4, <3>1, <3>2, <3>3 DEF m
  <2>5. CASE ~m.down
    <3>1. mic' = [mic EXCEPT !.open = rest, !.bar = bar] /\ UNCHANGED <<busy, hid>>
      BY <2>1, <2>5 DEF SetMicrophone
    <3>2. Apps[1] \notin rest /\ bar # Apps[1]
      BY <1>1, <1>6, <1>7
    <3> HIDE DEF rest, bar
    <3>3. /\ mic' \in MicStates /\ mic'.down = mic.down /\ mic'.bar = bar
          /\ mic'.open = rest
      BY <1>1, <2>2, <3>1 DEF MicStates
    <3> QED
      BY <1>1, <1>7, <2>5, <3>1, <3>2, <3>3 DEF m
  <2> QED
    BY <2>3, <2>4, <2>5
<1> QED
  BY <1>8, <1>9

LEMMA RouteKeepsInv == Inv /\ Route => Inv'
<1> SUFFICES ASSUME Inv, Route
             PROVE  Inv'
  OBVIOUS
<1> USE ConstantsHold DEF Constants
<1> DEFINE m == Head(wire)
           t == IF m.kind = "mic" THEN None ELSE Resolve(m)
<1>1. /\ TypeInv /\ TypeOK /\ GestureInv /\ AutoInv /\ MicInv
      /\ wire \in Seq(Lines) /\ mic \in MicStates
  BY DEF Inv, TypeInv
<1>2. /\ wire # <<>> /\ busy = None /\ wire' = Tail(wire)
      /\ UNCHANGED <<app, serial, primary, view, key, saw, used>>
      /\ \/ m.kind # "mic" /\ t = None /\ Inert
         \/ m.kind = "mic" /\ RouteMic(m)
         \/ m.kind = "button" /\ t # None /\ RouteButton(t, m)
         \/ m.kind = "action" /\ t # None /\ RouteAction(t, m)
         \/ m.kind = "toggle" /\ t # None /\ (Inert \/ RouteToggle(t, m))
  <2> DEFINE u == t
  <2>1. /\ wire # <<>> /\ busy = None /\ wire' = Tail(wire)
        /\ UNCHANGED <<app, serial, primary, deck, used>>
        /\ IF m.kind # "mic" /\ u = None THEN Inert
           ELSE IF primary THEN OnPrimary(u, m) ELSE OnAuxiliary(u, m)
    BY DEF Route
  <2> HIDE DEF u, m
  <2> QED
    BY <2>1 DEF OnPrimary, OnAuxiliary, RouteLine, deck, u
<1>3. /\ m = wire[1] /\ 1 \in DOMAIN wire /\ m \in Lines
  BY <1>1, <1>2, LineTaken, LenProperties
<1>4. ASSUME m.kind # "mic"
      PROVE  /\ m.g \in Gestures /\ m.task \in Tasks /\ m.down \in BOOLEAN
             /\ t # None => t = m.task
             /\ m.kind # "button" => m.down
             /\ m.down => auto.asked < m.g
  BY <1>1, <1>3, <1>4 DEF Lines, Resolve, GestureInv, WireInv, Loud
<1>5. /\ board \in [place : [Tasks -> Places], ask : SUBSET Tasks, selected : Tasks \cup {None}]
      /\ front \in Windows /\ hid \subseteq Mirrored \cup {"ACT10"}
      /\ auto \in Workers /\ app \in AppSet
      /\ auto.asleep => auto.request # NoRequest /\ auto.attempt < MaxAttempts
  BY <1>1 DEF TypeInv, TypeOK
(* What a line of the task key does to the cards and to the worker.        *)
<1> DEFINE Handled ==
              /\ board' \in [place : [Tasks -> Places], ask : SUBSET Tasks,
                             selected : Tasks \cup {None}]
              /\ \/ UNCHANGED acts /\ auto'.asked = auto.asked
                 \/ /\ Loud(m)
                    /\ \/ UNCHANGED acts
                       \/ acts' = [acts EXCEPT ![m.g] = Append(@, m.task)]
                    /\ auto'.asked \in {auto.asked, auto.asked + 1}
              /\ auto' \in Workers /\ AutoInv'
              /\ auto'.asleep => auto'.request # NoRequest /\ auto'.attempt < MaxAttempts
<1>6. UNCHANGED <<board, acts, auto>> => Handled
  BY <1>1, <1>5, AutoKept
<1>7. ASSUME m.kind # "mic", t # None, m.down, Select(t, m.g)
      PROVE  Handled
  <2>1. t = m.task /\ m.g \in Gestures /\ m.task \in Tasks /\ auto.asked < m.g
    BY <1>4, <1>7
  <2> HIDE DEF m, t
  <2> QED
    BY <1>1, <1>7, <2>1, SelectHeard DEF Loud
(* What a line does beside that to the windows and the mic.                *)
<1> DEFINE Desk ==
              /\ front' \in Windows /\ hid' \subseteq Mirrored \cup {"ACT10"}
              /\ mic' \in MicStates /\ busy' \in Windows \cup {None} /\ MicInv'
<1>8. ASSUME m.kind # "mic", UNCHANGED <<mic, busy>>, front' \in Windows,
             hid' \subseteq Mirrored \cup {"ACT10"}
      PROVE  Desk
  <2>1. mic.bar = Apps[1] => Apps[1] \in mic.open
    BY <1>1 DEF MicInv
  <2>2. MicInv'
    BY <1>1, <1>2, <1>8, <2>1, MicTaken
  <2> QED
    BY <1>1, <1>2, <1>8, <2>2
<1>9. Handled /\ Desk
  <2>1. CASE m.kind # "mic" /\ Inert
    BY <1>5, <1>6, <1>8, <2>1 DEF Inert
  <2>2. CASE m.kind = "mic" /\ RouteMic(m)
    <3>1. UNCHANGED <<board, acts, auto, front>>
      BY <2>2 DEF RouteMic
    <3>2. /\ mic' \in MicStates /\ mic'.down = mic.down
          /\ mic'.bar = Apps[1] => Apps[1] \in mic'.open
          /\ busy' = Apps[1] => Apps[1] \notin mic'.open
          /\ ~m.down => ~(Apps[1] \in mic'.open \/ busy' = Apps[1])
          /\ busy' \in Windows \cup {None}
          /\ hid' \subseteq Mirrored \cup {"ACT10"}
      BY <1>1, <1>2, <2>2, MicRouted
    <3>3. MicInv'
      BY <1>1, <1>2, <2>2, <3>2, MicTaken
    <3> QED
      BY <1>5, <1>6, <3>1, <3>2, <3>3
  <2>3. CASE m.kind = "button" /\ t # None /\ RouteButton(t, m)
    <3>1. (m.down /\ Select(t, m.g)) \/ UNCHANGED <<board, acts, auto>>
      BY <2>3 DEF RouteButton
    <3>2. Handled
      BY <1>6, <1>7, <2>3, <3>1
    <3>3. MicroKey(t, m.down) /\ UNCHANGED <<front, mic, busy>>
      BY <2>3 DEF RouteButton
    <3>4. hid' \subseteq Mirrored \cup {"ACT10"}
      BY <1>5, <3>3 DEF MicroKey
    <3> QED
      BY <1>5, <1>8, <2>3, <3>2, <3>3, <3>4
  <2>4. CASE m.kind = "action" /\ t # None /\ RouteAction(t, m)
    <3>1. UNCHANGED <<board, auto, hid, front, mic, busy>>
      BY <2>4 DEF RouteAction
    <3>2. /\ Loud(m) /\ t = m.task
          /\ UNCHANGED acts \/ acts' = [acts EXCEPT ![m.g] = Append(@, t)]
      BY <1>4, <2>4 DEF RouteAction, Hear, Loud
    <3>3. Handled
      BY <1>1, <1>5, <3>1, <3>2, AutoKept
    <3> QED
      BY <1>5, <1>8, <2>4, <3>1, <3>3
  <2>5. CASE m.kind = "toggle" /\ t # None /\ RouteToggle(t, m)
    <3>1. /\ front' \in {front, "other", AgentApp(t)} /\ UNCHANGED <<hid, mic, busy>>
          /\ UNCHANGED <<board, acts, auto>> \/ Select(t, m.g)
      BY <2>5 DEF RouteToggle
    <3>2. front' \in Windows
      BY <1>5, <3>1 DEF AgentApp
    <3>3. Handled
      BY <1>4, <1>6, <1>7, <2>5, <3>1
    <3> QED
      BY <1>5, <1>8, <2>5, <3>1, <3>2, <3>3
  <2> QED
    BY <1>2, <2>1, <2>2, <2>3, <2>4, <2>5
<1>10. /\ GestureInv' /\ wire' \in Seq(Lines) /\ acts' \in [Gestures -> Seq(Tasks)]
  BY <1>1, <1>2, <1>9, LineHandled
<1>11. TypeInv'
  BY <1>1, <1>2, <1>9, <1>10 DEF TypeInv, TypeOK, Workers, MicStates
<1> QED
  BY <1>9, <1>10, <1>11 DEF Inv

(* The composer has got the focus, or not: only the dictation of the app   *)
(* that was busy begins or is over.                                        *)
LEMMA ComposerKeepsInv == Inv /\ (ComposerFocused \/ ComposerFails) => Inv'
<1> SUFFICES ASSUME Inv, ComposerFocused \/ ComposerFails
             PROVE  Inv'
  OBVIOUS
<1> USE ConstantsHold DEF Constants
<1>1. /\ TypeInv /\ TypeOK /\ GestureInv /\ AutoInv /\ MicInv
      /\ mic \in MicStates /\ busy \in Windows \cup {None} /\ front \in Windows
  BY DEF Inv, TypeInv, TypeOK
<1>2. /\ UNCHANGED <<app, serial, primary, board, view, key, saw, wire, front, hid, auto,
                     acts, used>>
      /\ busy # None /\ busy' = None
  BY DEF ComposerFocused, ComposerFails, deck
<1>3. /\ mic' \in MicStates /\ mic'.down = mic.down
      /\ mic'.bar = Apps[1] => Apps[1] \in mic'.open
      /\ Apps[1] \in mic'.open => Engaged
  <2>1. CASE ComposerFails
    BY <1>1, <2>1 DEF ComposerFails, MicInv, Engaged
  <2>2. CASE ComposerFocused /\ front = busy
    <3> DEFINE open == mic.open \cup {busy}
    <3>1. mic' = [mic EXCEPT !.open = open, !.bar = busy] /\ open \subseteq Windows
      BY <1>1, <2>2 DEF ComposerFocused, MicStates
    <3>2. /\ busy = Apps[1] => Apps[1] \in open
          /\ Apps[1] \in open => Engaged
      BY DEF Engaged
    <3> HIDE DEF open
    <3>3. mic' \in MicStates /\ mic'.down = mic.down /\ mic'.bar = busy /\ mic'.open = open
      BY <1>1, <3>1 DEF MicStates
    <3> QED
      BY <3>2, <3>3
  <2>3. CASE ComposerFocused /\ front # busy
    <3> DEFINE open == mic.open \ {busy}
    <3>1. mic' = [mic EXCEPT !.open = open] /\ open \subseteq Windows
      BY <1>1, <2>3 DEF ComposerFocused, MicStates
    <3>2. /\ mic.bar = Apps[1] => Apps[1] \in open
          /\ Apps[1] \in open => Engaged
      BY <1>1 DEF Engaged, MicInv
    <3> HIDE DEF open
    <3>3. mic' \in MicStates /\ mic'.down = mic.down /\ mic'.bar = mic.bar /\ mic'.open = open
      BY <1>1, <3>1 DEF MicStates
    <3> QED
      BY <3>2, <3>3
  <2> QED
    BY <2>1, <2>2, <2>3
<1>4. busy' # Apps[1]
  BY <1>2
<1>5. MicInv'
  BY <1>1, <1>2, <1>3, <1>4 DEF MicInv, NoMic, Engaged
<1>6. TypeInv'
  BY <1>1, <1>2, <1>3 DEF TypeInv, TypeOK, MicStates
<1> QED
  BY <1>1, <1>2, <1>5, <1>6, GestureKept, AutoKept DEF Inv

-----------------------------------------------------------------------------
(* The worker: the next state of it is what matters.                       *)
LEMMA WorkerKeepsInv ==
    ASSUME Inv, NEW a \in Workers, Worker(a), a.asked = auto.asked,
           a.asleep => a.request # NoRequest /\ a.attempt < MaxAttempts,
           a.shown <= a.asked,
           a.request # NoRequest => a.shown <= a.request.n /\ a.request.n <= a.asked,
           a.pending # NoRequest =>
              /\ a.shown <= a.pending.n /\ a.request.n <= a.pending.n
              /\ a.pending.n <= a.asked
    PROVE  Inv'
<1>1. /\ TypeInv /\ TypeOK /\ GestureInv /\ MicInv
      /\ auto' = a
      /\ UNCHANGED <<app, serial, primary, board, view, key, saw, mic, busy, front, wire, hid,
                     acts, used>>
  BY DEF Inv, TypeInv, Worker, deck, desk
<1>2. TypeInv' /\ AutoInv'
  BY <1>1 DEF TypeInv, TypeOK, AutoInv, Workers
<1> QED
  BY <1>1, <1>2, GestureKept, MicKept DEF Inv

(* The requests are taken in their order, and what is shown is the request *)
(* in work or an earlier one.                                              *)
LEMMA AutomationKeepsInv == Inv /\ Automation => Inv' /\ auto'.shown >= auto.shown
<1> SUFFICES ASSUME Inv, Automation
             PROVE  Inv' /\ auto'.shown >= auto.shown
  OBVIOUS
<1> USE ConstantsHold DEF Constants
<1>1. /\ auto \in Workers /\ AutoInv
      /\ auto.asleep => auto.request # NoRequest /\ auto.attempt < MaxAttempts
  BY DEF Inv, TypeInv
<1>2. /\ auto.shown \in 0 .. MaxGestures /\ auto.asked \in 0 .. MaxGestures
      /\ auto.settled \in 0 .. MaxGestures /\ auto.attempt \in 0 .. MaxAttempts
      /\ auto.pending \in Request \cup {NoRequest} /\ auto.request \in Request \cup {NoRequest}
      /\ auto.asleep \in BOOLEAN
      /\ auto.request.n \in 0 .. MaxGestures /\ auto.pending.n \in 0 .. MaxGestures
      /\ auto.request # NoRequest => auto.request.n \in Gestures
  BY <1>1 DEF Workers, Request, NoRequest
<1>3. /\ NoRequest.n = 0 /\ NoRequest \in Request \cup {NoRequest}
      /\ 0 \in 0 .. MaxAttempts /\ 1 \in 0 .. MaxAttempts
  BY DEF NoRequest
<1>4. auto.shown >= auto.shown
  BY <1>2
(* Giving up leaves the next request and what is shown.                    *)
<1> DEFINE idle == Idle(auto)
<1>5. Worker(idle) => Inv' /\ auto'.shown >= auto.shown
  <2>1. /\ idle \in Workers /\ idle.request = NoRequest /\ ~idle.asleep
        /\ idle.pending = auto.pending /\ idle.asked = auto.asked /\ idle.shown = auto.shown
    BY <1>1, <1>3 DEF Idle, Workers
  <2>2. /\ auto.shown <= auto.asked
        /\ auto.pending # NoRequest =>
              auto.shown <= auto.pending.n /\ 0 <= auto.pending.n /\ auto.pending.n <= auto.asked
    BY <1>1, <1>2 DEF AutoInv
  <2> HIDE DEF idle
  <2>3. Worker(idle) => auto' = idle
    BY DEF Worker
  <2> QED
    BY <1>3, <1>4, <2>1, <2>2, <2>3, WorkerKeepsInv
<1>6. CASE TakeRequest
  <2> DEFINE a == [auto EXCEPT !.request = auto.pending, !.pending = NoRequest, !.attempt = 1]
  <2>1. Worker(a) /\ auto.request = NoRequest /\ auto.pending # NoRequest /\ ~auto.asleep
    BY <1>1, <1>6 DEF TakeRequest
  <2>2. /\ a \in Workers /\ a.request = auto.pending /\ a.pending = NoRequest
        /\ a.asked = auto.asked /\ a.shown = auto.shown /\ a.asleep = auto.asleep
    BY <1>1, <1>2, <1>3 DEF Workers
  <2>3. /\ auto.shown <= auto.asked /\ auto.shown <= auto.pending.n
        /\ auto.pending.n <= auto.asked
    BY <1>1, <2>1 DEF AutoInv
  <2> HIDE DEF a
  <2>4. auto' = a
    BY <2>1 DEF Worker
  <2> QED
    BY <1>4, <2>1, <2>2, <2>3, <2>4, WorkerKeepsInv
<1>7. CASE TrySucceeds
  <2> DEFINE n == auto.request.n
             b == [auto EXCEPT !.shown = n, !.settled = n]
             a == Idle(b)
  <2>1. Worker(a) /\ auto.request # NoRequest
    BY <1>7 DEF TrySucceeds, Trying
  <2>2. n \in 0 .. MaxGestures /\ auto.shown <= n /\ n <= auto.asked
    BY <1>1, <1>2, <2>1 DEF AutoInv
  <2>3. auto.pending # NoRequest => /\ n <= auto.pending.n /\ 0 <= auto.pending.n
                                    /\ auto.pending.n <= auto.asked
    BY <1>1, <1>2 DEF AutoInv
  <2> HIDE DEF n
  <2>4. /\ b \in Workers /\ b.shown = n /\ b.pending = auto.pending /\ b.asked = auto.asked
    BY <1>1, <2>2 DEF Workers
  <2> HIDE DEF b
  <2>5. /\ a \in Workers /\ a.request = NoRequest /\ ~a.asleep
        /\ a.pending = auto.pending /\ a.asked = auto.asked /\ a.shown = n
    BY <1>3, <2>4 DEF Idle, Workers
  <2> HIDE DEF a
  <2>6. auto' = a /\ n >= auto.shown
    BY <1>2, <2>1, <2>2 DEF Worker
  <2> QED
    BY <1>3, <2>1, <2>2, <2>3, <2>5, <2>6, WorkerKeepsInv
<1>8. CASE TryFails
  <2> DEFINE a == [auto EXCEPT !.asleep = TRUE]
  <2>1. Worker(a) /\ auto.request # NoRequest /\ auto.attempt < MaxAttempts
    BY <1>8 DEF TryFails, Trying
  <2>2. /\ a \in Workers /\ a.request = auto.request /\ a.pending = auto.pending
        /\ a.asked = auto.asked /\ a.shown = auto.shown /\ a.attempt = auto.attempt
    BY <1>1 DEF Workers
  <2> HIDE DEF a
  <2>3. auto' = a
    BY <2>1 DEF Worker
  <2> QED
    BY <1>1, <1>4, <2>1, <2>2, <2>3, WorkerKeepsInv DEF AutoInv
<1>9. CASE LastTryFails
  <2> DEFINE n == auto.request.n
             b == [auto EXCEPT !.settled = n]
             a == Idle(b)
  <2>1. Worker(a) /\ n \in 0 .. MaxGestures
    BY <1>2, <1>9 DEF LastTryFails
  <2> HIDE DEF n
  <2>2. /\ b \in Workers /\ b.shown = auto.shown /\ b.pending = auto.pending
        /\ b.asked = auto.asked
    BY <1>1, <2>1 DEF Workers
  <2> HIDE DEF b
  <2>3. /\ a \in Workers /\ a.request = NoRequest /\ ~a.asleep
        /\ a.pending = auto.pending /\ a.asked = auto.asked /\ a.shown = auto.shown
    BY <1>3, <2>2 DEF Idle, Workers
  <2>4. /\ auto.shown <= auto.asked
        /\ auto.pending # NoRequest =>
              auto.shown <= auto.pending.n /\ 0 <= auto.pending.n /\ auto.pending.n <= auto.asked
    BY <1>1, <1>2 DEF AutoInv
  <2> HIDE DEF a
  <2>5. auto' = a
    BY <2>1 DEF Worker
  <2> QED
    BY <1>3, <1>4, <2>1, <2>3, <2>4, <2>5, WorkerKeepsInv
<1>10. CASE Superseded
  BY <1>5, <1>10 DEF Superseded
<1>11. CASE Wake
  <2>1. CASE auto.pending # NoRequest
    BY <1>5, <1>11, <2>1 DEF Wake
  <2>2. CASE auto.pending = NoRequest
    <3> DEFINE n == auto.attempt + 1
               a == [auto EXCEPT !.asleep = FALSE, !.attempt = n]
    <3>1. Worker(a) /\ auto.asleep
      BY <1>11, <2>2 DEF Wake
    <3>2. n \in 0 .. MaxAttempts
      BY <1>1, <1>2, <3>1
    <3> HIDE DEF n
    <3>3. /\ a \in Workers /\ a.request = auto.request /\ a.pending = auto.pending
          /\ a.asked = auto.asked /\ a.shown = auto.shown /\ ~a.asleep
      BY <1>1, <3>2 DEF Workers
    <3> HIDE DEF a
    <3>4. auto' = a
      BY <3>1 DEF Worker
    <3> QED
      BY <1>1, <1>4, <3>1, <3>3, <3>4, WorkerKeepsInv DEF AutoInv
  <2> QED
    BY <2>1, <2>2
<1> QED
  BY <1>6, <1>7, <1>8, <1>9, <1>10, <1>11 DEF Automation

-----------------------------------------------------------------------------
LEMMA StepKeepsInv == Inv /\ [Next]_vars => Inv'
<1> SUFFICES ASSUME Inv, [Next]_vars
             PROVE  Inv'
  OBVIOUS
<1>1. CASE ChangeBoard \/ (\E w \in Windows : SwitchWindow(w)) \/ Render \/ UNCHANGED vars
  BY <1>1, SurroundingsKeepInv
<1>2. CASE StartUpload \/ ImageAppears \/ EndUpload
  BY <1>2, UploadKeepsInv
<1>3. CASE KeyDown \/ LongPress \/ KeyUp \/ MicDown \/ MicUp
  BY <1>3, KeyDownKeepsInv, KeyLinesKeepInv, MicLinesKeepInv
<1>4. CASE Daemon
  BY <1>4, RouteKeepsInv, ComposerKeepsInv DEF Daemon
<1>5. CASE Automation
  BY <1>5, AutomationKeepsInv
<1> QED
  BY <1>1, <1>2, <1>3, <1>4, <1>5 DEF Next, Plugin

(* The invariant is inductive: every step of the plugin, the daemon and    *)
(* the worker, and every change of their surroundings, keeps it.           *)
THEOREM Invariant == Spec => []Inv
<1>1. Init => Inv
  BY InitInv
<1>2. Inv /\ [Next]_vars => Inv'
  BY StepKeepsInv
<1> QED
  BY <1>1, <1>2, PTL DEF Spec

-----------------------------------------------------------------------------
(* Every variable keeps its type: no request is tried more often than the  *)
(* worker's MAX_ATTEMPTS, and Codex is told of no other key of the Micro   *)
(* than those of mirrored cards and ACT10.                                 *)
THEOREM TypeCorrect == Spec => []TypeOK
<1>1. Inv => TypeOK
  BY DEF Inv, TypeInv
<1> QED
  BY <1>1, Invariant, PTL

(* A gesture acts on a card whose picture was on the key, or on its way    *)
(* off it, when the finger came down, however the cards have moved since   *)
(* (onKeyDown of task-card.ts, resolve_task_target).                       *)
THEOREM ShownCardActs == Spec => []ActsOnTheShownCard
<1>1. Inv => ActsOnTheShownCard
  BY DEF Inv, GestureInv, ActInv
<1> QED
  BY <1>1, Invariant, PTL

(* Press, long press and release of one gesture select or answer once      *)
(* (route_task_button, route_task_action, route_task_toggle).              *)
THEOREM OneAct == Spec => []OneGestureOneAct
<1>1. Inv => OneGestureOneAct
  BY DEF Inv, GestureInv, ActInv
<1> QED
  BY <1>1, Invariant, PTL

(* Only a try of the worker changes the session that an app shows.         *)
LEMMA StepShowsNoOlder == Inv /\ [Next]_vars => auto'.shown >= auto.shown
<1> SUFFICES ASSUME Inv, [Next]_vars
             PROVE  auto'.shown >= auto.shown
  OBVIOUS
<1> USE ConstantsHold DEF Constants
<1>1. auto \in Workers /\ auto.shown \in 0 .. MaxGestures
  BY DEF Inv, TypeInv, Workers
<1>2. CASE UNCHANGED auto
  BY <1>1, <1>2
<1>3. CASE Automation
  BY <1>3, AutomationKeepsInv
<1>4. CASE Route
  <2>1. UNCHANGED auto \/ \E t, g : Select(t, g)
    BY <1>4 DEF Route, Inert, OnPrimary, OnAuxiliary, RouteLine, RouteMic, RouteButton,
                RouteAction, RouteToggle
  <2>2. ASSUME NEW t, NEW g, Select(t, g)
        PROVE  auto'.shown = auto.shown
    <3> DEFINE n == auto.asked + 1
               r == [task |-> t, n |-> n]
    <3>1. auto' = auto \/ auto' = [auto EXCEPT !.pending = r, !.asked = n]
      BY <2>2 DEF Select
    <3> HIDE DEF r, n
    <3> QED
      BY <1>1, <3>1 DEF Workers
  <2> QED
    BY <1>1, <2>1, <2>2
<1> QED
  BY <1>2, <1>3, <1>4
  DEF Next, Plugin, Daemon, vars, ChangeBoard, SwitchWindow, Render, StartUpload,
      ImageAppears, EndUpload, KeyDown, LongPress, KeyUp, MicDown, MicUp,
      ComposerFocused, ComposerFails

(* An app is never driven back to the session of an earlier press: the     *)
(* queue hands requests out in their order and a superseded one is given   *)
(* up (queue_request, run_request).                                        *)
THEOREM NoOlder == Spec => NoOlderSession
<1>1. Inv /\ [Next]_vars => [auto'.shown >= auto.shown]_vars
  BY StepShowsNoOlder
<1> QED
  BY <1>1, Invariant, PTL DEF Spec, NoOlderSession

(* When the mic key is up and its last line is handled, the first app of   *)
(* the list has no dictation open and its bar is not on the screen,        *)
(* whatever window came to the front in between (set_microphone).          *)
THEOREM FirstAppCloses == Spec => []FirstAppIsClosed
<1>1. Inv => FirstAppIsClosed
  <2> SUFFICES ASSUME Inv, MicAtRest
               PROVE  Apps[1] \notin mic.open /\ mic.bar # Apps[1]
    BY DEF FirstAppIsClosed
  <2>1. ~mic.down /\ NoMic(wire, 0, Len(wire) + 1)
    BY DEF MicAtRest, NoMic
  <2>2. ~Engaged
    BY <2>1 DEF Inv, MicInv
  <2> QED
    BY <2>2 DEF Inv, MicInv, Engaged
<1> QED
  BY <1>1, Invariant, PTL
=============================================================================

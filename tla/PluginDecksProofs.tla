-------------------------- MODULE PluginDecksProofs --------------------------
(***************************************************************************)
(* Theorems about PluginDecks for every set of connections, plugins and    *)
(* slot owners.  The inductive invariant is Inv: the types, what is known  *)
(* of a session whose message is on the way, and that the controllers of   *)
(* the daemon fit the sessions it has mapped (Fits).  The first part says  *)
(* of each operation on the controllers that its result fits again and     *)
(* which controllers it keeps.                                             *)
(***************************************************************************)
EXTENDS PluginDecks, SequenceTheorems, TLAPS

(* With a deck of its own the daemon partitions that one for good;         *)
(* otherwise a primary is the plugin of the partitioned device.            *)
PrimaryFits(b) ==
    /\ b.primary \notin b.aux
    /\ b.choice = Hw => b.primary \in {Hw, None} /\ b.device = Hw
    /\ b.choice = None => b.primary # Hw
    /\ b.primary \in Sessions => b.device = plugin[b.primary]

Served(b) ==
    \A d \in b.board \ {b.device} : \E c \in Controllers(b) : DeviceOf(c) = d

(* M: the sessions that are mapped.                                        *)
Fits(b, M) ==
    /\ b \in Bridges
    /\ Controllers(b) \cap Sessions \subseteq M
    /\ PrimaryFits(b)
    /\ Served(b)

Distinct(M) == \A s, t \in M : plugin[s] = plugin[t] => s = t

Started(s) == reader[s] # "none"

Names == \A s \in Sessions : Started(s) => plugin[s] \in Plugins

Inv ==
    /\ TypeOK
    /\ Names
    /\ \A k \in DOMAIN inbox : Started(inbox[k].session)
    /\ \A s \in mapped : Started(s)
    /\ Distinct(mapped)
    /\ Fits(bridge, mapped)
    /\ LiveDeckAttached

-----------------------------------------------------------------------------
(* The operations on the controllers.                                      *)

LEMMA ChangedFits ==
    ASSUME NEW b, NEW M, Fits(b, M), NEW S \in SUBSET b.shown
    PROVE  /\ Fits(Changed(b, S), M)
           /\ Controllers(Changed(b, S)) = Controllers(b)
BY DEF Fits, Changed, Bridges, Controllers, PrimaryFits, Served

LEMMA DetachFits ==
    ASSUME NEW b, NEW M \in SUBSET Sessions, Fits(b, M), NEW d \in Plugins,
           Distinct(M)
    PROVE  /\ Fits(Detach(b, d), {s \in M : plugin[s] # d})
           /\ \A c \in Controllers(b) :
                 DeviceOf(c) # d => c \in Controllers(Detach(b, d))
<1> DEFINE r == Detach(b, d)
           kept == {s \in b.aux : plugin[s] # d}
<1>1. /\ d # None /\ d # Hw /\ Hw \notin Sessions /\ None \notin Sessions /\ Hw # None
      /\ b \in Bridges /\ Controllers(b) \cap Sessions \subseteq M /\ b.aux \subseteq M
  BY DecksAssumption DEF Fits, Bridges, Controllers
<1>2. CASE b.device = d /\ b.primary # None
  <2>1. /\ r = [b EXCEPT !.board = @ \ {d}, !.primary = None, !.device = None,
                        !.owners = None]
        /\ b.primary \in Sessions /\ plugin[b.primary] = d
    BY <1>1, <1>2 DEF Detach, Forget, Fits, PrimaryFits, Bridges, Decks
  <2>2. /\ r \in Bridges /\ r.choice = None /\ r.primary = None /\ r.aux = b.aux
        /\ r.device = None /\ r.board = b.board \ {d}
    BY <1>1, <1>2, <2>1 DEF Bridges, Fits, PrimaryFits
  <2> QED
    BY <1>1, <1>2, <2>1, <2>2
       DEF Fits, PrimaryFits, Served, Controllers, DeviceOf, Distinct
<1>3. CASE ~(b.device = d /\ b.primary # None) /\ \A s \in b.aux : plugin[s] # d
  <2>1. r = b
    BY <1>3 DEF Detach
  <2> QED
    BY <1>1, <1>3, <2>1 DEF Fits, PrimaryFits, Controllers, DeviceOf, Bridges, Decks
<1>4. CASE ~(b.device = d /\ b.primary # None) /\ \E s \in b.aux : plugin[s] = d
  <2>1. /\ r \in Bridges /\ r.choice = b.choice /\ r.primary = b.primary
        /\ r.aux = kept /\ r.board = b.board \ {d}
        /\ r.device = IF b.device = d THEN None ELSE b.device
    BY <1>1, <1>4 DEF Detach, Forget, Bridges
  <2>2. Controllers(r) \cap Sessions \subseteq {s \in M : plugin[s] # d}
    BY <1>1, <1>4, <2>1 DEF Fits, PrimaryFits, Controllers, Bridges, Decks
  <2>3. PrimaryFits(r) /\ Served(r)
    BY <1>1, <1>4, <2>1 DEF Fits, PrimaryFits, Served, Controllers, DeviceOf
  <2> QED
    BY <1>1, <2>1, <2>2, <2>3 DEF Fits, Controllers, DeviceOf
<1> QED
  BY <1>2, <1>3, <1>4

(* What fails or is lost leaves the controllers, and takes from the board  *)
(* at most its own slots and those of auxiliary controllers that left.     *)
LEMMA RefreshFits ==
    ASSUME NEW b, NEW M \in SUBSET Sessions, Fits(b, M), Distinct(M)
    PROVE  /\ Fits(Refresh(b), M)
           /\ Controllers(b) \ deaf \subseteq Controllers(Refresh(b))
<1> DEFINE r == Refresh(b)
           failing == Failing(b)
<1>1. /\ Hw \notin Sessions /\ None \notin Sessions /\ Hw # None
      /\ b \in Bridges /\ Controllers(b) \cap Sessions \subseteq M /\ b.aux \subseteq M
      /\ failing \subseteq Controllers(b) \cap deaf
      /\ None \notin failing
  BY DecksAssumption DEF Fits, Bridges, Controllers, Failing, Decks
<1>2. CASE b.primary \in failing
  <2>1. /\ r \in Bridges /\ r.choice = b.choice /\ r.primary = None /\ r.aux = b.aux
        /\ r.device = b.device /\ r.board = b.board
    BY <1>1, <1>2 DEF Refresh, Bridges
  <2>2. DeviceOf(b.primary) = b.device
    BY <1>1, <1>2 DEF Fits, PrimaryFits, DeviceOf, Bridges, Decks
  <2> QED
    BY <1>1, <1>2, <2>1, <2>2 DEF Fits, PrimaryFits, Served, Controllers, DeviceOf
<1>3. CASE b.primary \notin failing
  <2>1. /\ r \in Bridges /\ r.choice = b.choice /\ r.primary = b.primary
        /\ r.aux = b.aux \ failing /\ r.device = b.device
        /\ r.board = b.board \ {plugin[s] : s \in b.aux \cap failing}
    <3> DEFINE board == b.board \ {plugin[s] : s \in b.aux \cap failing}
               shown == b.shown \cup (Controllers(b) \ failing)
    <3>1. r = [b EXCEPT !.aux = @ \ failing,
                        !.board = @ \ {plugin[s] : s \in b.aux \cap failing},
                        !.shown = @ \cup (Controllers(b) \ failing)]
      BY <1>3, Zenon DEF Refresh
    <3>2. Controllers(b) \subseteq Decks
      BY <1>1 DEF Bridges, Controllers, Decks
    <3>3. board \subseteq Plugins \cup {Hw} /\ board \subseteq b.board /\ shown \subseteq Decks
      BY <1>1, <3>2 DEF Bridges
    <3> HIDE DEF board, shown, failing
    <3>4. /\ r \in Bridges /\ r.choice = b.choice /\ r.primary = b.primary
          /\ r.aux = b.aux \ failing /\ r.device = b.device /\ r.board = board
      BY <1>1, <3>1, <3>3 DEF Bridges, board, shown
    <3> QED
      BY <3>4 DEF board
  <2>2. Controllers(r) = Controllers(b) \ failing
    BY <1>1, <1>3, <2>1 DEF Controllers
  <2>3. ASSUME NEW d \in r.board \ {r.device}
        PROVE  \E c \in Controllers(r) : DeviceOf(c) = d
    <3>1. PICK c \in Controllers(b) : DeviceOf(c) = d
      BY <2>1 DEF Fits, Served
    <3>2. c \notin failing
      BY <1>1, <1>3, <2>1, <3>1 DEF Controllers, DeviceOf
    <3> QED
      BY <2>2, <3>1, <3>2
  <2>4. PrimaryFits(r)
    BY <1>1, <2>1 DEF Fits, PrimaryFits
  <2> QED
    BY <1>1, <2>1, <2>2, <2>3, <2>4 DEF Fits, Served
<1> QED
  BY <1>2, <1>3

Lost == {s \in Sessions : reader[s] = "gone"} \cup ({Hw} \cap deaf)

LEMMA PollFits ==
    ASSUME NEW b, NEW M \in SUBSET Sessions, Fits(b, M), NEW w \in Wishes \cup {None},
           plugin \in [Sessions -> Plugins \cup {None}]
    PROVE  /\ Fits([Poll(b) EXCEPT !.owners = w], M)
           /\ Controllers(b) \ Lost \subseteq Controllers([Poll(b) EXCEPT !.owners = w])
<1> DEFINE left == {plugin[s] : s \in b.aux \cap Lost}
           primary == IF b.primary \in Lost THEN None ELSE b.primary
           r == [Poll(b) EXCEPT !.owners = w]
<1>1. /\ Hw \notin Sessions /\ None \notin Sessions /\ Hw # None /\ None \notin Lost
      /\ b \in Bridges /\ Controllers(b) \cap Sessions \subseteq M /\ b.aux \subseteq M
  BY DecksAssumption DEF Fits, Bridges, Controllers, Lost
<1>2. /\ r \in Bridges /\ r.choice = b.choice /\ r.primary = primary
      /\ r.aux = b.aux \ Lost /\ r.board = b.board \ left
      /\ r.device = IF primary = None /\ b.device \in left THEN None ELSE b.device
  BY <1>1 DEF Poll, Bridges, Forget, Lost
<1>3. Controllers(r) = Controllers(b) \ Lost
  BY <1>1, <1>2 DEF Controllers
<1>4. ASSUME NEW d \in r.board \ {r.device}
      PROVE  \E c \in Controllers(r) : DeviceOf(c) = d
  <2>1. d \in b.board \ {b.device} /\ d \notin left
    BY <1>2, <1>4
  <2>2. PICK c \in Controllers(b) : DeviceOf(c) = d
    BY <2>1 DEF Fits, Served
  <2>3. c \notin Lost
    BY <1>1, <2>1, <2>2 DEF Fits, PrimaryFits, Controllers, DeviceOf, Lost, Bridges, Decks
  <2> QED
    BY <1>3, <2>2, <2>3
<1>5. PrimaryFits(r)
  <2>1. Hw \notin left
    BY <1>1, DecksAssumption DEF Fits, Bridges
  <2> HIDE DEF left, r
  <2> QED
    BY <1>1, <1>2, <2>1 DEF Fits, PrimaryFits, Bridges
<1> QED
  BY <1>1, <1>2, <1>3, <1>4, <1>5 DEF Fits, Served

LEMMA ReopenFits ==
    ASSUME NEW b, NEW M \in SUBSET Sessions, Fits(b, M)
    PROVE  /\ Fits(Reopen(b), M)
           /\ Controllers(b) \subseteq Controllers(Reopen(b))
<1>1. /\ Hw \notin Sessions /\ None \notin Sessions /\ Hw # None
      /\ b \in Bridges /\ Controllers(b) \cap Sessions \subseteq M
  BY DecksAssumption DEF Fits
<1>2. CASE b.primary = None /\ b.choice = Hw /\ plugged
  <2> DEFINE r == Reopen(b)
  <2>1. /\ r \in Bridges /\ r.choice = Hw /\ r.primary = Hw /\ r.aux = b.aux
        /\ r.device = b.device /\ r.board = b.board \cup {Hw}
    BY <1>1, <1>2 DEF Reopen, Bridges, Decks
  <2> QED
    BY <1>1, <1>2, <2>1 DEF Fits, PrimaryFits, Served, Controllers, DeviceOf, Bridges
<1> QED
  BY <1>1, <1>2 DEF Reopen

(* A newcomer replaces the stale sessions of its plugin and nobody else.   *)
LEMMA AttachFits ==
    ASSUME NEW b, NEW M \in SUBSET Sessions, Fits(b, M), Distinct(M),
           NEW s \in Sessions, plugin[s] \in Plugins,
           NEW stale \in SUBSET M, \A t \in M : t \in stale <=> plugin[t] = plugin[s]
    PROVE  /\ Fits(Attach(b, s, stale), (M \ stale) \cup {s})
           /\ Controllers(b) \ stale \subseteq Controllers(Attach(b, s, stale))
           /\ s \in Controllers(Attach(b, s, stale))
<1> DEFINE d == plugin[s]
           c == IF stale # {} THEN Detach(b, d) ELSE b
           r == Attach(b, s, stale)
<1>1. Hw \notin Sessions /\ None \notin Sessions /\ Hw # None /\ d # Hw /\ d # None
  BY DecksAssumption
<1>2. /\ Fits(c, M \ stale)
      /\ \A e \in Controllers(b) : e \notin stale => e \in Controllers(c)
  <2>1. CASE stale # {}
    <3>1. {t \in M : plugin[t] # d} = M \ stale
      OBVIOUS
    <3>2. \A e \in Controllers(b) : e \notin stale => DeviceOf(e) # d
      BY <1>1 DEF Fits, Controllers, DeviceOf, Bridges, Decks
    <3> QED
      BY <2>1, <3>1, <3>2, DetachFits
  <2>2. CASE stale = {}
    BY <2>2
  <2> QED
    BY <2>1, <2>2
<1>3. /\ c \in Bridges /\ Controllers(c) \cap Sessions \subseteq M \ stale
      /\ s \notin Controllers(c)
  BY <1>2 DEF Fits
<1> SUFFICES /\ Fits(r, (M \ stale) \cup {s})
             /\ Controllers(b) \ stale \subseteq Controllers(r)
             /\ s \in Controllers(r)
  OBVIOUS
<1> DEFINE e == [c EXCEPT !.board = @ \cup {d}, !.shown = @ \ {s}]
<1>4. r = IF c.primary = None /\ c.device = None
          THEN [e EXCEPT !.primary = s, !.device = d, !.owners = None]
          ELSE [e EXCEPT !.aux = @ \cup {s}]
  BY DEF Attach
<1> HIDE DEF c, r
<1>5. /\ e \in Bridges /\ e.choice = c.choice /\ e.primary = c.primary
      /\ e.aux = c.aux /\ e.device = c.device /\ e.board = c.board \cup {d}
  BY <1>3 DEF Bridges
<1> HIDE DEF e
<1>6. CASE c.primary = None /\ c.device = None
  <2>1. /\ r \in Bridges /\ r.choice = c.choice /\ r.primary = s /\ r.aux = c.aux
        /\ r.device = d /\ r.board = c.board \cup {d}
    BY <1>4, <1>5, <1>6 DEF Bridges, Decks
  <2>2. Controllers(r) = Controllers(c) \cup {s}
    BY <1>1, <1>6, <2>1 DEF Controllers
  <2>3. PrimaryFits(r)
    BY <1>1, <1>2, <1>3, <1>6, <2>1 DEF Fits, PrimaryFits, Controllers
  <2>4. Served(r)
    <3>1. ASSUME NEW x \in c.board, x # c.device
          PROVE  \E y \in Controllers(c) : DeviceOf(y) = x
      BY <1>2, <3>1 DEF Fits, Served
    <3>2. DeviceOf(s) = d
      BY <1>1 DEF DeviceOf
    <3>3. None \notin c.board
      BY <1>3, DecksAssumption DEF Bridges
    <3> HIDE DEF d
    <3> QED
      BY <1>6, <2>1, <2>2, <3>1, <3>2, <3>3 DEF Served
  <2> QED
    BY <1>2, <1>3, <2>1, <2>2, <2>3, <2>4 DEF Fits
<1>7. CASE ~(c.primary = None /\ c.device = None)
  <2>1. /\ r \in Bridges /\ r.choice = c.choice /\ r.primary = c.primary
        /\ r.aux = c.aux \cup {s} /\ r.device = c.device
        /\ r.board = c.board \cup {d}
    BY <1>4, <1>5, <1>7 DEF Bridges, Decks
  <2>2. Controllers(r) = Controllers(c) \cup {s}
    BY <1>1, <1>7, <2>1 DEF Controllers
  <2>3. PrimaryFits(r)
    BY <1>1, <1>2, <1>3, <1>7, <2>1 DEF Fits, PrimaryFits, Controllers
  <2>4. Served(r)
    <3>1. ASSUME NEW x \in c.board, x # c.device
          PROVE  \E y \in Controllers(c) : DeviceOf(y) = x
      BY <1>2, <3>1 DEF Fits, Served
    <3>2. DeviceOf(s) = d
      BY <1>1 DEF DeviceOf
    <3>3. None \notin c.board
      BY <1>3, DecksAssumption DEF Bridges
    <3> HIDE DEF d
    <3> QED
      BY <1>7, <2>1, <2>2, <3>1, <3>2, <3>3 DEF Served
  <2> QED
    BY <1>2, <1>3, <2>1, <2>2, <2>3, <2>4 DEF Fits
<1> QED
  BY <1>6, <1>7

-----------------------------------------------------------------------------
(* The steps.                                                              *)

LEMMA InitInv == Init => Inv
<1> SUFFICES ASSUME Init
             PROVE  Inv
  OBVIOUS
<1> USE DecksAssumption DEF Init
<1>1. TypeOK
  BY DEF TypeOK, Bridges, Decks
<1>2. PrimaryFits(bridge) /\ Served(bridge) /\ Controllers(bridge) \cap Sessions = {}
  BY DEF PrimaryFits, Served, Controllers, DeviceOf
<1>3. Fits(bridge, mapped)
  BY <1>1, <1>2 DEF Fits, TypeOK
<1>4. DOMAIN inbox = {} /\ mapped = {}
  OBVIOUS
<1> QED
  BY <1>1, <1>3, <1>4 DEF Inv, Distinct, LiveDeckAttached, Names, Started

LEMMA Sent ==
    ASSUME NEW N, NEW kind \in {"hello", "bye"}, NEW s \in N \cap Sessions,
           Send(kind, s), inbox \in Seq(Message),
           \A k \in DOMAIN inbox : inbox[k].session \in N
    PROVE  /\ inbox' \in Seq(Message)
           /\ \A k \in DOMAIN inbox' : inbox'[k].session \in N
<1> DEFINE m == [kind |-> kind, session |-> s]
<1>1. m \in Message /\ inbox' = Append(inbox, m)
  BY DEF Send, Message
<1>2. /\ inbox' \in Seq(Message) /\ Len(inbox') = Len(inbox) + 1
      /\ \A k \in 1 .. Len(inbox) : inbox'[k] = inbox[k]
      /\ inbox'[Len(inbox) + 1] = m
  BY <1>1, AppendProperties
<1> QED
  BY <1>2

LEMMA Received ==
    ASSUME NEW N, inbox \in Seq(Message), inbox # << >>, inbox' = Tail(inbox),
           \A k \in DOMAIN inbox : inbox[k].session \in N
    PROVE  /\ inbox' \in Seq(Message)
           /\ \A k \in DOMAIN inbox' : inbox'[k].session \in N
           /\ Head(inbox) \in Message /\ Head(inbox).session \in N
<1>1. /\ inbox' \in Seq(Message) /\ Len(inbox') = Len(inbox) - 1
      /\ \A k \in 1 .. Len(inbox') : inbox'[k] = inbox[k + 1]
      /\ Len(inbox) \in Nat \ {0} /\ Head(inbox) = inbox[1]
      /\ Head(inbox) \in Message
  BY HeadTailProperties, EmptySeq
<1> QED
  BY <1>1

(* What the threads do leaves the controllers alone, and a reader that     *)
(* starts is of a session nobody has heard of.                             *)
LEMMA ThreadsKeepInv == Inv /\ Threads => Inv'
<1> SUFFICES ASSUME Inv, Threads
             PROVE  Inv'
  OBVIOUS
<1> DEFINE N == {s \in Sessions : Started(s)}
<1> USE DecksAssumption
<1>1. /\ TypeOK /\ inbox \in Seq(Message) /\ mapped \subseteq N
      /\ \A k \in DOMAIN inbox : inbox[k].session \in N
      /\ Fits(bridge, mapped) /\ Distinct(mapped) /\ LiveDeckAttached /\ Names
      /\ UNCHANGED <<mapped, bridge, step>>
  <2>1. inbox \in Seq(Message) /\ \A k \in DOMAIN inbox : inbox[k].session \in Sessions
    <3>1. inbox \in Seq(Message)
      BY DEF Inv, TypeOK
    <3>2. \A k \in DOMAIN inbox : inbox[k] \in Message
      BY <3>1, ElementOfSeq, LenProperties
    <3> QED
      BY <3>1, <3>2 DEF Message
  <2> QED
    BY <2>1 DEF Inv, TypeOK, Threads, Connect, Announce, EndOfInput, DropSender,
         LineForNobody, WriterEnds, PullOut, PlugIn, threads, devices
<1>2. ASSUME \A s \in N : plugin'[s] = plugin[s] /\ reader'[s] # "none",
             deaf \subseteq deaf',
             \A s \in mapped : reader'[s] = "reading" => reader[s] = "reading"
      PROVE  /\ N \subseteq N'
             /\ (Fits(bridge, mapped) /\ Distinct(mapped) /\ LiveDeckAttached)'
  <2>1. N \subseteq N'
    BY <1>2 DEF Started
  <2>2. Distinct(mapped)'
    BY <1>1, <1>2 DEF Distinct
  <2>3. \A c \in Controllers(bridge) : DeviceOf(c)' = DeviceOf(c)
    BY <1>1, <1>2 DEF Fits, Controllers, DeviceOf, Bridges, Decks
  <2>4. Served(bridge)' /\ PrimaryFits(bridge)'
    BY <1>1, <1>2, <2>3 DEF Fits, PrimaryFits, Served, Controllers, Bridges
  <2>5. LiveDeckAttached'
    BY <1>1, <1>2 DEF LiveDeckAttached, Controllers
  <2> QED
    BY <1>1, <2>1, <2>2, <2>4, <2>5 DEF Fits, Controllers, Bridges
<1>3. ASSUME TypeOK', Names', N \subseteq N',
             \A k \in DOMAIN inbox' : inbox'[k].session \in N',
             (Fits(bridge, mapped) /\ Distinct(mapped) /\ LiveDeckAttached)'
      PROVE  Inv'
  BY <1>1, <1>3 DEF Inv
<1> HIDE DEF N
<1>4. ASSUME NEW s \in Sessions, NEW p \in Plugins, NEW w \in Wishes \cup {None},
             Connect(s, p, w)
      PROVE  Inv'
  <2>1. /\ N \subseteq N'
        /\ (Fits(bridge, mapped) /\ Distinct(mapped) /\ LiveDeckAttached)'
    BY <1>1, <1>2, <1>4 DEF Connect, devices, N, Started, TypeOK
  <2>2. s \in N'
    BY <1>1, <1>4 DEF Connect, N, Started, TypeOK
  <2>3. inbox' \in Seq(Message) /\ \A k \in DOMAIN inbox' : inbox'[k].session \in N'
    BY <1>1, <1>4, <2>1, <2>2, Sent DEF Connect
  <2>4. TypeOK' /\ Names'
    BY <1>1, <1>4, <2>3 DEF TypeOK, Connect, devices, Names, Started
  <2> QED
    BY <1>3, <2>1, <2>3, <2>4
<1>5. ASSUME NEW s \in Sessions, EndOfInput(s)
      PROVE  Inv'
  <2>1. /\ N \subseteq N'
        /\ (Fits(bridge, mapped) /\ Distinct(mapped) /\ LiveDeckAttached)'
    <3>1. /\ UNCHANGED <<plugin, deaf>>
          /\ \A t \in Sessions : reader'[t] = IF t = s THEN "sent" ELSE reader[t]
      BY <1>1, <1>5 DEF EndOfInput, devices, TypeOK
    <3>2. \A t \in N : t \in Sessions /\ reader[t] # "none"
      BY DEF N, Started
    <3>3. mapped \subseteq N
      BY <1>1
    <3> QED
      BY <1>2, <3>1, <3>2, <3>3
  <2>2. s \in N'
    BY <1>1, <1>5 DEF EndOfInput, N, Started, TypeOK
  <2>3. inbox' \in Seq(Message) /\ \A k \in DOMAIN inbox' : inbox'[k].session \in N'
    BY <1>1, <1>5, <2>1, <2>2, Sent DEF EndOfInput
  <2>4. TypeOK' /\ Names'
    BY <1>1, <1>5, <2>3 DEF TypeOK, EndOfInput, devices, Names, Started
  <2> QED
    BY <1>3, <2>1, <2>3, <2>4
<1>6. ASSUME NEW s \in Sessions, DropSender(s) \/ LineForNobody(s) \/ WriterEnds(s)
      PROVE  Inv'
  <2>1. /\ N \subseteq N'
        /\ (Fits(bridge, mapped) /\ Distinct(mapped) /\ LiveDeckAttached)'
    BY <1>1, <1>2, <1>6
       DEF DropSender, LineForNobody, WriterEnds, devices, threads, N, Started, TypeOK
  <2>2. TypeOK' /\ Names' /\ UNCHANGED inbox
    BY <1>1, <1>6
       DEF TypeOK, Names, Started, DropSender, LineForNobody, WriterEnds, devices,
           threads, Decks
  <2> QED
    BY <1>1, <1>3, <2>1, <2>2
<1>7. ASSUME NEW s \in Sessions, NEW w \in Wishes \cup {None}, Announce(s, w)
      PROVE  Inv'
  <2>1. /\ N \subseteq N'
        /\ (Fits(bridge, mapped) /\ Distinct(mapped) /\ LiveDeckAttached)'
    BY <1>1, <1>2, <1>7 DEF Announce, devices, N, Started, TypeOK
  <2>2. TypeOK' /\ Names' /\ UNCHANGED inbox
    BY <1>1, <1>7 DEF TypeOK, Names, Started, Announce, devices
  <2> QED
    BY <1>1, <1>3, <2>1, <2>2
<1>8. ASSUME PullOut \/ PlugIn
      PROVE  Inv'
  <2>1. /\ N \subseteq N'
        /\ (Fits(bridge, mapped) /\ Distinct(mapped) /\ LiveDeckAttached)'
    BY <1>1, <1>2, <1>8 DEF PullOut, PlugIn, threads, N, Started, TypeOK
  <2>2. TypeOK' /\ Names' /\ UNCHANGED inbox
    BY <1>1, <1>8 DEF TypeOK, Names, Started, PullOut, PlugIn, threads, Decks
  <2> QED
    BY <1>1, <1>3, <2>1, <2>2
<1> QED
  BY <1>4, <1>5, <1>6, <1>7, <1>8 DEF Threads

(* What a pass of the loop does to the controllers keeps those that are    *)
(* live.                                                                   *)
LEMMA LoopKeepsInv == Inv /\ Loop => Inv'
<1> SUFFICES ASSUME Inv, NEW S \in SUBSET bridge.shown,
                    \/ \E s \in Sessions : Hello(s, S) \/ Bye(s, S)
                    \/ Render(S) \/ PollControllers(S)
             PROVE  Inv'
  BY DEF Loop
<1> DEFINE N == {s \in Sessions : Started(s)}
           b == Changed(bridge, S)
<1>1. /\ TypeOK /\ inbox \in Seq(Message) /\ mapped \subseteq Sessions
      /\ \A k \in DOMAIN inbox : Started(inbox[k].session)
      /\ \A s \in mapped : Started(s)
      /\ Fits(bridge, mapped) /\ Distinct(mapped) /\ LiveDeckAttached /\ Names
      /\ plugin \in [Sessions -> Plugins \cup {None}]
  BY DEF Inv, TypeOK
<1>2. Fits(b, mapped) /\ Controllers(b) = Controllers(bridge)
  BY <1>1, ChangedFits
<1>3. UNCHANGED <<reader, plugin, said, plugged>>
  BY DEF Hello, Bye, Receive, Render, PollControllers, threads, devices
<1>4. ASSUME Fits(bridge', mapped'), mapped' \subseteq Sessions,
             \A s \in mapped' : Started(s), Distinct(mapped'),
             inbox' \in Seq(Message), deaf' \subseteq Decks, step' \in {"messages", "poll"},
             \A k \in DOMAIN inbox' : Started(inbox'[k].session),
             \A s \in mapped' \ deaf' : reader[s] = "reading" => s \in Controllers(bridge')
      PROVE  Inv'
  <2>1. bridge' \in Bridges
    BY <1>4 DEF Fits
  <2>2. TypeOK'
    BY <1>1, <1>3, <1>4, <2>1 DEF TypeOK
  <2>3. LiveDeckAttached' /\ Names' /\ Distinct(mapped)'
    BY <1>1, <1>3, <1>4 DEF LiveDeckAttached, Names, Started, Distinct, Controllers
  <2>4. Fits(bridge, mapped)'
    BY <1>3, <1>4 DEF Fits, PrimaryFits, Served, Controllers, DeviceOf
  <2> QED
    BY <1>3, <1>4, <2>2, <2>3, <2>4 DEF Inv, Started
<1> HIDE DEF b, N
<1>5. ASSUME inbox # << >>, inbox' = Tail(inbox)
      PROVE  /\ inbox' \in Seq(Message)
             /\ \A k \in DOMAIN inbox' : Started(inbox'[k].session)
             /\ Started(Head(inbox).session)
  <2>1. \A k \in DOMAIN inbox : inbox[k] \in Message
    BY <1>1, ElementOfSeq, LenProperties
  <2>2. \A k \in DOMAIN inbox : inbox[k].session \in N
    BY <1>1, <2>1 DEF N, Message
  <2> QED
    BY <1>1, <1>5, <2>2, Received DEF N
<1>6. ASSUME NEW s \in Sessions, Hello(s, S)
      PROVE  Inv'
  <2> DEFINE stale == {t \in mapped : plugin[t] = plugin[s]}
             c == Attach(b, s, stale)
  <2>1. /\ bridge' = Refresh(c) /\ mapped' = (mapped \ stale) \cup {s}
        /\ inbox # << >> /\ inbox' = Tail(inbox) /\ Head(inbox).session = s
        /\ UNCHANGED <<deaf, step>>
    BY <1>6 DEF Hello, Receive, devices, b
  <2>2. Started(s) /\ plugin[s] \in Plugins
    BY <1>1, <1>5, <2>1 DEF Names
  <2>3. /\ Fits(c, mapped')
        /\ Controllers(b) \ stale \subseteq Controllers(c)
        /\ s \in Controllers(c)
    <3> HIDE DEF stale
    <3>1. /\ stale \in SUBSET mapped
          /\ \A t \in mapped : t \in stale <=> plugin[t] = plugin[s]
      BY DEF stale
    <3> QED
      BY <1>1, <1>2, <2>1, <2>2, <3>1, AttachFits
  <2>4. mapped' \subseteq Sessions /\ Distinct(mapped')
    BY <1>1, <2>1 DEF Distinct
  <2> HIDE DEF c
  <2>5. Fits(bridge', mapped') /\ Controllers(c) \ deaf \subseteq Controllers(bridge')
    BY <2>1, <2>3, <2>4, RefreshFits
  <2>6. \A t \in mapped' \ deaf' : reader[t] = "reading" => t \in Controllers(bridge')
    BY <1>1, <1>2, <2>1, <2>3, <2>5 DEF LiveDeckAttached
  <2> QED
    BY <1>1, <1>4, <1>5, <2>1, <2>2, <2>4, <2>5, <2>6 DEF TypeOK
<1>7. ASSUME NEW s \in Sessions, Bye(s, S)
      PROVE  Inv'
  <2> DEFINE c == IF s \in mapped THEN Detach(b, plugin[s]) ELSE b
  <2>1. /\ bridge' = Refresh(c) /\ mapped' = mapped \ {s}
        /\ inbox # << >> /\ inbox' = Tail(inbox)
        /\ UNCHANGED <<deaf, step>>
    BY <1>7 DEF Bye, Receive, devices, b
  <2>2. Fits(c, mapped') /\ \A t \in mapped' : t \in Controllers(b) => t \in Controllers(c)
    <3>1. CASE s \in mapped
      <4>1. mapped' = {t \in mapped : plugin[t] # plugin[s]}
        BY <1>1, <2>1, <3>1 DEF Distinct
      <4>2. plugin[s] \in Plugins
        BY <1>1, <3>1 DEF Names
      <4>3. \A t \in mapped' : DeviceOf(t) # plugin[s]
        BY <1>1, <4>1, DecksAssumption DEF DeviceOf
      <4> QED
        BY <1>1, <1>2, <3>1, <4>1, <4>2, <4>3, DetachFits
    <3>2. CASE s \notin mapped
      BY <1>2, <2>1, <3>2
    <3> QED
      BY <3>1, <3>2
  <2>3. mapped' \subseteq Sessions /\ Distinct(mapped')
    BY <1>1, <2>1 DEF Distinct
  <2> HIDE DEF c
  <2>4. Fits(bridge', mapped') /\ Controllers(c) \ deaf \subseteq Controllers(bridge')
    BY <2>1, <2>2, <2>3, RefreshFits
  <2>5. \A t \in mapped' \ deaf' : reader[t] = "reading" => t \in Controllers(bridge')
    BY <1>1, <1>2, <2>1, <2>2, <2>4 DEF LiveDeckAttached
  <2> QED
    BY <1>1, <1>4, <1>5, <2>1, <2>3, <2>4, <2>5 DEF TypeOK
<1>8. ASSUME Render(S)
      PROVE  Inv'
  <2> DEFINE c == Reopen(b)
  <2>1. /\ bridge' = Refresh(c) /\ deaf' \subseteq deaf /\ deaf \ {Hw} \subseteq deaf'
        /\ step' = "poll" /\ UNCHANGED <<inbox, mapped>>
    BY <1>8 DEF Render, b
  <2>2. Fits(c, mapped) /\ Controllers(b) \subseteq Controllers(c)
    BY <1>1, <1>2, ReopenFits
  <2> HIDE DEF c
  <2>3. Fits(bridge', mapped) /\ Controllers(c) \ deaf \subseteq Controllers(bridge')
    BY <1>1, <2>1, <2>2, RefreshFits
  <2>4. \A t \in mapped' \ deaf' : reader[t] = "reading" => t \in Controllers(bridge')
    BY <1>1, <1>2, <2>1, <2>2, <2>3, DecksAssumption DEF LiveDeckAttached
  <2> QED
    BY <1>1, <1>4, <2>1, <2>3, <2>4 DEF TypeOK
<1>9. ASSUME PollControllers(S)
      PROVE  Inv'
  <2>1. PICK w : bridge' = [Poll(b) EXCEPT !.owners = w] /\ w = Wished(Poll(b))
    BY <1>9 DEF PollControllers, b
  <2>2. step' = "messages" /\ UNCHANGED <<inbox, mapped, deaf>>
    BY <1>9 DEF PollControllers, devices
  <2>3. w \in Wishes \cup {None}
    <3> DEFINE c == Poll(b)
               own == {e \in Controllers(c) \cap Sessions : plugin[e] = c.device}
    <3>1. said \in [Sessions -> Wishes \cup {None}]
      BY <1>1 DEF TypeOK
    <3>2. own # {} => (IF c.primary \in own THEN c.primary ELSE CHOOSE e \in own : TRUE) \in own
      OBVIOUS
    <3>3. w = IF own = {} THEN None
              ELSE said[IF c.primary \in own THEN c.primary ELSE CHOOSE e \in own : TRUE]
      BY <2>1 DEF Wished
    <3> HIDE DEF c
    <3> QED
      BY <3>1, <3>2, <3>3
  <2>4. Fits(bridge', mapped) /\ Controllers(b) \ Lost \subseteq Controllers(bridge')
    BY <1>1, <1>2, <2>1, <2>3, PollFits
  <2>5. \A t \in mapped' \ deaf' : reader[t] = "reading" => t \in Controllers(bridge')
    BY <1>1, <1>2, <2>2, <2>4, DecksAssumption DEF LiveDeckAttached, Lost
  <2> QED
    BY <1>1, <1>4, <2>2, <2>4, <2>5 DEF TypeOK
<1> QED
  BY <1>6, <1>7, <1>8, <1>9

LEMMA Invariant == Spec => []Inv
<1>1. Inv /\ [Next]_vars => Inv'
  <2>1. CASE UNCHANGED vars
    BY <2>1 DEF vars, threads, devices, Inv, TypeOK, Names, Started, Distinct, Fits,
                PrimaryFits, Served, Controllers, DeviceOf, LiveDeckAttached
  <2> QED
    BY <2>1, ThreadsKeepInv, LoopKeepsInv DEF Next
<1> QED
  BY InitInv, <1>1, PTL DEF Spec

-----------------------------------------------------------------------------
(* Every variable keeps its type: among others, the deck's owner and every *)
(* queued message name sessions and devices that exist.                    *)
THEOREM TypeCorrect == Spec => []TypeOK
<1>1. Inv => TypeOK
  BY DEF Inv
<1> QED
  BY <1>1, Invariant, PTL

(* A plugin has one controller, however many of its sockets are still open *)
(* on the daemon's side (remove_plugin_sessions_by_device).                *)
THEOREM OneDeckEach == Spec => []OneDeck
<1>1. Inv => OneDeck
  <2> SUFFICES ASSUME Inv, NEW s \in Controllers(bridge), NEW t \in Controllers(bridge),
                      DeviceOf(s) = DeviceOf(t)
               PROVE  s = t
    BY DEF OneDeck
  <2>1. \A c \in Controllers(bridge) : c = Hw \/ (c \in mapped /\ plugin[c] \in Plugins)
    <3>1. /\ bridge \in Bridges /\ Controllers(bridge) \cap Sessions \subseteq mapped
          /\ \A u \in mapped : Started(u) /\ u \in Sessions
          /\ Names
      BY DEF Inv, Fits, TypeOK
    <3> QED
      BY <3>1 DEF Names, Controllers, Bridges, Decks
  <2> QED
    BY <2>1, DecksAssumption DEF DeviceOf, Inv, Distinct
<1> QED
  BY <1>1, Invariant, PTL

(* A late disconnect of a stale socket, or of another plugin, never takes  *)
(* the deck from the session that replaced it (daemon.rs, ControllerHello).*)
THEOREM LiveDecksStay == Spec => []LiveDeckAttached
<1>1. Inv => LiveDeckAttached
  BY DEF Inv
<1> QED
  BY <1>1, Invariant, PTL

(* No card is parked on an auxiliary deck that is gone (set_device with 0  *)
(* slots in refresh_task_board, poll_controller, detach_plugin_controller).*)
THEOREM SlotsServed == Spec => []SlotsAreServed
<1>1. Inv => SlotsAreServed
  BY DEF Inv, Fits, Served, SlotsAreServed
<1> QED
  BY <1>1, Invariant, PTL
=============================================================================

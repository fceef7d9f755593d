-------------------------- MODULE SerialLinkProofs ---------------------------
(***************************************************************************)
(* Theorems about SerialLink for every number of messages, requests and    *)
(* mishaps, every capacity of the firmware's queue and either loop.        *)
(*                                                                         *)
(* What holds the messages together is that the halves under way, from the *)
(* decoder over the channel and the queue to the desktop, are in order and *)
(* that one that is missing between two others is lost (PipeInv): across a *)
(* port that is open, and on either side of one that is not.  A new link   *)
(* begins without what the decoder held of the old one (LinkInv).          *)
(***************************************************************************)
EXTENDS SerialLink, SequenceTheorems, TLAPS

Before(a, b) == a[1] < b[1] \/ (a[1] = b[1] /\ a[2] < b[2])
Ahead(A, B) == \A a \in A, b \in B : Before(a, b)

Sorted(s) ==
    \A j, k \in DOMAIN s :
       j < k /\ s[j].kind = "report" /\ s[k].kind = "report" => Before(s[j].of, s[k].of)

(* The halves in a sequence of frames, and the one that the decoder holds  *)
(* and means to complete.                                                  *)
Sent(s) == {s[k].of : k \in {i \in DOMAIN s : s[i].kind = "report"}}
Held == IF link = "up" /\ decoder \in Messages THEN {<<decoder, 1>>} ELSE {}

(* Nothing but lost halves is missing from R.                              *)
Whole(R, lostOnes) ==
    \A a, b \in R : \A x \in Halves : Before(a, x) /\ Before(x, b) => x \in R \cup lostOnes

LinkInv ==
    /\ link = "handshake" <=> step = "handshake"
    /\ link = "up" => step \in {"drain", "check"}
    /\ link = "down" => events = <<>> /\ port \in {"closed", "stuck"}
    /\ link # "down" => port \in {"open", "broken"}

PipeInv ==
    /\ Sorted(events) /\ Sorted(tx)
    /\ Ahead(Held, Sent(events))
    /\ Ahead(Sent(tx), {app})
    /\ Ahead(Held \cup Sent(events), Sent(tx) \cup {app})
    /\ Whole(Held \cup Sent(events), dropped)
    /\ Whole(Sent(tx) \cup {app}, dropped)
    /\ port = "open" => Whole(Held \cup Sent(events) \cup Sent(tx) \cup {app}, dropped)

Inv == TypeOK /\ LinkInv /\ PipeInv /\ MessagesAreWhole

-----------------------------------------------------------------------------
(* Operators.                                                              *)
LEMMA ConstantsHold ==
    /\ TxCap \in Nat \ {0} /\ MaxMessages \in Nat /\ MaxMishaps \in Nat /\ MaxRequests \in Nat
    /\ HandshakeTime \in Nat \ {0} /\ MaxDelay \in Nat \ {0}
BY LinkAssumption

LEMMA MinIsOne == ASSUME NEW a \in Int, NEW b \in Int
                  PROVE  Min({a, b}) \in {a, b} /\ Min({a, b}) <= a /\ Min({a, b}) <= b
<1>1. \E x \in {a, b} : \A y \in {a, b} : x <= y
  <2>1. CASE a <= b
    BY <2>1
  <2>2. CASE b <= a
    BY <2>2
  <2> QED
    BY <2>1, <2>2
<1> DEFINE m == CHOOSE x \in {a, b} : \A y \in {a, b} : x <= y
<1>2. m \in {a, b} /\ \A y \in {a, b} : m <= y
  BY <1>1
<1>3. Min({a, b}) = m
  BY DEF Min
<1> HIDE DEF m
<1> QED
  BY <1>2, <1>3

(* What the desktop sends next, and the halves, are in a strict order.     *)
Places == Halves \cup {<<MaxMessages + 1, 1>>}
After(a) == IF a[2] = 1 THEN <<a[1], 2>> ELSE <<a[1] + 1, 1>>

LEMMA HalfIs ==
    ASSUME NEW a \in Places
    PROVE  a[1] \in Nat /\ a[2] \in {1, 2} /\ a = <<a[1], a[2]>>
BY ConstantsHold DEF Places, Halves, Messages

LEMMA OrderIsStrict ==
    /\ \A a \in Places : ~Before(a, a)
    /\ \A a, b \in Places : Before(a, b) => ~Before(b, a)
    /\ \A a, b, c \in Places : Before(a, b) /\ Before(b, c) => Before(a, c)
BY HalfIs DEF Before

LEMMA AfterIsNext ==
    ASSUME NEW a \in Halves
    PROVE  /\ After(a) \in Places /\ Before(a, After(a))
           /\ \A x \in Halves : Before(x, After(a)) => x = a \/ Before(x, a)
<1>1. a[1] \in 1 .. MaxMessages /\ a[2] \in {1, 2}
  BY DEF Halves, Messages
<1>2. After(a) \in Places /\ Before(a, After(a))
  BY <1>1, ConstantsHold DEF After, Places, Halves, Messages, Before
<1>3. ASSUME NEW x \in Halves, Before(x, After(a))
      PROVE  x = a \/ Before(x, a)
  <2>1. x \in Places /\ a \in Places
    BY DEF Places
  <2>2. x[1] \in Nat /\ x[2] \in {1, 2} /\ x = <<x[1], x[2]>> /\ a = <<a[1], a[2]>>
    BY <2>1, HalfIs
  <2> QED
    BY <1>1, <1>3, <2>2 DEF After, Before
<1> QED
  BY <1>2, <1>3

(* A part of R is whole if what it lacks of R is outside it or lost.       *)
LEMMA WholePart ==
    ASSUME NEW R, NEW d, NEW S, NEW e, Whole(R, d), S \subseteq R, d \subseteq e,
           \A a, b \in S : \A x \in R : Before(a, x) /\ Before(x, b) => x \in S \cup e
    PROVE  Whole(S, e)
BY DEF Whole

LEMMA FrameIs ==
    ASSUME NEW f \in Frames
    PROVE  f.kind \in {"report", "status", "error", "disconnected"}
           /\ (f.kind = "report" => f.of \in Halves)
BY DEF Frames

LEMMA SentType == ASSUME NEW s \in Seq(Frames)
                  PROVE  Sent(s) \subseteq Halves
<1>1. \A k \in DOMAIN s : s[k] \in Frames
  BY ElementOfSeq, LenProperties
<1> QED
  BY <1>1, FrameIs DEF Sent

Of(f) == IF f.kind = "report" THEN {f.of} ELSE {}

LEMMA SentAppend ==
    ASSUME NEW s \in Seq(Frames), NEW f \in Frames, Sorted(s), Ahead(Sent(s), Of(f))
    PROVE  /\ Append(s, f) \in Seq(Frames) /\ Len(Append(s, f)) = Len(s) + 1
           /\ Len(s) \in Nat
           /\ Sent(Append(s, f)) = Sent(s) \cup Of(f) /\ Sorted(Append(s, f))
<1> DEFINE t == Append(s, f)
           n == Len(s) + 1
<1>1. /\ t \in Seq(Frames) /\ Len(t) = n /\ Len(s) \in Nat
      /\ DOMAIN s = 1 .. Len(s) /\ DOMAIN t = 1 .. n
      /\ \A k \in DOMAIN s : t[k] = s[k]
      /\ t[n] = f
  BY AppendProperties, LenProperties
<1> HIDE DEF t
<1>2. DOMAIN t = DOMAIN s \cup {n} /\ n \notin DOMAIN s
  BY <1>1
<1>3. Sent(t) = Sent(s) \cup Of(f)
  BY <1>1, <1>2 DEF Sent, Of
<1>4. ASSUME NEW j \in DOMAIN t, NEW k \in DOMAIN t, j < k,
             t[j].kind = "report", t[k].kind = "report"
      PROVE  Before(t[j].of, t[k].of)
  <2>1. j \in DOMAIN s /\ t[j] = s[j]
    BY <1>1, <1>4
  <2>2. CASE k \in DOMAIN s
    BY <1>1, <1>4, <2>1, <2>2 DEF Sorted
  <2>3. CASE k = n
    <3>1. t[j].of \in Sent(s) /\ t[k].of \in Of(f)
      BY <1>1, <1>4, <2>1, <2>3 DEF Sent, Of
    <3> QED
      BY <3>1 DEF Ahead
  <2> QED
    BY <1>2, <2>2, <2>3
<1> QED
  BY <1>1, <1>3, <1>4 DEF Sorted, t

LEMMA SentTail ==
    ASSUME NEW s \in Seq(Frames), s # <<>>, Sorted(s)
    PROVE  /\ Tail(s) \in Seq(Frames) /\ Head(s) \in Frames
           /\ Len(Tail(s)) = Len(s) - 1 /\ Len(s) \in Nat \ {0}
           /\ Sent(s) = Of(Head(s)) \cup Sent(Tail(s))
           /\ Ahead(Of(Head(s)), Sent(Tail(s))) /\ Sorted(Tail(s))
<1> DEFINE t == Tail(s)
           f == Head(s)
<1>1. /\ t \in Seq(Frames) /\ f \in Frames /\ f = s[1] /\ Len(s) \in Nat \ {0}
      /\ Len(t) = Len(s) - 1
      /\ DOMAIN s = 1 .. Len(s) /\ DOMAIN t = 1 .. Len(s) - 1
      /\ \A k \in DOMAIN t : t[k] = s[k + 1]
  BY HeadTailProperties, LenProperties, EmptySeq
<1> HIDE DEF t, f
<1>2. /\ 1 \in DOMAIN s
      /\ \A k \in DOMAIN t : k + 1 \in DOMAIN s /\ t[k] = s[k + 1] /\ 1 < k + 1
      /\ \A k \in DOMAIN s : k # 1 => k - 1 \in DOMAIN t /\ s[k] = t[k - 1]
      /\ \A j, k \in DOMAIN t : j < k => j + 1 < k + 1
  <2>1. ASSUME NEW k \in DOMAIN s, k # 1
        PROVE  k - 1 \in DOMAIN t /\ s[k] = t[k - 1]
    <3>1. k - 1 \in DOMAIN t /\ (k - 1) + 1 = k
      BY <1>1, <2>1
    <3> QED
      BY <1>1, <3>1
  <2> QED
    BY <1>1, <2>1
<1>3. Sent(s) = Of(f) \cup Sent(t)
  <2>1. \A x \in Sent(s) : x \in Of(f) \cup Sent(t)
    BY <1>1, <1>2 DEF Sent, Of
  <2>2. \A x \in Of(f) \cup Sent(t) : x \in Sent(s)
    BY <1>1, <1>2 DEF Sent, Of
  <2> QED
    BY <2>1, <2>2
<1>4. Ahead(Of(f), Sent(t))
  <2>1. ASSUME NEW k \in DOMAIN t, t[k].kind = "report", f.kind = "report"
        PROVE  Before(f.of, t[k].of)
    BY <1>1, <1>2, <2>1 DEF Sorted
  <2> QED
    BY <2>1 DEF Ahead, Sent, Of
<1>5. Sorted(t)
  BY <1>1, <1>2 DEF Sorted
<1> QED
  BY <1>1, <1>3, <1>4, <1>5 DEF t, f

-----------------------------------------------------------------------------
(* The pipe from the desktop to the decoder.                               *)
LEMMA PipeTypes ==
    ASSUME TypeOK
    PROVE  /\ Sent(tx) \subseteq Halves /\ Sent(events) \subseteq Halves
           /\ Held \subseteq Halves /\ app \in Places /\ dropped \subseteq Halves
           /\ Halves \subseteq Places
<1>1. Held \subseteq Halves
  BY DEF TypeOK, Held, Halves
<1> QED
  BY <1>1, SentType DEF TypeOK, Places

LEMMA PipeKept ==
    ASSUME PipeInv, UNCHANGED <<tx, events, app, dropped>>, Held' = Held,
           port' = "open" => port = "open"
    PROVE  PipeInv'
BY DEF PipeInv, Sorted, Sent

(* A runtime that ends leaves nothing in the channel or in the decoder.    *)
LEMMA PipeEmptied ==
    ASSUME PipeInv, UNCHANGED <<tx, app, dropped>>, events' = <<>>, link' # "up"
    PROVE  PipeInv'
<1>1. Held' = {} /\ Sent(<<>>) = {} /\ Sorted(<<>>)
  BY DEF Held, Sent, Sorted
<1>2. Sent(events') = {} /\ Sorted(events') /\ Sent(tx') = Sent(tx) /\ Sorted(tx')
  BY <1>1 DEF PipeInv
<1> QED
  BY <1>1, <1>2 DEF PipeInv, Ahead, Whole

(* The desktop's report is the last of the pipe, or lost.                  *)
LEMMA ReportPushed ==
    ASSUME TypeOK, PipeInv, app \in Halves, Push([kind |-> "report", of |-> app]),
           app' = After(app),
           dropped' = IF Len(tx) < TxCap THEN dropped ELSE dropped \cup {app},
           UNCHANGED <<events, port>>, Held' = Held
    PROVE  /\ PipeInv' /\ tx' \in Seq(Frames) /\ Len(tx') <= TxCap
<1> DEFINE f == [kind |-> "report", of |-> app]
<1>1. f \in Frames /\ Of(f) = {app}
  BY DEF Frames, Of
<1> HIDE DEF f
<1>2. /\ tx \in Seq(Frames) /\ Len(tx) <= TxCap /\ Len(tx) \in Nat /\ TxCap \in Nat
      /\ Sent(tx) \subseteq Halves /\ Sent(events) \subseteq Halves /\ Held \subseteq Halves
      /\ app' \in Places /\ Before(app, app') /\ Halves \subseteq Places /\ app \in Places
      /\ \A x \in Halves : Before(x, app') => x = app \/ Before(x, app)
  BY PipeTypes, AfterIsNext, ConstantsHold, LenProperties DEF TypeOK
<1>3. /\ tx' \in Seq(Frames) /\ Len(tx') <= TxCap /\ Sorted(tx')
      /\ \/ Sent(tx') = Sent(tx) \cup {app} /\ dropped' = dropped
         \/ Sent(tx') = Sent(tx) /\ dropped' = dropped \cup {app}
  <2>1. CASE Len(tx) < TxCap
    <3>1. tx' = Append(tx, f) /\ dropped' = dropped
      BY <2>1 DEF Push, f
    <3>2. Sorted(tx) /\ Ahead(Sent(tx), Of(f))
      BY <1>1 DEF PipeInv
    <3>3. /\ tx' \in Seq(Frames) /\ Len(tx') = Len(tx) + 1
          /\ Sent(tx') = Sent(tx) \cup Of(f) /\ Sorted(tx')
      BY <1>1, <1>2, <3>1, <3>2, SentAppend
    <3> QED
      BY <1>1, <1>2, <2>1, <3>1, <3>3
  <2>2. CASE ~(Len(tx) < TxCap)
    <3>1. tx' = tx /\ dropped' = dropped \cup {app}
      BY <2>2 DEF Push
    <3> QED
      BY <1>2, <3>1 DEF PipeInv
  <2> QED
    BY <2>1, <2>2
(* What is whole up to app is whole up to the next half.                   *)
<1>4. ASSUME NEW R \in SUBSET Halves, Ahead(R, {app}), Whole(R \cup {app}, dropped)
      PROVE  /\ Ahead(R, {app'}) /\ Ahead(R \cup {app}, {app'})
             /\ Whole(R \cup {app} \cup {app'}, dropped)
             /\ Whole(R \cup {app'}, dropped \cup {app})
  <2>1. \A a \in R : Before(a, app) /\ Before(a, app') /\ a \in Places
    BY <1>2, <1>4, OrderIsStrict DEF Ahead
  <2>2. ASSUME NEW a \in R \cup {app, app'}, NEW b \in R \cup {app, app'}, NEW x \in Halves,
               Before(a, x), Before(x, b)
        PROVE  x \in R \cup {app} \cup dropped
    <3>1. x \in Places /\ x # app'
      BY <1>2, <2>1, <2>2, OrderIsStrict
    <3>2. a # app'
      BY <1>2, <2>1, <2>2, <3>1, OrderIsStrict
    <3>3. CASE b = app'
      <4>1. x = app \/ Before(x, app)
        BY <1>2, <2>2, <3>3
      <4> QED
        BY <1>4, <2>2, <3>2, <4>1 DEF Whole
    <3>4. CASE b # app'
      BY <1>4, <2>2, <3>2, <3>4 DEF Whole
    <3> QED
      BY <3>3, <3>4
  <2> QED
    BY <1>2, <2>1, <2>2 DEF Ahead, Whole
<1> DEFINE H == Held \cup Sent(events)
           T == Sent(tx)
<1>5. /\ Ahead(T, {app}) /\ Ahead(H, T \cup {app}) /\ Whole(T \cup {app}, dropped)
      /\ port = "open" => Whole(H \cup T \cup {app}, dropped)
      /\ Whole(H, dropped) /\ Sorted(events) /\ Ahead(Held, Sent(events))
      /\ H \in SUBSET Halves /\ T \in SUBSET Halves
  BY <1>2 DEF PipeInv
<1>6. Sent(events') = Sent(events) /\ Sorted(events') /\ Ahead(Held', Sent(events'))
      /\ Whole(H, dropped')
  BY <1>3, <1>5 DEF Whole, Sorted
<1>7. /\ Ahead(Sent(tx'), {app'}) /\ Whole(Sent(tx') \cup {app'}, dropped')
  BY <1>3, <1>4, <1>5
<1>8. Ahead(H, Sent(tx') \cup {app'})
  <2>1. ASSUME NEW a \in H
        PROVE  Before(a, app')
    BY <1>2, <1>5, <2>1, OrderIsStrict DEF Ahead
  <2> QED
    BY <1>3, <1>5, <2>1 DEF Ahead
<1>9. ASSUME port = "open"
      PROVE  Whole(H \cup Sent(tx') \cup {app'}, dropped')
  <2> DEFINE R == H \cup T
  <2>1. R \in SUBSET Halves /\ Ahead(R, {app}) /\ Whole(R \cup {app}, dropped)
    BY <1>5, <1>9 DEF Ahead
  <2> HIDE DEF R
  <2>2. /\ Whole(R \cup {app} \cup {app'}, dropped)
        /\ Whole(R \cup {app'}, dropped \cup {app})
    BY <1>4, <2>1
  <2>3. CASE Sent(tx') = Sent(tx) \cup {app} /\ dropped' = dropped
    <3>1. H \cup Sent(tx') \cup {app'} = R \cup {app} \cup {app'}
      BY <2>3 DEF R
    <3> QED
      BY <2>2, <2>3, <3>1
  <2>4. CASE Sent(tx') = Sent(tx) /\ dropped' = dropped \cup {app}
    <3>1. H \cup Sent(tx') \cup {app'} = R \cup {app'}
      BY <2>4 DEF R
    <3> QED
      BY <2>2, <2>4, <3>1
  <2> QED
    BY <1>3, <2>3, <2>4
<1> QED
  BY <1>3, <1>6, <1>7, <1>8, <1>9 DEF PipeInv

(* A frame that is written goes from the queue to the channel, and so does *)
(* the error that takes the place of one.                                  *)
LEMMA FrameFlushed ==
    ASSUME TypeOK, PipeInv, tx # <<>>, port = "open", tx' = Tail(tx), NEW e \in Frames,
           events' = Append(events, e),
           \/ e = Head(tx) /\ dropped' = dropped
           \/ Of(e) = {} /\ dropped' = dropped \cup Of(Head(tx)),
           UNCHANGED app, Held' = Held
    PROVE  PipeInv' /\ tx' \in Seq(Frames) /\ Len(tx') <= TxCap /\ events' \in Seq(Frames)
<1> DEFINE F == Of(Head(tx))
           T == Sent(tx')
           E == Sent(events)
           H == Held
<1>1. /\ tx \in Seq(Frames) /\ events \in Seq(Frames) /\ app \in Places
      /\ Sent(tx) \subseteq Halves /\ E \subseteq Halves /\ H \subseteq Halves
      /\ Halves \subseteq Places /\ Len(tx) <= TxCap /\ TxCap \in Nat
  BY PipeTypes, ConstantsHold DEF TypeOK
<1>2. /\ tx' \in Seq(Frames) /\ Len(tx') = Len(tx) - 1 /\ Len(tx) \in Nat
      /\ Sent(tx) = F \cup T /\ Ahead(F, T) /\ Sorted(tx')
  BY <1>1, SentTail DEF PipeInv
<1> HIDE DEF F, T
<1>3. /\ Sorted(events) /\ Ahead(H, E) /\ Ahead(F \cup T, {app})
      /\ Ahead(H \cup E, F \cup T \cup {app})
      /\ Whole(H \cup E \cup F \cup T \cup {app}, dropped)
  <2>1. H \cup E \cup Sent(tx) \cup {app} = H \cup E \cup F \cup T \cup {app}
    BY <1>2
  <2> QED
    BY <1>2, <2>1 DEF PipeInv
<1>4. Ahead(E, Of(e)) /\ Of(e) \subseteq F /\ dropped \subseteq dropped'
      /\ F \ Of(e) \subseteq dropped'
  <2>1. Of(e) \subseteq F /\ dropped \subseteq dropped' /\ F \ Of(e) \subseteq dropped'
    BY DEF F
  <2> QED
    BY <1>3, <2>1 DEF Ahead
<1>5. /\ events' \in Seq(Frames) /\ Sent(events') = E \cup Of(e) /\ Sorted(events')
  BY <1>1, <1>3, <1>4, SentAppend
<1> DEFINE E2 == Sent(events')
           all == H \cup E \cup F \cup T \cup {app}
<1>6. all \subseteq Places /\ T \subseteq Halves /\ F \subseteq Halves
  BY <1>1, <1>2
<1>7. Ahead(H, E2) /\ Ahead(H \cup E2, T \cup {app}) /\ Ahead(T, {app})
  BY <1>2, <1>3, <1>4, <1>5 DEF Ahead
<1>8. Whole(H \cup E2 \cup T \cup {app}, dropped')
  <2>1. all \ (H \cup E2 \cup T \cup {app}) \subseteq dropped'
    BY <1>4, <1>5
  <2>2. H \cup E2 \cup T \cup {app} \subseteq all
    BY <1>4, <1>5
  <2> HIDE DEF all, E2
  <2> QED
    BY <1>3, <1>4, <2>1, <2>2, WholePart DEF all
<1>9. Whole(H \cup E2, dropped')
  <2> DEFINE S == H \cup E2
             R == H \cup E2 \cup T \cup {app}
  <2>1. \A b \in S : \A x \in R : Before(x, b) => x \in S
    <3>1. R \subseteq Places /\ S \subseteq Places
      BY <1>1, <1>4, <1>5, <1>6
    <3> QED
      BY <1>7, <3>1, OrderIsStrict DEF Ahead
  <2> HIDE DEF E2
  <2>2. S \subseteq R /\ dropped' \subseteq dropped' /\ Whole(R, dropped')
    BY <1>8
  <2> HIDE DEF S, R
  <2>3. Whole(S, dropped')
    BY <2>1, <2>2, WholePart
  <2> QED
    BY <2>3 DEF S
<1>10. Whole(T \cup {app}, dropped')
  <2> DEFINE S == T \cup {app}
             R == H \cup E2 \cup T \cup {app}
  <2>1. \A a \in S : \A x \in R : Before(a, x) => x \in S
    <3>1. R \subseteq Places /\ S \subseteq Places
      BY <1>1, <1>4, <1>5, <1>6
    <3> QED
      BY <1>7, <3>1, OrderIsStrict DEF Ahead
  <2> HIDE DEF E2
  <2>2. S \subseteq R /\ dropped' \subseteq dropped' /\ Whole(R, dropped')
    BY <1>8
  <2> HIDE DEF S, R
  <2>3. Whole(S, dropped')
    BY <2>1, <2>2, WholePart
  <2> QED
    BY <2>3 DEF S
<1>11. Len(tx') <= TxCap
  BY <1>1, <1>2
<1> QED
  BY <1>2, <1>5, <1>7, <1>8, <1>9, <1>10, <1>11 DEF PipeInv, T

(* A frame is taken from the channel during the handshake.                 *)
LEMMA FrameTaken ==
    ASSUME TypeOK, PipeInv, events # <<>>, events' = Tail(events), Held = {}, Held' = {},
           UNCHANGED <<tx, app, dropped, port>>
    PROVE  PipeInv' /\ events' \in Seq(Frames)
<1> DEFINE E == Sent(events)
           T == Sent(tx)
<1>1. /\ events \in Seq(Frames) /\ E \subseteq Halves /\ T \subseteq Halves
      /\ app \in Places /\ Halves \subseteq Places
  BY PipeTypes DEF TypeOK
<1>2. /\ events' \in Seq(Frames) /\ Sorted(events')
      /\ E = Of(Head(events)) \cup Sent(events')
      /\ Ahead(Of(Head(events)), Sent(events'))
  BY <1>1, SentTail DEF PipeInv
<1> DEFINE E2 == Sent(events')
           F == Of(Head(events))
<1> HIDE DEF F, E2
<1>3. /\ E = F \cup E2 /\ Ahead(F, E2)
      /\ Sorted(tx) /\ Ahead(T, {app}) /\ Ahead(E, T \cup {app})
      /\ Whole(E, dropped) /\ Whole(T \cup {app}, dropped)
      /\ port = "open" => Whole(E \cup T \cup {app}, dropped)
  <2>1. Held \cup Sent(events) = E /\ Held \cup Sent(events) \cup Sent(tx) \cup {app} = E \cup T \cup {app}
    OBVIOUS
  <2> QED
    BY <1>2, <2>1 DEF PipeInv, E2, F
<1>4. ASSUME NEW A \in SUBSET Places, Ahead(F, E2 \cup A), E2 \cup A \subseteq Places,
             F \subseteq Places, Whole(F \cup E2 \cup A, dropped)
      PROVE  Whole(E2 \cup A, dropped)
  <2> DEFINE S == E2 \cup A
             R == F \cup E2 \cup A
  <2>1. \A a \in S : \A x \in R : Before(a, x) => x \in S
    BY <1>4, OrderIsStrict DEF Ahead
  <2>2. S \subseteq R /\ dropped \subseteq dropped /\ Whole(R, dropped)
    BY <1>4
  <2> HIDE DEF S, R
  <2>3. Whole(S, dropped)
    BY <2>1, <2>2, WholePart
  <2> QED
    BY <2>3 DEF S
<1>5. F \subseteq Places /\ E2 \subseteq Places /\ T \subseteq Places
  BY <1>1, <1>3
<1>6. Whole(E2, dropped)
  <2>1. F \cup E2 \cup {} = E /\ E2 \cup {} = E2
    BY <1>3
  <2> QED
    BY <1>3, <1>4, <1>5, <2>1
<1>7. ASSUME port = "open"
      PROVE  Whole(E2 \cup T \cup {app}, dropped)
  <2> DEFINE A == T \cup {app}
  <2>1. F \cup E2 \cup A = E \cup T \cup {app} /\ E2 \cup A = E2 \cup T \cup {app}
    BY <1>3
  <2>2. Ahead(F, E2 \cup A)
    BY <1>3 DEF Ahead
  <2>3. A \in SUBSET Places /\ Whole(F \cup E2 \cup A, dropped)
    BY <1>1, <1>3, <1>5, <1>7, <2>1
  <2> HIDE DEF A
  <2> QED
    BY <1>4, <1>5, <2>1, <2>2, <2>3
<1>8. Ahead(E2, T \cup {app})
  BY <1>3 DEF Ahead
<1>9. /\ Held' \cup Sent(events') = E2 /\ Sent(tx') = T /\ app' = app
      /\ Held' \cup Sent(events') \cup Sent(tx') \cup {app'} = E2 \cup T \cup {app}
  BY DEF E2
<1>10. Sorted(events') /\ Sorted(tx') /\ Ahead(Held', Sent(events'))
  BY <1>2, <1>3 DEF Ahead
<1> HIDE DEF E, T
<1> QED
  BY <1>2, <1>3, <1>6, <1>7, <1>8, <1>9, <1>10 DEF PipeInv

(* The board goes: the queue is lost, and the rest of a message never sent.*)
LEMMA BoardGone ==
    ASSUME TypeOK, PipeInv, tx' = <<>>, app' \in {app, After(app)},
           app' # app => app \in Halves,
           UNCHANGED dropped, Held' = Held, port' # "open",
           \/ events' = events
           \/ \E f \in Frames : f.kind # "report" /\ events' = Append(events, f)
    PROVE  PipeInv' /\ events' \in Seq(Frames)
<1>1. /\ events \in Seq(Frames) /\ Sent(events) \subseteq Halves /\ Held \subseteq Halves
      /\ app \in Places /\ Halves \subseteq Places
      /\ Sorted(events) /\ Ahead(Held, Sent(events)) /\ Whole(Held \cup Sent(events), dropped)
      /\ \A a \in Held \cup Sent(events) : Before(a, app)
  BY PipeTypes DEF TypeOK, PipeInv, Ahead
<1>2. events' \in Seq(Frames) /\ Sent(events') = Sent(events) /\ Sorted(events')
  <2>1. CASE events' = events
    BY <1>1, <2>1
  <2>2. ASSUME NEW f \in Frames, f.kind # "report", events' = Append(events, f)
        PROVE  events' \in Seq(Frames) /\ Sent(events') = Sent(events) /\ Sorted(events')
    <3>1. Of(f) = {} /\ Ahead(Sent(events), Of(f))
      BY <2>2 DEF Of, Ahead
    <3> QED
      BY <1>1, <2>2, <3>1, SentAppend
  <2> QED
    BY <2>1, <2>2
<1>3. app' \in Places /\ \A a \in Held \cup Sent(events) : Before(a, app')
  <2>1. CASE app' = app
    BY <1>1, <2>1
  <2>2. CASE app' # app
    <3>1. app' \in Places /\ Before(app, app')
      BY <2>2, AfterIsNext
    <3> QED
      BY <1>1, <3>1, OrderIsStrict
  <2> QED
    BY <2>1, <2>2
<1>4. Sent(tx') = {} /\ Sorted(tx')
  BY DEF Sent, Sorted
<1>5. Whole({app'}, dropped)
  <2>1. \A x \in Halves : ~(Before(app', x) /\ Before(x, app'))
    BY <1>1, <1>3, OrderIsStrict
  <2> QED
    BY <2>1 DEF Whole
<1> QED
  BY <1>1, <1>2, <1>3, <1>4, <1>5 DEF PipeInv, Ahead

(* The halves a pass of the loop feeds to the decoder are in their order.  *)
LEMMA ReportsOrdered ==
    ASSUME TypeOK
    PROVE  /\ Reports \subseteq Nat
           /\ \A k \in Reports : Half(k) \in Halves
           /\ PipeInv /\ link = "up" =>
                 /\ \A k \in Reports : Half(k) \in Held \cup Sent(events)
                 /\ \A x \in Held \cup Sent(events) : \E k \in Reports : x = Half(k)
                 /\ \A j, k \in Reports : j < k => Before(Half(j), Half(k))
<1>1. /\ DOMAIN events = 1 .. Len(events) /\ Len(events) \in Nat
      /\ \A k \in DOMAIN events : events[k] \in Frames /\ k # 0 /\ k \in Nat /\ 0 < k
      /\ decoder \in Messages \cup {None, Broken}
  BY ElementOfSeq, LenProperties DEF TypeOK
<1>2. /\ \A k \in Reports : \/ k \in DOMAIN events /\ events[k].kind = "report"
                               /\ Half(k) = events[k].of
                            \/ k = 0 /\ decoder \in Messages /\ Half(k) = <<decoder, 1>>
      /\ \A k \in DOMAIN events : events[k].kind = "report" => k \in Reports
      /\ decoder \in Messages => 0 \in Reports
  BY <1>1 DEF Reports, Half
<1>3. Half(0) = <<decoder, 1>> /\ \A k \in DOMAIN events : Half(k) = events[k].of
  BY <1>1 DEF Half
<1>4. Reports \subseteq Nat /\ \A k \in Reports : Half(k) \in Halves
  BY <1>1, <1>2, FrameIs DEF Halves
<1>5. ASSUME PipeInv, link = "up"
      PROVE  /\ \A k \in Reports : Half(k) \in Held \cup Sent(events)
             /\ \A x \in Held \cup Sent(events) : \E k \in Reports : x = Half(k)
             /\ \A j, k \in Reports : j < k => Before(Half(j), Half(k))
  <2>1. \A k \in Reports : /\ k # 0 => Half(k) \in Sent(events)
                           /\ k = 0 => Half(k) \in Held
    BY <1>1, <1>2, <1>5 DEF Held, Sent
  <2>2. \A x \in Held \cup Sent(events) : \E k \in Reports : x = Half(k)
    BY <1>2, <1>3 DEF Held, Sent
  <2>3. ASSUME NEW j \in Reports, NEW k \in Reports, j < k
        PROVE  Before(Half(j), Half(k))
    <3>1. k # 0 /\ k \in DOMAIN events
      BY <1>1, <1>2, <1>4, <2>3
    <3>2. CASE j = 0
      BY <1>5, <2>1, <3>1, <3>2 DEF PipeInv, Ahead
    <3>3. CASE j # 0
      <4>1. j \in DOMAIN events
        BY <1>2, <3>3
      <4> QED
        BY <1>2, <1>5, <2>3, <3>1, <3>3, <4>1 DEF PipeInv, Sorted
    <3> QED
      BY <3>2, <3>3
  <2> QED
    BY <2>1, <2>2, <2>3
<1> QED
  BY <1>4, <1>5

LEMMA FeedIs ==
    ASSUME NEW skipped, NEW m \in Feed(skipped)
    PROVE  \E j, k \in Reports :
              /\ j < k /\ \A i \in Reports : i <= j \/ k <= i
              /\ Half(j)[2] = 1 /\ Half(k)[2] = 2 /\ m = <<Half(j)[1], Half(k)[1]>>
<1> DEFINE both == {p \in Neighbours : /\ Half(p[1])[2] = 1 /\ Half(p[2])[2] = 2
                                       /\ p[1] \notin skipped}
<1>1. PICK p \in both : m = <<Half(p[1])[1], Half(p[2])[1]>>
  BY DEF Feed
<1>2. /\ p[1] \in Reports /\ p[2] \in Reports /\ p[1] < p[2]
      /\ \A i \in Reports : i <= p[1] \/ p[2] <= i
      /\ Half(p[1])[2] = 1 /\ Half(p[2])[2] = 2
  BY DEF Neighbours
<1> QED
  BY <1>1, <1>2

(* What the decoder holds after a pass; nothing of it is the half that it  *)
(* means to complete unless that is the last report of all.                *)
LEMMA RemainderIs ==
    ASSUME NEW skipped
    PROVE  \/ Remainder(skipped) \in {None, Broken}
           \/ Reports = {} /\ Remainder(skipped) = decoder
           \/ \E k \in Reports : /\ \A i \in Reports : i <= k
                                 /\ Half(k)[2] = 1 /\ Remainder(skipped) = Half(k)[1]
<1> DEFINE open == {k \in Reports : Half(k)[2] = 1 /\ \A i \in Reports : i <= k}
<1>1. \/ Reports = {} /\ Remainder(skipped) = decoder
      \/ Remainder(skipped) \in {None, Broken}
      \/ open # {} /\ Remainder(skipped) = Half(CHOOSE k \in open : TRUE)[1]
  BY DEF Remainder
<1>2. open # {} => (CHOOSE k \in open : TRUE) \in open
  OBVIOUS
<1> QED
  BY <1>1, <1>2

(* What the decoder puts together of two messages misses lost halves, and  *)
(* what it keeps is the end of what has arrived.                           *)
LEMMA Drained ==
    ASSUME TypeOK, LinkInv, PipeInv, MessagesAreWhole, step = "drain",
           NEW skipped, got' = got \cup Feed(skipped), decoder' = Remainder(skipped),
           events' = <<>>,
           UNCHANGED <<tx, app, port, dropped, link>>
    PROVE  /\ PipeInv' /\ MessagesAreWhole'
           /\ got' \subseteq Messages \X Messages /\ decoder' \in Messages \cup {None, Broken}
<1> DEFINE R == Held \cup Sent(events)
           T == Sent(tx)
<1>1. /\ R \subseteq Places /\ T \subseteq Places /\ app \in Places /\ Halves \subseteq Places
      /\ Ahead(R, T \cup {app}) /\ Ahead(T, {app}) /\ Sorted(tx)
      /\ Whole(R, dropped) /\ Whole(T \cup {app}, dropped)
      /\ port = "open" => Whole(R \cup T \cup {app}, dropped)
      /\ got \subseteq Messages \X Messages /\ link \in {"down", "up"}
  BY PipeTypes DEF TypeOK, PipeInv, LinkInv
<1>2. /\ Reports \subseteq Nat /\ \A k \in Reports : Half(k) \in Halves
      /\ link = "up" =>
            /\ \A k \in Reports : Half(k) \in R
            /\ \A x \in R : \E k \in Reports : x = Half(k)
            /\ \A j, k \in Reports : j < k => Before(Half(j), Half(k))
  BY ReportsOrdered
<1> HIDE DEF R, T
<1>3. \A k \in Reports : /\ Half(k) \in Places /\ Half(k)[1] \in Messages
                         /\ Half(k) = <<Half(k)[1], Half(k)[2]>>
  BY <1>1, <1>2 DEF Halves
<1>4. ASSUME NEW m \in Feed(skipped)
      PROVE  /\ m \in Messages \X Messages
             /\ m[1] # m[2] => {<<m[1], 2>>, <<m[2], 1>>} \subseteq dropped
  <2>1. PICK j \in Reports, k \in Reports :
           /\ j < k /\ \A i \in Reports : i <= j \/ k <= i
           /\ Half(j)[2] = 1 /\ Half(k)[2] = 2 /\ m = <<Half(j)[1], Half(k)[1]>>
    BY FeedIs
  <2>2. m \in Messages \X Messages /\ m[1] = Half(j)[1] /\ m[2] = Half(k)[1]
    BY <1>3, <2>1
  <2>3. link = "up"
    <3>1. ASSUME link = "down"
          PROVE  FALSE
      <4>1. events = <<>>
        BY <3>1 DEF LinkInv
      <4>2. DOMAIN events = {}
        BY <4>1
      <4>3. Reports \subseteq {0}
        BY <4>2 DEF Reports
      <4> QED
        BY <2>1, <4>3
    <3> QED
      BY <1>1, <3>1
  <2>4. ASSUME m[1] # m[2], NEW x \in {<<m[1], 2>>, <<m[2], 1>>}
        PROVE  x \in dropped
    <3>1. Before(Half(j), Half(k)) /\ Half(j) \in R /\ Half(k) \in R
      BY <1>2, <2>1, <2>3
    <3>2. m[1] \in Nat /\ m[2] \in Nat /\ m[1] < m[2] /\ m[1] \in Messages /\ m[2] \in Messages
      BY <2>1, <2>2, <2>4, <3>1 DEF Before, Messages
    <3>3. x \in Halves /\ Before(Half(j), x) /\ Before(x, Half(k))
      BY <2>1, <2>2, <2>4, <3>2 DEF Before, Halves
    <3>4. x \in R \cup dropped
      BY <1>1, <3>1, <3>3 DEF Whole
    <3>5. ASSUME x \in R
          PROVE  FALSE
      <4>1. PICK i \in Reports : x = Half(i)
        BY <1>2, <2>3, <3>5
      <4>2. i = j \/ i < j \/ i = k \/ k < i
        BY <1>2, <2>1
      <4>3. /\ i < j => Before(x, Half(j))
            /\ k < i => Before(Half(k), x)
        BY <1>2, <2>3, <4>1
      <4> QED
        BY <1>3, <3>3, <4>1, <4>2, <4>3, OrderIsStrict
    <3> QED
      BY <3>4, <3>5
  <2> QED
    BY <2>2, <2>4
<1>5. MessagesAreWhole' /\ got' \subseteq Messages \X Messages
  BY <1>1, <1>4 DEF MessagesAreWhole
<1> DEFINE H2 == Held'
<1>6. decoder' \in Messages \cup {None, Broken}
  <2>1. decoder \in Messages \cup {None, Broken}
    BY DEF TypeOK
  <2> QED
    BY <1>3, <2>1, RemainderIs
<1>7. H2 \subseteq R /\ \A h \in H2 : \A x \in R : ~Before(h, x)
  <2>1. CASE H2 = {}
    BY <2>1
  <2>2. CASE H2 # {}
    <3>1. link = "up" /\ Remainder(skipped) \in Messages /\ H2 = {<<Remainder(skipped), 1>>}
      BY <2>2 DEF Held
    <3>2. PICK k \in Reports : /\ \A i \in Reports : i <= k
                               /\ Half(k)[2] = 1 /\ Remainder(skipped) = Half(k)[1]
      <4>1. Remainder(skipped) \notin {None, Broken}
        BY <3>1 DEF Messages, None, Broken
      <4>2. Reports = {} => decoder \notin Messages
        BY DEF Reports
      <4> QED
        BY <3>1, <4>1, <4>2, RemainderIs
    <3>3. H2 = {Half(k)} /\ Half(k) \in R /\ Half(k) \in Places
      BY <1>2, <1>3, <3>1, <3>2
    <3>4. ASSUME NEW x \in R
          PROVE  ~Before(Half(k), x)
      <4>1. PICK i \in Reports : x = Half(i)
        BY <1>2, <3>1
      <4>2. i = k \/ i < k
        BY <1>2, <3>2
      <4>3. x = Half(k) \/ Before(x, Half(k))
        BY <1>2, <3>1, <4>1, <4>2
      <4> QED
        BY <1>3, <3>3, <4>1, <4>3, OrderIsStrict
    <3> QED
      BY <3>3, <3>4
  <2> QED
    BY <2>1, <2>2
<1>8. Sent(events') = {} /\ Sorted(events')
  BY DEF Sent, Sorted
<1> HIDE DEF H2
<1>9. Whole(H2, dropped)
  <2>1. H2 \subseteq R /\ dropped \subseteq dropped
    BY <1>7
  <2>2. \A a, b \in H2 : \A x \in R : Before(a, x) /\ Before(x, b) => x \in H2 \cup dropped
    BY <1>7
  <2> QED
    BY <1>1, <2>1, <2>2, WholePart
<1>10. ASSUME port = "open"
       PROVE  Whole(H2 \cup T \cup {app}, dropped)
  <2> DEFINE S == H2 \cup T \cup {app}
             A == R \cup T \cup {app}
  <2>1. S \subseteq A /\ dropped \subseteq dropped /\ Whole(A, dropped)
    BY <1>1, <1>7, <1>10
  <2>2. ASSUME NEW a \in S, NEW x \in A, Before(a, x)
        PROVE  x \in S
    <3>1. CASE x \in R /\ a \in H2
      BY <1>7, <2>2, <3>1
    <3>2. CASE x \in R /\ a \in T \cup {app}
      <4>1. Before(x, a) /\ x \in Places /\ a \in Places
        BY <1>1, <3>2 DEF Ahead
      <4> QED
        BY <2>2, <4>1, OrderIsStrict
    <3>3. CASE x \notin R
      BY <2>2, <3>3
    <3> QED
      BY <2>2, <3>1, <3>2, <3>3
  <2> HIDE DEF S, A
  <2>3. Whole(S, dropped)
    BY <2>1, <2>2, WholePart
  <2> QED
    BY <2>3 DEF S
<1>11. Ahead(H2, T \cup {app})
  BY <1>1, <1>7 DEF Ahead
<1>12. /\ Held' \cup Sent(events') = H2 /\ Sent(tx') = T /\ app' = app
       /\ Held' \cup Sent(events') \cup Sent(tx') \cup {app'} = H2 \cup T \cup {app}
  BY <1>8 DEF H2, T
<1>13. Sorted(tx') /\ Ahead(Held', Sent(events'))
  BY <1>1, <1>8 DEF Ahead
<1>14. PipeInv'
  BY <1>1, <1>8, <1>9, <1>10, <1>11, <1>12, <1>13 DEF PipeInv
<1> QED
  BY <1>5, <1>6, <1>14

-----------------------------------------------------------------------------
(* The steps.                                                              *)
LEMMA InitInv == Init => Inv
<1> SUFFICES ASSUME Init
             PROVE  Inv
  OBVIOUS
<1> USE ConstantsHold
<1>1. app \in Halves \cup {<<MaxMessages + 1, 1>>}
  <2>1. 1 \in Messages \/ MaxMessages = 0
    BY DEF Messages
  <2> QED
    BY <2>1 DEF Init, Halves
<1>2. health \in [probe : 0 .. HEALTH_CHECK_INTERVAL,
                  pending : (0 .. HEALTH_CHECK_TIMEOUT) \cup {None}]
  BY DEF Init, NewHealth, HEALTH_CHECK_INTERVAL
<1>3. retry \in [at : (0 .. MaxDelay) \cup {None}, delay : 1 .. MaxDelay]
  BY DEF Init, SERIAL_RETRY_INITIAL_DELAY
<1>4. TypeOK
  <2>1. <<>> \in Seq(Frames) /\ Len(<<>>) = 0 /\ tx = <<>> /\ events = <<>>
    BY EmptySeq DEF Init
  <2>2. /\ input \in [waiting : Nat, answered : Nat]
        /\ input.waiting + input.answered <= MaxRequests
    BY DEF Init
  <2>3. /\ tx \in Seq(Frames) /\ Len(tx) <= TxCap /\ events \in Seq(Frames)
        /\ left \in 0 .. HandshakeTime /\ mishaps \in 0 .. MaxMishaps /\ pings \in Nat
    BY <2>1 DEF Init
  <2> QED
    BY <1>1, <1>2, <1>3, <2>2, <2>3 DEF Init, TypeOK
<1>5. LinkInv
  BY DEF Init, LinkInv
<1>6. Sent(<<>>) = {} /\ Sorted(<<>>) /\ Held = {}
  BY DEF Init, Sent, Sorted, Held, None, Messages
<1>7. tx = <<>> /\ events = <<>> /\ got = {} /\ app = <<1, 1>>
  BY DEF Init
<1>8. Whole({app}, dropped)
  BY <1>4, PipeTypes, OrderIsStrict DEF Whole
<1>9. PipeInv /\ MessagesAreWhole
  BY <1>6, <1>7, <1>8 DEF PipeInv, Ahead, Whole, MessagesAreWhole
<1> QED
  BY <1>4, <1>5, <1>9 DEF Inv

(* The desktop and the firmware.                                           *)
LEMMA FirmwareKeepsInv ==
    Inv /\ (DesktopSends \/ AnswerPing \/ FlushFrame \/ FlushDamaged) => Inv'
<1> SUFFICES ASSUME Inv, DesktopSends \/ AnswerPing \/ FlushFrame \/ FlushDamaged
             PROVE  Inv'
  OBVIOUS
<1> USE ConstantsHold
<1>1. TypeOK /\ LinkInv /\ PipeInv /\ MessagesAreWhole
  BY DEF Inv
<1>2. /\ UNCHANGED <<board, mode, input, port, link, step, lost, decoder, health, retry,
                     left, got>>
      /\ Held' = Held
  BY DEF DesktopSends, AnswerPing, FlushFrame, FlushDamaged, Flush, client, loop, seen, Held
<1>3. CASE DesktopSends
  <2>1. app \in Halves
    BY <1>1, <1>3 DEF DesktopSends, TypeOK, Messages
  <2>2. /\ Push([kind |-> "report", of |-> app]) /\ app' = After(app)
        /\ dropped' = IF Len(tx) < TxCap THEN dropped ELSE dropped \cup {app}
        /\ UNCHANGED <<events, pings, mishaps>>
    BY <1>3 DEF DesktopSends, After
  <2>3. PipeInv' /\ tx' \in Seq(Frames) /\ Len(tx') <= TxCap
    BY <1>1, <1>2, <2>1, <2>2, ReportPushed
  <2>4. app' \in Halves \cup {<<MaxMessages + 1, 1>>} /\ dropped' \subseteq Halves
    BY <1>1, <2>1, <2>2, AfterIsNext DEF Places, TypeOK
  <2>5. MessagesAreWhole'
    BY <1>1, <1>2, <2>2 DEF MessagesAreWhole
  <2>6. LinkInv'
    BY <1>1, <1>2, <2>2 DEF LinkInv
  <2> QED
    BY <1>1, <1>2, <2>2, <2>3, <2>4, <2>5, <2>6 DEF Inv, TypeOK
<1>4. CASE AnswerPing
  <2> DEFINE f == [kind |-> "status"]
  <2>1. f \in Frames /\ Of(f) = {}
    BY DEF Frames, Of
  <2>2. /\ tx' = IF Len(tx) < TxCap THEN Append(tx, f) ELSE tx
        /\ pings' \in Nat /\ UNCHANGED <<app, mishaps, events, dropped>>
    BY <1>1, <1>4 DEF AnswerPing, Push, seen, TypeOK
  <2> HIDE DEF f
  <2>3. /\ tx' \in Seq(Frames) /\ Len(tx') <= TxCap /\ Sent(tx') = Sent(tx) /\ Sorted(tx')
    <3>1. tx \in Seq(Frames) /\ Len(tx) <= TxCap /\ Sorted(tx) /\ Ahead(Sent(tx), Of(f))
      BY <1>1, <2>1 DEF TypeOK, PipeInv, Ahead
    <3>2. CASE Len(tx) < TxCap
      <4>1. tx' = Append(tx, f) /\ Len(tx) \in Nat
        BY <2>2, <3>1, <3>2, LenProperties
      <4>2. /\ tx' \in Seq(Frames) /\ Len(tx') = Len(tx) + 1
            /\ Sent(tx') = Sent(tx) \cup Of(f) /\ Sorted(tx')
        BY <2>1, <3>1, <4>1, SentAppend
      <4>3. Len(tx') <= TxCap
        BY <3>2, <4>1, <4>2
      <4> QED
        BY <2>1, <4>2, <4>3
    <3>3. CASE ~(Len(tx) < TxCap)
      BY <2>2, <3>1, <3>3
    <3> QED
      BY <3>2, <3>3
  <2>4. PipeInv'
    <3>1. Sent(events') = Sent(events) /\ Sorted(events')
      BY <1>1, <2>2 DEF Sent, Sorted, PipeInv
    <3> QED
      BY <1>1, <1>2, <2>2, <2>3, <3>1 DEF PipeInv
  <2>5. MessagesAreWhole' /\ LinkInv'
    BY <1>1, <1>2, <2>2 DEF MessagesAreWhole, LinkInv
  <2> QED
    BY <1>1, <1>2, <2>2, <2>3, <2>4, <2>5 DEF Inv, TypeOK
<1>5. CASE FlushFrame \/ FlushDamaged
  <2> DEFINE f == [kind |-> "error"]
  <2>1. f \in Frames /\ Of(f) = {}
    BY DEF Frames, Of
  <2> HIDE DEF f
  <2>2. /\ tx # <<>> /\ port = "open" /\ tx' = Tail(tx) /\ UNCHANGED <<app, pings>>
        /\ mishaps' \in 0 .. MaxMishaps
    <3>1. mishaps' = mishaps \/ (mishaps < MaxMishaps /\ mishaps' = mishaps + 1)
      BY <1>5 DEF FlushFrame, FlushDamaged
    <3>2. mishaps \in 0 .. MaxMishaps
      BY <1>1 DEF TypeOK
    <3>3. mishaps' \in 0 .. MaxMishaps
      BY <3>1, <3>2
    <3> QED
      BY <1>5, <3>3 DEF FlushFrame, FlushDamaged, Flush
  <2>3. Head(tx) \in Frames
    BY <1>1, <2>2, SentTail DEF TypeOK, PipeInv
  <2>4. \E e \in Frames : /\ events' = Append(events, e)
                          /\ \/ e = Head(tx) /\ dropped' = dropped
                             \/ Of(e) = {} /\ dropped' = dropped \cup Of(Head(tx))
    <3>1. CASE FlushFrame
      BY <2>3, <3>1 DEF FlushFrame, Flush
    <3>2. CASE FlushDamaged
      <4>1. events' = Append(events, f)
        BY <3>2 DEF FlushDamaged, Flush, f
      <4>2. dropped' = dropped \cup Of(Head(tx))
        BY <3>2 DEF FlushDamaged, Of
      <4> QED
        BY <2>1, <4>1, <4>2
    <3> QED
      BY <1>5, <3>1, <3>2
  <2>5. /\ PipeInv' /\ tx' \in Seq(Frames) /\ Len(tx') <= TxCap /\ events' \in Seq(Frames)
    BY <1>1, <1>2, <2>2, <2>4, FrameFlushed
  <2>6. dropped \subseteq dropped' /\ dropped' \subseteq Halves
    BY <1>1, <2>3, <2>4, FrameIs DEF TypeOK, Of
  <2>7. MessagesAreWhole' /\ LinkInv'
    <3>1. link # "down"
      BY <1>1, <2>2 DEF LinkInv
    <3> QED
      BY <1>1, <1>2, <2>6, <3>1 DEF MessagesAreWhole, LinkInv
  <2> QED
    BY <1>1, <1>2, <2>2, <2>5, <2>6, <2>7 DEF Inv, TypeOK
<1> QED
  BY <1>3, <1>4, <1>5

(* What happens to the board, the clients and the clock.                   *)
LEMMA WorldKeepsInv ==
    Inv /\ (Hang \/ Unplug \/ Recover \/ ReaderEnds \/ Ask \/ Tick) => Inv'
<1> SUFFICES ASSUME Inv, Hang \/ Unplug \/ Recover \/ ReaderEnds \/ Ask \/ Tick
             PROVE  Inv'
  OBVIOUS
<1> USE ConstantsHold
<1>1. TypeOK /\ LinkInv /\ PipeInv /\ MessagesAreWhole
  BY DEF Inv
<1>2. /\ UNCHANGED <<mode, link, step, lost, decoder, got, dropped>>
      /\ Held' = Held /\ MessagesAreWhole'
  BY <1>1 DEF Hang, Unplug, Recover, ReaderEnds, Ask, Tick, Mishap, firmware, client, loop,
              seen, Held, MessagesAreWhole
<1>3. CASE Unplug
  <2> DEFINE f == [kind |-> "disconnected"]
  <2>1. f \in Frames /\ f.kind # "report"
    BY DEF Frames
  <2>2. /\ tx' = <<>> /\ pings' = 0 /\ board' = "gone" /\ mishaps' \in 0 .. MaxMishaps
        /\ app' = IF app[2] = 1 THEN app ELSE <<app[1] + 1, 1>>
        /\ \/ port = "open" /\ events' = Append(events, f) /\ port' = "broken"
           \/ port # "open" /\ UNCHANGED <<events, port>>
        /\ UNCHANGED <<input, health, retry, left>>
    BY <1>1, <1>3 DEF Unplug, Mishap, TypeOK, client
  <2> HIDE DEF f
  <2>3. app' \in {app, After(app)} /\ (app' # app => app \in Halves)
    BY <1>1, <2>2 DEF After, TypeOK
  <2>4. PipeInv' /\ events' \in Seq(Frames)
    <3>1. port' # "open"
      BY <2>2
    <3>2. events' = events \/ \E g \in Frames : g.kind # "report" /\ events' = Append(events, g)
      BY <2>1, <2>2
    <3> QED
      BY <1>1, <1>2, <2>2, <2>3, <3>1, <3>2, BoardGone
  <2>5. app' \in Halves \cup {<<MaxMessages + 1, 1>>}
    BY <1>1, <2>3, AfterIsNext DEF TypeOK, Places
  <2>6. <<>> \in Seq(Frames) /\ Len(<<>>) = 0
    BY EmptySeq
  <2>7. LinkInv'
    BY <1>1, <1>2, <2>2 DEF LinkInv
  <2> QED
    BY <1>1, <1>2, <2>2, <2>4, <2>5, <2>6, <2>7 DEF Inv, TypeOK
<1>4. CASE Hang \/ Recover \/ ReaderEnds \/ Ask \/ Tick
  <2>1. UNCHANGED <<tx, events, app>>
    BY <1>4 DEF Hang, Recover, ReaderEnds, Ask, Tick, firmware
  <2>2. /\ port' = port \/ (port = "stuck" /\ port' = "closed")
        /\ board' \in {"up", "hung", "gone"} /\ mishaps' \in 0 .. MaxMishaps
    BY <1>1, <1>4 DEF Hang, Recover, ReaderEnds, Ask, Tick, Mishap, firmware, TypeOK
  <2>3. pings' \in Nat
    <3>1. CASE Tick
      <4>1. pings' = pings \/ pings' = Min({pings + 1, 2})
        BY <3>1 DEF Tick
      <4>2. pings \in Nat /\ pings + 1 \in Int /\ 2 \in Int /\ pings + 1 \in Nat
        BY <1>1 DEF TypeOK
      <4>3. Min({pings + 1, 2}) \in {pings + 1, 2}
        BY <4>2, MinIsOne
      <4> QED
        BY <4>1, <4>2, <4>3
    <3>2. CASE ~Tick
      BY <1>1, <1>4, <3>2 DEF Hang, Recover, ReaderEnds, Ask, firmware, TypeOK
    <3> QED
      BY <3>1, <3>2
  <2>4. /\ input' \in [waiting : Nat, answered : Nat]
        /\ input'.waiting + input'.answered <= MaxRequests
    <3>1. CASE Ask
      <4> DEFINE n == input.waiting + 1
      <4>1. /\ n \in Nat /\ input' = [input EXCEPT !.waiting = n]
            /\ n + input.answered <= MaxRequests
        BY <1>1, <3>1 DEF Ask, TypeOK
      <4> HIDE DEF n
      <4> QED
        BY <1>1, <4>1 DEF TypeOK
    <3>2. CASE ~Ask
      BY <1>1, <1>4, <3>2 DEF Hang, Recover, ReaderEnds, Tick, Mishap, client, TypeOK
    <3> QED
      BY <3>1, <3>2
  <2>5. /\ health' \in [probe : 0 .. HEALTH_CHECK_INTERVAL,
                        pending : (0 .. HEALTH_CHECK_TIMEOUT) \cup {None}]
        /\ retry' \in [at : (0 .. MaxDelay) \cup {None}, delay : 1 .. MaxDelay]
        /\ left' \in 0 .. HandshakeTime
    <3>1. CASE Tick
      <4> DEFINE n == Down(retry.at)
      <4>1. n \in (0 .. MaxDelay) \cup {None} /\ retry' = [retry EXCEPT !.at = n]
        <5>1. retry.at \in (0 .. MaxDelay) \cup {None}
          BY <1>1 DEF TypeOK
        <5>2. \A t \in (0 .. MaxDelay) \cup {None} : Down(t) \in (0 .. MaxDelay) \cup {None}
          BY DEF Down, None
        <5> QED
          BY <3>1, <5>1, <5>2 DEF Tick
      <4>2. left' \in 0 .. HandshakeTime
        BY <1>1, <3>1 DEF Tick, Down, TypeOK
      <4>3. /\ Down(health.probe) \in 0 .. HEALTH_CHECK_INTERVAL
            /\ Down(health.pending) \in (0 .. HEALTH_CHECK_TIMEOUT) \cup {None}
        BY <1>1 DEF TypeOK, Down, None, HEALTH_CHECK_INTERVAL, HEALTH_CHECK_TIMEOUT
      <4>4. \/ health' = [probe |-> Down(health.probe), pending |-> Down(health.pending)]
            \/ health' = health
        BY <3>1 DEF Tick
      <4>5. health' \in [probe : 0 .. HEALTH_CHECK_INTERVAL,
                         pending : (0 .. HEALTH_CHECK_TIMEOUT) \cup {None}]
        BY <1>1, <4>3, <4>4 DEF TypeOK
      <4> HIDE DEF n
      <4>6. retry' \in [at : (0 .. MaxDelay) \cup {None}, delay : 1 .. MaxDelay]
        BY <1>1, <4>1 DEF TypeOK
      <4> QED
        BY <4>2, <4>5, <4>6
    <3>2. CASE ~Tick
      BY <1>1, <1>4, <3>2 DEF Hang, Recover, ReaderEnds, Ask, Mishap, TypeOK
    <3> QED
      BY <3>1, <3>2
  <2>6. PipeInv'
    BY <1>1, <1>2, <2>1, <2>2, PipeKept
  <2>7. LinkInv'
    BY <1>1, <1>2, <2>1, <2>2 DEF LinkInv
  <2> QED
    BY <1>1, <1>2, <2>1, <2>2, <2>3, <2>4, <2>5, <2>6, <2>7 DEF Inv, TypeOK
<1> QED
  BY <1>3, <1>4

LEMMA ReaderJoined ==
    ASSUME TypeOK, JoinReader
    PROVE  port' \in {"closed", "stuck"} /\ mishaps' \in 0 .. MaxMishaps
<1>1. mishaps \in 0 .. MaxMishaps
  BY DEF TypeOK
<1>2. /\ port' \in {"closed", "stuck"}
      /\ mishaps' = mishaps \/ (mishaps < MaxMishaps /\ mishaps' = mishaps + 1)
  BY DEF JoinReader
<1> QED
  BY <1>1, <1>2, ConstantsHold

LEMMA RetryLater ==
    ASSUME TypeOK, Fail
    PROVE  /\ retry' \in [at : (0 .. MaxDelay) \cup {None}, delay : 1 .. MaxDelay]
           /\ step' \in {"drain", "sleep"} /\ link' = "down" /\ events' = <<>>
<1>1. retry.delay \in 1 .. MaxDelay
  BY DEF TypeOK
<1> DEFINE n == Min({retry.delay * 2, MaxDelay})
<1>2. n \in 1 .. MaxDelay
  <2> DEFINE d == retry.delay * 2
  <2>1. d \in Int /\ d >= 1 /\ MaxDelay \in Int /\ MaxDelay >= 1
    BY <1>1, ConstantsHold
  <2> HIDE DEF d
  <2>2. Min({d, MaxDelay}) \in {d, MaxDelay} /\ Min({d, MaxDelay}) <= MaxDelay
    BY <2>1, MinIsOne
  <2>3. Min({d, MaxDelay}) \in 1 .. MaxDelay
    BY <2>1, <2>2
  <2> QED
    BY <2>3 DEF d
<1>3. /\ retry' = [at |-> retry.delay, delay |-> n]
      /\ step' \in {"drain", "sleep"} /\ link' = "down" /\ events' = <<>>
  BY DEF Fail
<1> HIDE DEF n
<1>4. retry.delay \in (0 .. MaxDelay) \cup {None}
  BY <1>1
<1> QED
  BY <1>2, <1>3, <1>4

LEMMA Answered ==
    ASSUME TypeOK, input' = input \/ input' = Answer(input.waiting)
    PROVE  /\ input' \in [waiting : Nat, answered : Nat]
           /\ input'.waiting + input'.answered <= MaxRequests
<1>1. /\ input \in [waiting : Nat, answered : Nat]
      /\ input.waiting + input.answered <= MaxRequests
  BY DEF TypeOK
<1>2. CASE input' = input
  BY <1>1, <1>2
<1>3. CASE input' = Answer(input.waiting)
  <2>1. input'.waiting = 0 /\ input'.answered = input.answered + input.waiting
        /\ input' = [waiting |-> input'.waiting, answered |-> input'.answered]
    BY <1>1, <1>3 DEF Answer
  <2> QED
    BY <1>1, <2>1
<1> QED
  BY <1>2, <1>3

(* The daemon or the stand-alone server.                                   *)
LEMMA LoopKeepsInv == Inv /\ Loop => Inv'
<1> SUFFICES ASSUME Inv, Loop
             PROVE  Inv'
  OBVIOUS
<1> USE ConstantsHold
<1>1. TypeOK /\ LinkInv /\ PipeInv /\ MessagesAreWhole
  BY DEF Inv
<1>2. UNCHANGED <<board, tx, app, mode, dropped>>
  BY DEF Loop, Drain, Replace, Close, Ping, PingFails, NoPing, OpenFails, Open, Linked,
         Discard, HandshakeFails, TryAgain, firmware, client, seen
<1>3. /\ <<>> \in Seq(Frames)
      /\ NewHealth \in [probe : 0 .. HEALTH_CHECK_INTERVAL,
                        pending : (0 .. HEALTH_CHECK_TIMEOUT) \cup {None}]
  BY DEF NewHealth, HEALTH_CHECK_INTERVAL
<1>4. CASE Drain
  <2>0. PICK skipped \in SUBSET Restarts :
           /\ got' = got \cup Feed(skipped) /\ decoder' = Remainder(skipped)
           /\ lost' = (Has("disconnected") \/ AckFails(skipped))
    BY <1>4 DEF Drain
  <2>1. /\ step = "drain" /\ events' = <<>>
        /\ step' = "check" /\ lost' \in BOOLEAN
        /\ input' = Answer(input.waiting) /\ health' \in {health, NewHealth}
        /\ UNCHANGED <<pings, mishaps, port, link, retry, left>>
    BY <1>4, <2>0 DEF Drain, firmware
  <2>2. /\ PipeInv' /\ MessagesAreWhole'
        /\ got' \subseteq Messages \X Messages /\ decoder' \in Messages \cup {None, Broken}
    BY <1>1, <1>2, <2>0, <2>1, Drained
  <2>3. LinkInv'
    BY <1>1, <2>1 DEF LinkInv
  <2>4. TypeOK'
    BY <1>1, <1>2, <1>3, <2>1, <2>2, Answered DEF TypeOK
  <2> QED
    BY <2>2, <2>3, <2>4 DEF Inv
<1>5. UNCHANGED got => MessagesAreWhole'
  BY <1>1, <1>2 DEF MessagesAreWhole
<1>6. CASE Replace \/ PingFails
  <2>1. Close
    BY <1>6 DEF Replace, PingFails
  <2>2. /\ link' = "down" /\ events' = <<>> /\ step' = "open" /\ lost' = FALSE
        /\ JoinReader /\ UNCHANGED <<pings, input, decoder, health, retry, left, got>>
    BY <2>1 DEF Close, client, seen
  <2>3. port' \in {"closed", "stuck"} /\ mishaps' \in 0 .. MaxMishaps
    BY <1>1, <2>2, ReaderJoined
  <2>4. PipeInv'
    BY <1>1, <1>2, <2>2, PipeEmptied
  <2>5. LinkInv'
    BY <2>2, <2>3 DEF LinkInv
  <2>6. TypeOK'
    BY <1>1, <1>2, <1>3, <2>2, <2>3 DEF TypeOK
  <2> QED
    BY <1>5, <2>2, <2>4, <2>5, <2>6 DEF Inv
<1>7. CASE OpenFails
  <2>1. /\ Fail /\ step = "open"
        /\ input' = input \/ input' = Answer(input.waiting)
        /\ UNCHANGED <<pings, mishaps, port, lost, decoder, health, left, got>>
    BY <1>7 DEF OpenFails, Refuse, firmware, seen
  <2>2. /\ retry' \in [at : (0 .. MaxDelay) \cup {None}, delay : 1 .. MaxDelay]
        /\ step' \in {"drain", "sleep"} /\ link' = "down" /\ events' = <<>>
    BY <1>1, <2>1, RetryLater
  <2>3. port \in {"closed", "stuck"}
    <3>1. step = "open"
      BY <1>7 DEF OpenFails
    <3> QED
      BY <1>1, <3>1 DEF LinkInv, TypeOK
  <2>4. PipeInv'
    BY <1>1, <1>2, <2>2, PipeEmptied
  <2>5. LinkInv'
    BY <2>1, <2>2, <2>3 DEF LinkInv
  <2>6. /\ input' \in [waiting : Nat, answered : Nat]
        /\ input'.waiting + input'.answered <= MaxRequests
    BY <1>1, <2>1, Answered
  <2>7. TypeOK'
    BY <1>1, <1>2, <1>3, <2>1, <2>2, <2>6 DEF TypeOK
  <2> QED
    BY <1>5, <2>1, <2>4, <2>5, <2>7 DEF Inv
<1>8. CASE Open
  <2>1. /\ input' = input \/ input' = Answer(input.waiting)
        /\ step = "open" /\ port' = "open" /\ link' = "handshake" /\ step' = "handshake"
        /\ left' = HandshakeTime /\ pings' = pings + 1
        /\ UNCHANGED <<mishaps, events, lost, decoder, health, retry, got>>
    BY <1>8 DEF Open, Refuse, seen
  <2>2. events' = <<>> /\ pings' \in Nat /\ left' \in 0 .. HandshakeTime
    BY <1>1, <2>1 DEF LinkInv, TypeOK
  <2>3. PipeInv'
    BY <1>1, <1>2, <2>1, <2>2, PipeEmptied
  <2>4. LinkInv'
    BY <2>1 DEF LinkInv
  <2>5. /\ input' \in [waiting : Nat, answered : Nat]
        /\ input'.waiting + input'.answered <= MaxRequests
    BY <1>1, <2>1, Answered
  <2>6. TypeOK'
    BY <1>1, <1>2, <1>3, <2>1, <2>2, <2>5 DEF TypeOK
  <2> QED
    BY <1>5, <2>1, <2>3, <2>4, <2>6 DEF Inv
<1>9. CASE Linked \/ Discard
  <2>1. /\ step = "handshake" /\ events # <<>> /\ events' = Tail(events)
        /\ UNCHANGED <<pings, mishaps, input, port, lost, got>>
        /\ \/ link' = "up" /\ step' = "drain" /\ decoder' = None /\ health' = NewHealth
              /\ retry' = [at |-> None, delay |-> SERIAL_RETRY_INITIAL_DELAY] /\ left' = 0
           \/ UNCHANGED <<link, step, decoder, health, retry, left>>
    BY <1>9 DEF Linked, Discard, firmware, client, loop, seen
  <2>2. link = "handshake" /\ Held = {} /\ Held' = {}
    BY <1>1, <2>1 DEF LinkInv, Held, None, Messages
  <2>3. PipeInv' /\ events' \in Seq(Frames)
    BY <1>1, <1>2, <2>1, <2>2, FrameTaken
  <2>4. LinkInv'
    BY <1>1, <2>1, <2>2 DEF LinkInv
  <2>5. retry' \in [at : (0 .. MaxDelay) \cup {None}, delay : 1 .. MaxDelay]
    BY <1>1, <2>1 DEF SERIAL_RETRY_INITIAL_DELAY, TypeOK
  <2>6. left' \in 0 .. HandshakeTime
    BY <1>1, <2>1 DEF TypeOK
  <2>7. TypeOK'
    BY <1>1, <1>2, <1>3, <2>1, <2>3, <2>5, <2>6 DEF TypeOK
  <2> QED
    BY <1>5, <2>1, <2>3, <2>4, <2>7 DEF Inv
<1>10. CASE HandshakeFails
  <2>1. /\ Fail /\ JoinReader /\ left' = 0 /\ step = "handshake"
        /\ UNCHANGED <<pings, input, lost, decoder, health, got>>
    BY <1>10 DEF HandshakeFails, client, seen
  <2>2. /\ retry' \in [at : (0 .. MaxDelay) \cup {None}, delay : 1 .. MaxDelay]
        /\ step' \in {"drain", "sleep"} /\ link' = "down" /\ events' = <<>>
        /\ port' \in {"closed", "stuck"} /\ mishaps' \in 0 .. MaxMishaps
    BY <1>1, <2>1, RetryLater, ReaderJoined
  <2>3. PipeInv'
    BY <1>1, <1>2, <2>2, PipeEmptied
  <2>4. LinkInv'
    BY <2>2 DEF LinkInv
  <2>5. left' \in 0 .. HandshakeTime
    BY <2>1
  <2>6. TypeOK'
    BY <1>1, <1>2, <1>3, <2>1, <2>2, <2>5 DEF TypeOK
  <2> QED
    BY <1>5, <2>1, <2>3, <2>4, <2>6 DEF Inv
<1>11. CASE Ping \/ NoPing \/ TryAgain
  <2>1. /\ UNCHANGED <<mishaps, input, port, events, link, lost, decoder, retry, left, got>>
        /\ pings' \in {pings, pings + 1}
        /\ \/ step = "check" /\ step' = "drain"
           \/ step = "sleep" /\ step' = "open"
    BY <1>11 DEF Ping, NoPing, TryAgain, firmware, client, seen
  <2>2. health' \in [probe : 0 .. HEALTH_CHECK_INTERVAL,
                     pending : (0 .. HEALTH_CHECK_TIMEOUT) \cup {None}]
    <3>1. health' = health \/ health' = [health EXCEPT !.pending = HEALTH_CHECK_TIMEOUT]
      BY <1>11 DEF Ping, NoPing, TryAgain
    <3>2. HEALTH_CHECK_TIMEOUT \in 0 .. HEALTH_CHECK_TIMEOUT
      BY DEF HEALTH_CHECK_TIMEOUT
    <3> QED
      BY <1>1, <3>1, <3>2 DEF TypeOK
  <2>3. Held' = Held
    BY <2>1 DEF Held
  <2>4. PipeInv'
    BY <1>1, <1>2, <2>1, <2>3, PipeKept
  <2>5. LinkInv'
    BY <1>1, <2>1 DEF LinkInv
  <2>6. pings' \in Nat
    BY <1>1, <2>1 DEF TypeOK
  <2>7. TypeOK'
    BY <1>1, <1>2, <2>1, <2>2, <2>6 DEF TypeOK
  <2> QED
    BY <1>5, <2>1, <2>4, <2>5, <2>7 DEF Inv
<1> QED
  BY <1>4, <1>6, <1>7, <1>8, <1>9, <1>10, <1>11 DEF Loop

LEMMA Invariant == Spec => []Inv
<1>1. Inv /\ [Next]_vars => Inv'
  <2> SUFFICES ASSUME Inv, [Next]_vars
               PROVE  Inv'
    OBVIOUS
  <2>1. CASE UNCHANGED vars
    <3>1. /\ UNCHANGED <<board, tx, pings, app, mishaps, mode, input, port, events, link,
                         step, lost, decoder, health, retry, left, got, dropped>>
          /\ Held' = Held
      BY <2>1 DEF vars, firmware, client, loop, seen, Held
    <3>2. PipeInv'
      BY <3>1, PipeKept DEF Inv
    <3> QED
      BY <3>1, <3>2 DEF Inv, TypeOK, LinkInv, MessagesAreWhole
  <2>2. CASE DesktopSends \/ AnswerPing \/ FlushFrame \/ FlushDamaged
    BY <2>2, FirmwareKeepsInv
  <2>3. CASE Hang \/ Unplug \/ Recover \/ ReaderEnds \/ Ask \/ Tick
    BY <2>3, WorldKeepsInv
  <2>4. CASE Loop
    BY <2>4, LoopKeepsInv
  <2> QED
    BY <2>1, <2>2, <2>3, <2>4 DEF Next, Firmware, World
<1> QED
  BY <1>1, InitInv, PTL DEF Spec

-----------------------------------------------------------------------------
(* Every variable keeps its type: the firmware's queue never holds more    *)
(* than its capacity, the delay of a retry stays within its bounds.        *)
THEOREM TypeCorrect == Spec => []TypeOK
<1>1. Inv => TypeOK
  BY DEF Inv
<1> QED
  BY <1>1, Invariant, PTL

(* No Codex message is glued from the halves of two by a replacement of    *)
(* the runtime, a discarded handshake or an unplugged board: what is put   *)
(* together wrongly lost both inner halves on the link (replace_runtime,   *)
(* CodexDecoder::feed).                                                    *)
THEOREM OnlyWholeMessages == Spec => []MessagesAreWhole
<1>1. Inv => MessagesAreWhole
  BY DEF Inv
<1> QED
  BY <1>1, Invariant, PTL
=============================================================================

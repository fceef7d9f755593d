--------------------------- MODULE SessionsProofs ---------------------------
(***************************************************************************)
(* Theorems about Sessions for every number of sessions, requests, keys    *)
(* and bounds.  The inductive invariant is Inv: the types; the order of    *)
(* the messages of a session in session_rx (InboxInv); that nothing has    *)
(* been said yet of a request that is still on the way (ReplyInv); and     *)
(* what a poll that waits is owed (TableInv).                              *)
(***************************************************************************)
EXTENDS Sessions, SequenceTheorems, FiniteSetTheorems, TLAPS

(* The first request of its session that the loop cannot have seen while   *)
(* m is on the way.                                                        *)
From(m) ==
    IF m.kind \in Lines THEN m.n
    ELSE IF m.kind = "closed" THEN MaxRequests + 1 ELSE 1

InboxInv ==
    /\ \A s \in SessionIds : reader[s] \in {"new", "greets"} => sent[s] = 0
    /\ \A k \in DOMAIN inbox :
          inbox[k].kind \in Lines => inbox[k].n \in 1 .. sent[inbox[k].session]
    /\ \A k \in DOMAIN inbox : inbox[k].kind = "hello" => inbox[k].agent \in Clients
    /\ \A j, k \in DOMAIN inbox :
          j < k /\ inbox[j].session = inbox[k].session /\ inbox[j].kind \in Lines
              => inbox[j].n < From(inbox[k])

ReplyInv ==
    /\ \A s \in SessionIds, n \in Requests : n > sent[s] => reply[s][n] = "none"
    /\ \A k \in DOMAIN inbox, n \in Requests :
          n >= From(inbox[k]) => reply[inbox[k].session][n] = "none"

TableInv ==
    /\ \A s \in SessionIds : session[s].agent # Nobody => session[s].known
    /\ PollsAreOwed
    /\ AnsweredOnce

Inv == TypeOK /\ InboxInv /\ ReplyInv /\ TableInv

-----------------------------------------------------------------------------
(* Sequences.                                                              *)

(* EventQueue::push drops the oldest event of a full queue, so a queue     *)
(* never gets shorter by it.                                               *)
LEMMA PushProperties ==
    ASSUME NEW S, NEW q \in Seq(S), NEW e \in S
    PROVE  /\ Push(q, e) \in Seq(S)
           /\ Len(Push(q, e)) >= Len(q)
           /\ Len(q) <= QueueCap => Len(Push(q, e)) <= QueueCap
           /\ \A k \in DOMAIN Push(q, e) :
                 Push(q, e)[k] = e \/ \E j \in DOMAIN q : Push(q, e)[k] = q[j]
<1> DEFINE r == IF Len(q) >= QueueCap THEN Tail(q) ELSE q
<1>1. QueueCap \in Nat /\ QueueCap >= 1 /\ Len(q) \in Nat /\ DOMAIN q = 1 .. Len(q)
  BY QueueCapPositive, LenProperties
<1>2. /\ r \in Seq(S) /\ Len(r) + 1 >= Len(q)
      /\ Len(q) <= QueueCap => Len(r) + 1 <= QueueCap
      /\ \A k \in 1 .. Len(r) : \E j \in DOMAIN q : r[k] = q[j]
  <2>1. CASE Len(q) >= QueueCap
    <3>1. q # << >>
      BY <1>1, <2>1, EmptySeq
    <3>2. /\ Tail(q) \in Seq(S) /\ Len(Tail(q)) = Len(q) - 1
          /\ \A k \in 1 .. Len(Tail(q)) : Tail(q)[k] = q[k + 1]
      BY <3>1, HeadTailProperties
    <3> QED
      BY <1>1, <2>1, <3>2
  <2>2. CASE ~(Len(q) >= QueueCap)
    BY <1>1, <2>2
  <2> QED
    BY <2>1, <2>2
<1>3. Push(q, e) = Append(r, e)
  BY DEF Push
<1> HIDE DEF r
<1>4. /\ Append(r, e) \in Seq(S) /\ Len(Append(r, e)) = Len(r) + 1
      /\ \A k \in 1 .. Len(r) : Append(r, e)[k] = r[k]
      /\ Append(r, e)[Len(r) + 1] = e
  BY <1>2, AppendProperties
<1>5. DOMAIN Append(r, e) = 1 .. Len(r) + 1 /\ Len(r) \in Nat
  BY <1>2, <1>4, LenProperties
<1> QED
  BY <1>2, <1>3, <1>4, <1>5

LEMMA AppendKeeps ==
    ASSUME NEW S, NEW q \in Seq(S), NEW e \in S
    PROVE  /\ Append(q, e) \in Seq(S) /\ Len(Append(q, e)) = Len(q) + 1
           /\ Len(q) \in Nat /\ DOMAIN q = 1 .. Len(q)
           /\ DOMAIN Append(q, e) = 1 .. Len(q) + 1
           /\ \A k \in 1 .. Len(q) : Append(q, e)[k] = q[k]
           /\ Append(q, e)[Len(q) + 1] = e
BY AppendProperties, LenProperties

LEMMA TailKeeps ==
    ASSUME NEW S, NEW q \in Seq(S), q # << >>
    PROVE  /\ Tail(q) \in Seq(S) /\ Len(q) \in Nat \ {0}
           /\ DOMAIN q = 1 .. Len(q) /\ DOMAIN Tail(q) = 1 .. Len(q) - 1
           /\ Head(q) = q[1] /\ Head(q) \in S
           /\ \A k \in 1 .. Len(q) - 1 : Tail(q)[k] = q[k + 1]
BY HeadTailProperties, LenProperties, EmptySeq

-----------------------------------------------------------------------------
(* The way of a message.                                                   *)

LEMMA MessageSent ==
    ASSUME TypeOK, InboxInv, ReplyInv,
           NEW kind, NEW s \in SessionIds, NEW a, NEW n,
           Send(kind, s, a, n),
           [kind |-> kind, session |-> s, agent |-> a, n |-> n] \in Message,
           \A t \in SessionIds : sent'[t] >= sent[t] /\ sent'[t] \in Nat,
           \A t \in SessionIds : reader'[t] \in {"new", "greets"} => sent'[t] = 0,
           UNCHANGED reply,
           kind \in Lines => n = sent[s] + 1 /\ sent'[s] = n,
           kind \in {"connected", "hello"} => sent[s] = 0,
           kind = "hello" => a \in Clients
    PROVE  inbox' \in Seq(Message) /\ InboxInv' /\ ReplyInv'
<1> DEFINE m == [kind |-> kind, session |-> s, agent |-> a, n |-> n]
           last == Len(inbox) + 1
<1>1. /\ inbox \in Seq(Message) /\ inbox' = Append(inbox, m)
      /\ \A t \in SessionIds : sent[t] \in 0 .. MaxRequests
      /\ MaxRequests \in Nat
  BY SessionsAssumption DEF TypeOK, Send
<1>2. /\ inbox' \in Seq(Message) /\ Len(inbox) \in Nat
      /\ DOMAIN inbox = 1 .. Len(inbox) /\ DOMAIN inbox' = 1 .. last
      /\ \A k \in 1 .. Len(inbox) : inbox'[k] = inbox[k]
      /\ inbox'[last] = m
  BY <1>1, AppendKeeps
<1>3. \A k \in DOMAIN inbox : inbox[k] \in Message
  BY <1>1, <1>2, ElementOfSeq
<1>4. \A k \in DOMAIN inbox : inbox[k].session \in SessionIds
  BY <1>3 DEF Message
<1>5. From(m) = IF kind \in Lines THEN n ELSE IF kind = "closed" THEN MaxRequests + 1 ELSE 1
  BY DEF From
<1>6. \A k \in DOMAIN inbox : inbox[k].kind \in Lines =>
          /\ inbox[k].n \in 1 .. sent[inbox[k].session]
          /\ inbox[k].n <= sent[inbox[k].session]
  BY <1>1, <1>4 DEF InboxInv
<1>7. kind \in Lines \cup {"connected", "hello", "closed"}
  BY DEF Message
<1> HIDE DEF m, last
<1>8. m.kind = kind /\ m.session = s /\ m.n = n /\ m.agent = a
  BY DEF m
<1>9. InboxInv'
  <2>1. \A k \in DOMAIN inbox' :
          inbox'[k].kind \in Lines => inbox'[k].n \in 1 .. sent'[inbox'[k].session]
    BY <1>1, <1>2, <1>4, <1>6, <1>8 DEF last
  <2>2. ASSUME NEW j \in DOMAIN inbox', NEW k \in DOMAIN inbox', j < k,
               inbox'[j].session = inbox'[k].session, inbox'[j].kind \in Lines
        PROVE  inbox'[j].n < From(inbox'[k])
    <3>1. j \in DOMAIN inbox /\ inbox'[j] = inbox[j]
      BY <1>2, <2>2 DEF last
    <3>2. CASE k \in DOMAIN inbox
      BY <1>2, <2>2, <3>1, <3>2 DEF InboxInv
    <3>3. CASE k = last
      BY <1>1, <1>2, <1>4, <1>5, <1>6, <1>7, <1>8, <2>2, <3>1, <3>3
    <3> QED
      BY <1>2, <3>2, <3>3 DEF last
  <2>3. \A k \in DOMAIN inbox' : inbox'[k].kind = "hello" => inbox'[k].agent \in Clients
    BY <1>2, <1>8 DEF InboxInv, last
  <2> QED
    BY <2>1, <2>2, <2>3 DEF InboxInv
<1>10. ReplyInv'
  <2>1. \A t \in SessionIds, j \in Requests : j > sent'[t] => reply'[t][j] = "none"
    BY <1>1 DEF ReplyInv, Requests
  <2>2. ASSUME NEW k \in DOMAIN inbox', NEW j \in Requests, j >= From(inbox'[k])
        PROVE  reply'[inbox'[k].session][j] = "none"
    <3>1. CASE k \in DOMAIN inbox
      BY <1>2, <2>2, <3>1 DEF ReplyInv
    <3>2. CASE k = last
      <4>1. j > sent[s]
        BY <1>1, <1>2, <1>5, <1>7, <2>2, <3>2 DEF Requests
      <4> QED
        BY <1>2, <1>8, <3>2, <4>1 DEF ReplyInv
    <3> QED
      BY <1>2, <3>1, <3>2 DEF last
  <2> QED
    BY <2>1, <2>2 DEF ReplyInv
<1> QED
  BY <1>2, <1>9, <1>10

(* A message that is taken out; only its own request may be answered.      *)
LEMMA MessageReceived ==
    ASSUME TypeOK, InboxInv, ReplyInv, inbox # << >>, inbox' = Tail(inbox),
           UNCHANGED <<reader, sent>>,
           \A s \in SessionIds, n \in Requests :
              reply'[s][n] # reply[s][n] =>
                 /\ Head(inbox).kind \in Lines
                 /\ s = Head(inbox).session /\ n = Head(inbox).n
    PROVE  inbox' \in Seq(Message) /\ InboxInv' /\ ReplyInv'
<1>1. inbox \in Seq(Message)
  BY DEF TypeOK
<1>2. /\ inbox' \in Seq(Message) /\ Len(inbox) \in Nat \ {0}
      /\ DOMAIN inbox = 1 .. Len(inbox) /\ DOMAIN inbox' = 1 .. Len(inbox) - 1
      /\ \A k \in 1 .. Len(inbox) - 1 : inbox'[k] = inbox[k + 1]
      /\ Head(inbox) = inbox[1]
  BY <1>1, TailKeeps
<1>3. \A k \in DOMAIN inbox' : k + 1 \in DOMAIN inbox /\ inbox'[k] = inbox[k + 1]
  BY <1>2
<1>4. \A k \in DOMAIN inbox : inbox[k] \in Message
  BY <1>1, <1>2, ElementOfSeq
<1>5. InboxInv'
  <2>1. \A j, k \in DOMAIN inbox' : j < k => j + 1 < k + 1
    BY <1>2
  <2> QED
    BY <1>3, <2>1 DEF InboxInv
<1>6. ReplyInv'
  <2>1. ASSUME NEW s \in SessionIds, NEW n \in Requests, n > sent'[s]
        PROVE  reply'[s][n] = "none"
    <3>1. reply[s][n] = "none" /\ n > sent[s]
      BY <2>1 DEF ReplyInv
    <3>2. ~(inbox[1].kind \in Lines /\ inbox[1].session = s /\ inbox[1].n = n)
      <4>1. sent[s] \in Nat /\ n \in Nat
        BY SessionsAssumption DEF TypeOK, Requests
      <4> QED
        BY <1>2, <3>1, <4>1 DEF InboxInv
    <3> QED
      BY <1>2, <3>1, <3>2
  <2>2. ASSUME NEW k \in DOMAIN inbox', NEW n \in Requests, n >= From(inbox'[k])
        PROVE  reply'[inbox'[k].session][n] = "none"
    <3>1. inbox'[k] = inbox[k + 1] /\ k + 1 \in DOMAIN inbox /\ 1 \in DOMAIN inbox /\ 1 < k + 1
      BY <1>2
    <3>2. reply[inbox'[k].session][n] = "none" /\ inbox'[k].session \in SessionIds
      BY <1>4, <2>2, <3>1 DEF ReplyInv, Message
    <3>3. ~(/\ inbox[1].kind \in Lines /\ inbox[1].session = inbox'[k].session
            /\ inbox[1].n = n)
      <4>1. SUFFICES ASSUME inbox[1].kind \in Lines, inbox[1].session = inbox'[k].session,
                            inbox[1].n = n
                     PROVE  FALSE
        OBVIOUS
      <4>2. n < From(inbox'[k])
        BY <3>1, <4>1 DEF InboxInv
      <4>3. From(inbox'[k]) \in Int /\ n \in Int
        BY <1>4, <3>1, SessionsAssumption DEF From, Message, Requests
      <4> QED
        BY <2>2, <4>2, <4>3
    <3> QED
      BY <1>2, <3>2, <3>3
  <2> QED
    BY <2>1, <2>2 DEF ReplyInv
<1> QED
  BY <1>2, <1>5, <1>6

-----------------------------------------------------------------------------
(* The steps.                                                              *)

Constants ==
    /\ SessionIds \subseteq Nat /\ Clients \subseteq Agents /\ Hosts \subseteq Agents
    /\ Nobody \notin Agents /\ MaxRequests \in Nat /\ Debounce \in Nat \ {0}
    /\ PollTime \in Nat \ {0} /\ QueueCap \in Nat \ {0} /\ MaxTaskEvents \in Nat

LEMMA ConstantsHold == Constants
BY SessionsAssumption, AgentsDistinct, QueueCapPositive DEF Constants

LEMMA ComputeType ==
    ASSUME NEW active
    PROVE  Compute(active) \in Partitions
BY DEF Compute, Partitions, FirstHalf, SecondHalf, Agents, Keys

LEMMA InitInv == Init => Inv
<1> SUFFICES ASSUME Init
             PROVE  Inv
  OBVIOUS
<1> USE ConstantsHold DEF Constants
<1>1. TypeOK
  <2>1. << >> \in Seq(Message) /\ << >> \in Seq(Events) /\ Len(<< >>) = 0
        /\ << >> \in Seq({Layout} \cup TaskEvents) /\ << >> \in Seq(TaskTargets)
    BY EmptySeq
  <2>2. partition \in Partitions
    BY ComputeType DEF Init
  <2>3. reader \in [SessionIds -> {"new", "greets", "reads", "gone"}]
        /\ sent \in [SessionIds -> 0 .. MaxRequests]
        /\ session \in [SessionIds -> [known : BOOLEAN, agent : Clients \cup {Nobody},
                                       events : Seq({Layout} \cup TaskEvents)]]
        /\ poll \in [SessionIds -> Polls \cup {NoPoll}]
    BY <2>1 DEF Init, NoSession
  <2>4. queue \in [Agents -> Seq(Events)] /\ \A a \in Agents : Len(queue[a]) <= QueueCap
    BY <2>1 DEF Init
  <2>5. reply \in [SessionIds -> [Requests -> Replies]]
        /\ held \in [Controls -> Agents \cup {Up, Hid, Dropped}]
        /\ live \in SUBSET Clients /\ hosts \in SUBSET Hosts
        /\ owners \in SUBSET Agents /\ due \in NotDue .. Debounce
    BY DEF Init, Replies, NotDue
  <2> QED
    BY <2>1, <2>2, <2>3, <2>4, <2>5 DEF Init, TypeOK
<1>2. DOMAIN inbox = {}
  BY DEF Init
<1>3. InboxInv /\ ReplyInv
  BY <1>2 DEF Init, InboxInv, ReplyInv
<1>4. TableInv
  <2>1. \A s \in SessionIds : /\ session[s].agent = Nobody /\ poll[s] = NoPoll
                              /\ \A n \in Requests : reply[s][n] = "none"
    BY DEF Init, NoSession
  <2>2. Known \subseteq SessionIds
    BY DEF Known
  <2> QED
    BY <2>1, <2>2 DEF TableInv, PollsAreOwed, AnsweredOnce
<1> QED
  BY <1>1, <1>3, <1>4 DEF Inv

LEMMA ReadersKeepInv == Inv /\ Readers => Inv'
<1> SUFFICES ASSUME Inv, Readers
             PROVE  Inv'
  OBVIOUS
<1> USE ConstantsHold DEF Constants
<1>1. /\ TypeOK /\ InboxInv /\ ReplyInv /\ TableInv
      /\ reader \in [SessionIds -> {"new", "greets", "reads", "gone"}]
      /\ sent \in [SessionIds -> 0 .. MaxRequests]
  BY DEF Inv, TypeOK
<1>2. UNCHANGED <<table, queue, split, step, seen>>
  BY DEF Readers, Connect, Greet, Read, End
<1>3. TableInv'
  BY <1>1, <1>2 DEF TableInv, PollsAreOwed, AnsweredOnce, Known, table, seen
<1>4. ASSUME inbox' \in Seq(Message) /\ InboxInv' /\ ReplyInv',
             reader' \in [SessionIds -> {"new", "greets", "reads", "gone"}],
             sent' \in [SessionIds -> 0 .. MaxRequests]
      PROVE  Inv'
  <2>1. TypeOK'
    BY <1>1, <1>2, <1>4 DEF TypeOK, table, split, seen
  <2> QED
    BY <1>3, <1>4, <2>1 DEF Inv
<1>5. ASSUME NEW s \in SessionIds, Connect(s)
      PROVE  Inv'
  <2>1. [kind |-> "connected", session |-> s, agent |-> Nobody, n |-> 0] \in Message
    BY DEF Message
  <2>2. /\ Send("connected", s, Nobody, 0) /\ sent' = sent /\ sent[s] = 0
        /\ reader' = [reader EXCEPT ![s] = "greets"] /\ UNCHANGED reply
    BY <1>1, <1>5 DEF Connect, InboxInv, seen
  <2>3. \A t \in SessionIds : reader'[t] \in {"new", "greets"} => sent'[t] = 0
    BY <1>1, <2>2 DEF InboxInv
  <2>4. "connected" \notin Lines
    BY DEF Lines
  <2>5. inbox' \in Seq(Message) /\ InboxInv' /\ ReplyInv'
    BY <1>1, <2>1, <2>2, <2>3, <2>4, MessageSent
  <2> QED
    BY <1>1, <1>4, <2>2, <2>5
<1>6. ASSUME NEW s \in SessionIds, Greet(s)
      PROVE  Inv'
  <2>1. /\ sent' = sent /\ sent[s] = 0
        /\ reader' = [reader EXCEPT ![s] = "reads"] /\ UNCHANGED reply
    BY <1>1, <1>6 DEF Greet, InboxInv, seen
  <2>2. \A t \in SessionIds : reader'[t] \in {"new", "greets"} => sent'[t] = 0
    BY <1>1, <2>1 DEF InboxInv
  <2>3. CASE UNCHANGED inbox
    <3>1. InboxInv' /\ ReplyInv' /\ inbox' \in Seq(Message)
      BY <1>1, <2>1, <2>2, <2>3 DEF InboxInv, ReplyInv, TypeOK
    <3> QED
      BY <1>1, <1>4, <2>1, <3>1
  <2>4. ASSUME NEW a \in Clients, Send("hello", s, a, 0)
        PROVE  Inv'
    <3>1. [kind |-> "hello", session |-> s, agent |-> a, n |-> 0] \in Message
      BY DEF Message
    <3>2. "hello" \notin Lines
      BY DEF Lines
    <3>3. inbox' \in Seq(Message) /\ InboxInv' /\ ReplyInv'
      BY <1>1, <2>1, <2>2, <2>4, <3>1, <3>2, MessageSent
    <3> QED
      BY <1>1, <1>4, <2>1, <3>3
  <2> QED
    BY <1>6, <2>3, <2>4 DEF Greet
<1>7. ASSUME NEW s \in SessionIds, NEW line \in Lines, Read(s, line)
      PROVE  Inv'
  <2>1. /\ sent' = [sent EXCEPT ![s] = @ + 1] /\ sent[s] < MaxRequests
        /\ sent[s] \in 0 .. MaxRequests /\ UNCHANGED <<reader, reply>>
        /\ reader[s] = "reads" /\ Send(line, s, Nobody, sent[s] + 1)
    BY <1>1, <1>7 DEF Read, seen
  <2>2. [kind |-> line, session |-> s, agent |-> Nobody, n |-> sent[s] + 1] \in Message
    BY <2>1 DEF Message, Requests
  <2>3. /\ \A t \in SessionIds : reader'[t] \in {"new", "greets"} => sent'[t] = 0
        /\ \A t \in SessionIds : sent'[t] >= sent[t] /\ sent'[t] \in Nat
        /\ sent' \in [SessionIds -> 0 .. MaxRequests] /\ sent'[s] = sent[s] + 1
    BY <1>1, <2>1 DEF InboxInv
  <2>4. line \notin {"connected", "hello"}
    BY DEF Lines
  <2>5. inbox' \in Seq(Message) /\ InboxInv' /\ ReplyInv'
    BY <1>1, <2>1, <2>2, <2>3, <2>4, MessageSent
  <2> QED
    BY <1>1, <1>4, <2>1, <2>3, <2>5
<1>8. ASSUME NEW s \in SessionIds, End(s)
      PROVE  Inv'
  <2>1. [kind |-> "closed", session |-> s, agent |-> Nobody, n |-> 0] \in Message
    BY DEF Message
  <2>2. /\ Send("closed", s, Nobody, 0) /\ sent' = sent
        /\ reader' = [reader EXCEPT ![s] = "gone"] /\ UNCHANGED reply
    BY <1>1, <1>8 DEF End, seen
  <2>3. \A t \in SessionIds : reader'[t] \in {"new", "greets"} => sent'[t] = 0
    BY <1>1, <2>2 DEF InboxInv
  <2>4. "closed" \notin Lines
    BY DEF Lines
  <2>5. inbox' \in Seq(Message) /\ InboxInv' /\ ReplyInv'
    BY <1>1, <2>1, <2>2, <2>3, <2>4, MessageSent
  <2> QED
    BY <1>1, <1>4, <2>2, <2>5
<1> QED
  BY <1>5, <1>6, <1>7, <1>8 DEF Readers

TableEntries ==
    [known : BOOLEAN, agent : Clients \cup {Nobody},
     events : Seq({Layout} \cup TaskEvents)]

(* An entry of the table of which only the events change.                  *)
LEMMA EventsSet ==
    ASSUME NEW s \in SessionIds, NEW e \in Seq({Layout} \cup TaskEvents),
           session \in [SessionIds -> TableEntries],
           session' = [session EXCEPT ![s].events = e]
    PROVE  /\ session' \in [SessionIds -> TableEntries]
           /\ \A t \in SessionIds : /\ session'[t].known = session[t].known
                                    /\ session'[t].agent = session[t].agent
           /\ \A t \in SessionIds : t # s => session'[t] = session[t]
           /\ session'[s].events = e
<1> DEFINE entry == [session[s] EXCEPT !.events = e]
<1>1. /\ entry \in TableEntries /\ entry.agent = session[s].agent
      /\ entry.known = session[s].known /\ entry.events = e
  BY Zenon DEF TableEntries
<1>2. session' = [session EXCEPT ![s] = entry]
  OBVIOUS
<1> HIDE DEF entry
<1> QED
  BY <1>1, <1>2

(* The answer to a request nobody has answered leaves the polls that wait  *)
(* as they are.                                                            *)
LEMMA AnswerKeeps ==
    ASSUME TypeOK, TableInv, NEW m \in Message, m.n \in Requests,
           reply[m.session][m.n] = "none", Answer(m), UNCHANGED poll,
           \A t \in SessionIds : /\ session'[t].known = session[t].known
                                 /\ session'[t].agent = session[t].agent
    PROVE  /\ TableInv' /\ reply' \in [SessionIds -> [Requests -> Replies]]
           /\ \A s \in SessionIds, n \in Requests :
                 reply'[s][n] # reply[s][n] => s = m.session /\ n = m.n
<1> DEFINE s == m.session
<1>1. /\ s \in SessionIds /\ Known' = Known
      /\ reply \in [SessionIds -> [Requests -> Replies]]
      /\ session \in [SessionIds -> TableEntries]
  BY DEF Message, Known, TypeOK, TableEntries
<1>2. reply' = reply \/ reply' = [reply EXCEPT ![s][m.n] = "answered"]
  BY <1>1 DEF Answer, Answered
<1>3. /\ reply' \in [SessionIds -> [Requests -> Replies]]
      /\ \A t \in SessionIds, n \in Requests :
            IF t = s /\ n = m.n
            THEN reply'[t][n] \in {"none", "answered"} /\ reply[t][n] = "none"
            ELSE reply'[t][n] = reply[t][n]
  <2> DEFINE q == m.n
  <2>1. reply[s][q] = "none" /\ q \in Requests
    OBVIOUS
  <2>2. reply' = reply \/ reply' = [reply EXCEPT ![s][q] = "answered"]
    BY <1>2
  <2> SUFFICES /\ reply' \in [SessionIds -> [Requests -> Replies]]
               /\ \A t \in SessionIds, n \in Requests :
                     IF t = s /\ n = q
                     THEN reply'[t][n] \in {"none", "answered"} /\ reply[t][n] = "none"
                     ELSE reply'[t][n] = reply[t][n]
    OBVIOUS
  <2> HIDE DEF q, s
  <2>3. CASE reply' = reply
    BY <1>1, <2>1, <2>3
  <2>4. CASE reply' = [reply EXCEPT ![s][q] = "answered"]
    BY <1>1, <2>1, <2>4 DEF Replies
  <2> QED
    BY <2>2, <2>3, <2>4
<1> HIDE DEF s
<1>4. AnsweredOnce'
  BY <1>3 DEF TableInv, AnsweredOnce
<1>5. ASSUME NEW t \in SessionIds, poll[t] # NoPoll
      PROVE  t \in Known /\ session'[t].agent = poll[t].agent /\ reply'[t][poll[t].n] = "owed"
  <2>1. t \in Known /\ session[t].agent = poll[t].agent /\ reply[t][poll[t].n] = "owed"
    BY <1>5 DEF TableInv, PollsAreOwed
  <2>2. poll[t].n \in Requests
    BY <1>5 DEF TypeOK, Polls
  <2> QED
    BY <1>3, <2>1, <2>2
<1>6. ASSUME NEW t \in Known, NEW n \in Requests, reply'[t][n] = "owed"
      PROVE  \/ poll[t].n = n
             \/ \E j \in Requests : j > n /\ reply'[t][j] \in {"owed", "given"}
  <2>1. t \in SessionIds /\ reply[t][n] = "owed"
    BY <1>3, <1>6 DEF Known
  <2>2. CASE poll[t].n = n
    BY <2>2
  <2>3. ASSUME NEW j \in Requests, j > n, reply[t][j] \in {"owed", "given"}
        PROVE  reply'[t][j] \in {"owed", "given"}
    BY <1>3, <2>1, <2>3
  <2> QED
    BY <2>1, <2>2, <2>3 DEF TableInv, PollsAreOwed
<1>7. PollsAreOwed'
  BY <1>1, <1>5, <1>6 DEF PollsAreOwed
<1> QED
  BY <1>3, <1>4, <1>7 DEF TableInv, s

LEMMA MessagesKeepInv == Inv /\ Messages => Inv'
<1> SUFFICES ASSUME Inv, Messages
             PROVE  Inv'
  OBVIOUS
<1> USE ConstantsHold DEF Constants
<1> DEFINE m == Head(inbox)
           s == m.session
<1>1. /\ TypeOK /\ InboxInv /\ ReplyInv /\ TableInv
      /\ inbox \in Seq(Message) /\ inbox # << >> /\ Handle(m)
      /\ session \in [SessionIds -> TableEntries]
      /\ poll \in [SessionIds -> Polls \cup {NoPoll}]
      /\ queue \in [Agents -> Seq(Events)] /\ \A a \in Agents : Len(queue[a]) <= QueueCap
      /\ live \in SUBSET Clients /\ due \in NotDue .. Debounce
      /\ reply \in [SessionIds -> [Requests -> Replies]]
      /\ sent \in [SessionIds -> 0 .. MaxRequests]
  BY DEF Inv, TypeOK, Messages, TableEntries
<1>2. /\ inbox' = Tail(inbox) /\ m.kind \in {"connected", "hello", "closed"} \cup Lines
      /\ UNCHANGED <<reader, sent, hosts, partition, owners, step, held, task>>
  BY <1>1 DEF Handle, Register, Identify, Remove, Reject, Call, Publish, PollNow,
     PollLater, Receive, link, split, seen, Lines
<1>3. m \in Message /\ m = inbox[1] /\ 1 \in DOMAIN inbox
  BY <1>1, TailKeeps
<1> HIDE DEF m
<1>4. /\ s \in SessionIds /\ m.agent \in Clients \cup {Nobody}
      /\ m.kind \in Lines => m.n \in Requests /\ reply[s][m.n] = "none"
      /\ \A n \in Requests : n >= From(m) => reply[s][n] = "none"
  <2>1. m.session \in SessionIds /\ m.n \in {0} \cup Requests
    BY <1>3 DEF Message
  <2>2. m.kind \in Lines => m.n \in 1 .. sent[m.session]
    BY <1>1, <1>3 DEF InboxInv
  <2>3. \A n \in Requests : n >= From(m) => reply[s][n] = "none"
    BY <1>1, <1>3 DEF ReplyInv
  <2> QED
    BY <1>1, <1>3, <2>1, <2>2, <2>3 DEF Message, From, Requests
<1>5. ASSUME session' \in [SessionIds -> TableEntries],
             poll' \in [SessionIds -> Polls \cup {NoPoll}],
             queue' \in [Agents -> Seq(Events)], \A a \in Agents : Len(queue'[a]) <= QueueCap,
             live' \in SUBSET Clients, due' \in NotDue .. Debounce,
             reply' \in [SessionIds -> [Requests -> Replies]],
             TableInv',
             \A t \in SessionIds, n \in Requests :
                reply'[t][n] # reply[t][n] => m.kind \in Lines /\ t = s /\ n = m.n
      PROVE  Inv'
  <2>1. inbox' \in Seq(Message) /\ InboxInv' /\ ReplyInv'
    BY <1>1, <1>2, <1>5, MessageReceived DEF m
  <2>2. TypeOK'
    BY <1>1, <1>2, <1>5, <2>1 DEF TypeOK, TableEntries
  <2> QED
    BY <1>5, <2>1, <2>2 DEF Inv
<1> HIDE DEF s
<1>6. CASE Register(m)
  <2>1. /\ m.kind = "connected" /\ session' = [session EXCEPT ![s].known = TRUE]
        /\ UNCHANGED <<poll, live, queue, due, reply>>
    BY <1>6 DEF Register, Receive, split, seen, s
  <2>2. /\ session' \in [SessionIds -> TableEntries]
        /\ \A t \in SessionIds : /\ session'[t].agent = session[t].agent
                                 /\ session[t].known => session'[t].known
                                 /\ t # s => session'[t] = session[t]
    <3> DEFINE e == [session[s] EXCEPT !.known = TRUE]
    <3>1. e \in TableEntries /\ e.agent = session[s].agent /\ e.known
      BY <1>1, <1>4, Zenon DEF TableEntries
    <3>2. session' = [session EXCEPT ![s] = e]
      BY <2>1
    <3> HIDE DEF e
    <3> QED
      BY <1>1, <1>4, <3>1, <3>2
  <2>3. \A n \in Requests : reply[s][n] = "none"
    BY <1>4, <2>1 DEF From, Lines, Requests
  <2>4. TableInv'
    <3>1. \A t \in SessionIds : poll[t] # NoPoll => t \in Known'
      BY <1>1, <2>2 DEF TableInv, PollsAreOwed, Known
    <3>2. \A t \in Known' : t = s \/ t \in Known
      BY <2>2 DEF Known
    <3>3. PollsAreOwed'
      BY <1>1, <2>1, <2>2, <2>3, <3>1, <3>2 DEF TableInv, PollsAreOwed
    <3> QED
      BY <1>1, <2>1, <2>2, <3>3 DEF TableInv, AnsweredOnce, TableEntries
  <2> QED
    BY <1>1, <1>5, <2>1, <2>2, <2>4
<1>7. CASE Identify(m)
  <2>1. /\ m.kind = "hello" /\ live' = live \cup {m.agent} /\ due' = Debounce
        /\ session' = IF session[s].known THEN [session EXCEPT ![s].agent = m.agent]
                      ELSE session
        /\ UNCHANGED <<poll, queue, reply>>
    BY <1>7 DEF Identify, Receive, seen, s
  <2>2. /\ session' \in [SessionIds -> TableEntries]
        /\ \A t \in SessionIds : /\ session'[t].known = session[t].known
                                 /\ t # s => session'[t] = session[t]
        /\ ~session[s].known => session'[s] = session[s]
    BY <1>1, <1>4, <2>1 DEF TableEntries
  <2>3. \A n \in Requests : reply[s][n] = "none"
    BY <1>4, <2>1 DEF From, Lines, Requests
  <2>4. poll[s] = NoPoll
    <3> SUFFICES ASSUME poll[s] # NoPoll PROVE FALSE
      OBVIOUS
    <3>1. poll[s] \in Polls
      BY <1>1, <1>4
    <3>2. poll[s].n \in Requests
      BY <3>1 DEF Polls
    <3>3. reply[s][poll[s].n] = "owed"
      BY <1>1, <1>4 DEF TableInv, PollsAreOwed
    <3> QED
      BY <2>3, <3>2, <3>3
  <2>5. TableInv'
    <3>1. Known' = Known
      BY <2>2 DEF Known
    <3>2. PollsAreOwed'
      BY <1>1, <2>1, <2>2, <2>4, <3>1 DEF TableInv, PollsAreOwed
    <3> QED
      BY <1>1, <2>1, <2>2, <3>2 DEF TableInv, AnsweredOnce
  <2>6. live' \in SUBSET Clients
    <3>1. m.agent \in Clients
      BY <1>1, <1>3, <2>1 DEF InboxInv
    <3> QED
      BY <1>1, <2>1, <3>1
  <2> QED
    BY <1>1, <1>5, <2>1, <2>2, <2>5, <2>6 DEF NotDue
<1>8. CASE Remove(m)
  <2>1. /\ session' = [session EXCEPT ![s] = NoSession] /\ poll' = [poll EXCEPT ![s] = NoPoll]
        /\ live' \in SUBSET Clients /\ due' \in {due, Debounce}
        /\ UNCHANGED <<queue, reply>>
    BY <1>1, <1>8 DEF Remove, Receive, seen, s
  <2>2. NoSession \in TableEntries /\ NoSession.agent = Nobody
    BY EmptySeq DEF NoSession, TableEntries
  <2>3. /\ session' \in [SessionIds -> TableEntries]
        /\ poll' \in [SessionIds -> Polls \cup {NoPoll}]
        /\ \A t \in SessionIds : t # s => session'[t] = session[t] /\ poll'[t] = poll[t]
        /\ session'[s] = NoSession /\ poll'[s] = NoPoll
    BY <1>1, <1>4, <2>1, <2>2
  <2>4. TableInv'
    <3>1. Known' = Known \ {s}
      <4>1. ~session'[s].known
        BY <2>3 DEF NoSession
      <4> QED
        BY <1>4, <2>3, <4>1 DEF Known
    <3>2. PollsAreOwed'
      BY <1>1, <2>1, <2>3, <3>1 DEF TableInv, PollsAreOwed
    <3> QED
      BY <1>1, <2>1, <2>2, <2>3, <3>2 DEF TableInv, AnsweredOnce
  <2>5. due' \in NotDue .. Debounce
    BY <1>1, <2>1 DEF NotDue
  <2> QED
    BY <1>1, <1>5, <2>1, <2>3, <2>4, <2>5
<1>9. CASE Reject(m) \/ Call(m)
  <2>1. /\ m.kind \in Lines /\ Answer(m)
        /\ UNCHANGED <<session, poll, live, queue, due>>
    BY <1>9 DEF Reject, Call, Receive, table, split, Lines
  <2>2. /\ TableInv' /\ reply' \in [SessionIds -> [Requests -> Replies]]
        /\ \A t \in SessionIds, n \in Requests :
              reply'[t][n] # reply[t][n] => t = s /\ n = m.n
    BY <1>1, <1>3, <1>4, <2>1, AnswerKeeps DEF s
  <2> QED
    BY <1>1, <1>5, <2>1, <2>2
<1>10. CASE Publish(m)
  <2>1. /\ m.kind \in Lines /\ Answer(m)
        /\ session' = [session EXCEPT ![s].events = Push(@, Layout)]
        /\ UNCHANGED <<poll, live, queue, due>>
    BY <1>10 DEF Publish, Receive, split, Lines, s
  <2>2. Push(session[s].events, Layout) \in Seq({Layout} \cup TaskEvents)
    BY <1>1, <1>4, PushProperties DEF TableEntries
  <2>3. /\ session' \in [SessionIds -> TableEntries]
        /\ \A t \in SessionIds : /\ session'[t].known = session[t].known
                                 /\ session'[t].agent = session[t].agent
    BY <1>1, <1>4, <2>1, <2>2, EventsSet
  <2>4. /\ TableInv' /\ reply' \in [SessionIds -> [Requests -> Replies]]
        /\ \A t \in SessionIds, n \in Requests :
              reply'[t][n] # reply[t][n] => t = s /\ n = m.n
    BY <1>1, <1>3, <1>4, <2>1, <2>3, AnswerKeeps DEF s
  <2> QED
    BY <1>1, <1>5, <2>1, <2>3, <2>4
<1>11. CASE PollNow(m)
  <2>1. /\ m.kind \in Lines /\ Answer(m) /\ session[s].agent # Nobody
        /\ session' = [session EXCEPT ![s].events = << >>]
        /\ queue' = [queue EXCEPT ![session[s].agent] = << >>]
        /\ UNCHANGED <<poll, live, due>>
    BY <1>11 DEF PollNow, Receive, split, Lines, s
  <2>2. << >> \in Seq({Layout} \cup TaskEvents) /\ << >> \in Seq(Events) /\ Len(<< >>) = 0
    BY EmptySeq
  <2>3. /\ session' \in [SessionIds -> TableEntries]
        /\ \A t \in SessionIds : /\ session'[t].known = session[t].known
                                 /\ session'[t].agent = session[t].agent
    BY <1>1, <1>4, <2>1, <2>2, EventsSet
  <2>4. queue' \in [Agents -> Seq(Events)] /\ \A a \in Agents : Len(queue'[a]) <= QueueCap
    <3> DEFINE b == session[s].agent
    <3>1. queue' = [queue EXCEPT ![b] = << >>]
      BY <2>1
    <3> HIDE DEF b
    <3>2. \A a \in Agents : queue'[a] = queue[a] \/ queue'[a] = << >>
      BY <1>1, <3>1
    <3>3. queue' \in [Agents -> Seq(Events)]
      BY <1>1, <2>2, <3>1
    <3>4. ASSUME NEW a \in Agents
          PROVE  Len(queue'[a]) <= QueueCap
      BY <1>1, <2>2, <3>2
    <3> QED
      BY <3>3, <3>4
  <2>5. /\ TableInv' /\ reply' \in [SessionIds -> [Requests -> Replies]]
        /\ \A t \in SessionIds, n \in Requests :
              reply'[t][n] # reply[t][n] => t = s /\ n = m.n
    BY <1>1, <1>3, <1>4, <2>1, <2>3, AnswerKeeps DEF s
  <2> QED
    BY <1>1, <1>5, <2>1, <2>3, <2>4, <2>5
<1>12. CASE PollLater(m)
  <2> DEFINE p == [n |-> m.n, left |-> PollTime, agent |-> session[s].agent]
  <2>1. /\ m.kind = "wait" /\ session[s].agent # Nobody
        /\ poll' = [poll EXCEPT ![s] = p]
        /\ reply' = [reply EXCEPT ![s][m.n] = "owed"]
        /\ UNCHANGED <<session, live, queue, due>>
    BY <1>12 DEF PollLater, Receive, split, s
  <2>2. m.kind \in Lines /\ m.n \in Requests /\ From(m) = m.n
    BY <1>4, <2>1 DEF Lines, From
  <2>3. /\ session[s].agent \in Clients /\ s \in Known /\ p \in Polls
        /\ p.n = m.n /\ p.agent = session[s].agent
    BY <1>1, <1>4, <2>1, <2>2 DEF TableEntries, TableInv, Known, Polls
  <2> HIDE DEF p
  <2>4. /\ poll' \in [SessionIds -> Polls \cup {NoPoll}]
        /\ poll'[s] = p
        /\ \A t \in SessionIds : t # s => poll'[t] = poll[t]
    BY <1>1, <1>4, <2>1, <2>3
  <2>5. /\ reply' \in [SessionIds -> [Requests -> Replies]]
        /\ \A t \in SessionIds, n \in Requests :
              reply'[t][n] = IF t = s /\ n = m.n THEN "owed" ELSE reply[t][n]
    BY <1>1, <1>4, <2>1, <2>2 DEF Replies
  <2>6. TableInv'
    <3>1. Known' = Known
      BY <2>1 DEF Known
    <3>2. ASSUME NEW t \in SessionIds, poll'[t] # NoPoll
          PROVE  /\ t \in Known' /\ session'[t].agent = poll'[t].agent
                 /\ reply'[t][poll'[t].n] = "owed"
      <4>1. CASE t = s
        BY <2>1, <2>2, <2>3, <2>4, <2>5, <3>1, <4>1
      <4>2. CASE t # s
        <5>1. poll[t].n \in Requests
          BY <1>1, <2>4, <3>2, <4>2 DEF Polls
        <5> QED
          BY <1>1, <2>1, <2>4, <2>5, <3>1, <3>2, <4>2, <5>1 DEF TableInv, PollsAreOwed
      <4> QED
        BY <4>1, <4>2
    <3>3. ASSUME NEW t \in Known', NEW n \in Requests, reply'[t][n] = "owed"
          PROVE  \/ poll'[t].n = n
                 \/ \E j \in Requests : j > n /\ reply'[t][j] \in {"owed", "given"}
      <4>1. t \in SessionIds /\ t \in Known
        BY <3>1, <3>3 DEF Known
      <4>2. CASE t = s
        <5>1. n = m.n \/ (n < m.n /\ reply'[s][m.n] = "owed")
          <6>1. n # m.n => reply[s][n] = "owed"
            BY <1>4, <2>5, <3>3, <4>2
          <6>2. n # m.n => ~(n >= m.n)
            BY <1>4, <2>2, <6>1
          <6> QED
            BY <1>4, <2>2, <2>5, <6>2 DEF Requests
        <5> QED
          BY <2>2, <2>3, <2>4, <4>2, <5>1 DEF Requests
      <4>3. CASE t # s
        <5>1. /\ poll'[t] = poll[t] /\ reply[t][n] = "owed"
              /\ \A j \in Requests : reply'[t][j] = reply[t][j]
          BY <2>4, <2>5, <3>3, <4>1, <4>3
        <5> QED
          BY <1>1, <4>1, <5>1 DEF TableInv, PollsAreOwed
      <4> QED
        BY <4>2, <4>3
    <3>4. PollsAreOwed'
      BY <3>2, <3>3 DEF PollsAreOwed
    <3> QED
      BY <1>1, <2>1, <2>5, <3>4 DEF TableInv, AnsweredOnce
  <2> QED
    BY <1>1, <1>5, <2>1, <2>2, <2>4, <2>5, <2>6
<1> QED
  BY <1>1, <1>6, <1>7, <1>8, <1>9, <1>10, <1>11, <1>12 DEF Handle

(* Steps of the loop that are not about messages.                          *)
LEMMA MessagesKept ==
    ASSUME TypeOK, InboxInv, ReplyInv, UNCHANGED <<reader, sent, inbox>>,
           \A s \in SessionIds, n \in Requests :
              reply[s][n] = "none" => reply'[s][n] = "none"
    PROVE  InboxInv' /\ ReplyInv'
<1>1. \A k \in DOMAIN inbox : inbox[k].session \in SessionIds
  <2>1. inbox \in Seq(Message) /\ DOMAIN inbox = 1 .. Len(inbox)
    BY LenProperties DEF TypeOK
  <2>2. \A k \in DOMAIN inbox : inbox[k] \in Message
    BY <2>1, ElementOfSeq
  <2> QED
    BY <2>2 DEF Message
<1> QED
  BY <1>1 DEF InboxInv, ReplyInv, From

LEMMA TableKept ==
    ASSUME TableInv, UNCHANGED <<poll, reply>>,
           \A s \in SessionIds : /\ session'[s].known = session[s].known
                                 /\ session'[s].agent = session[s].agent
    PROVE  TableInv'
<1>1. Known' = Known
  BY DEF Known
<1> QED
  BY <1>1 DEF TableInv, PollsAreOwed, AnsweredOnce, Known

LEMMA KeyKeepsInv == \A k \in Controls : Inv /\ Key(k) => Inv'
<1> SUFFICES ASSUME NEW k \in Controls, Inv, Key(k)
             PROVE  Inv'
  OBVIOUS
<1> DEFINE to == Destination(k)
           type == IF held[k] = Up THEN "press" ELSE "release"
           e == [type |-> type, key |-> k]
<1>1. /\ TypeOK /\ InboxInv /\ ReplyInv /\ TableInv
      /\ queue \in [Agents -> Seq(Events)] /\ \A a \in Agents : Len(queue[a]) <= QueueCap
      /\ held \in [Controls -> Agents \cup {Up, Hid, Dropped}]
      /\ partition \in Partitions
  BY DEF Inv, TypeOK
<1>2. /\ held' = [held EXCEPT ![k] = IF @ = Up THEN to ELSE Up]
      /\ queue' = IF to \in Agents THEN [queue EXCEPT ![to] = Push(queue[to], e)] ELSE queue
      /\ UNCHANGED <<reader, sent, inbox, session, poll, live, hosts, due, partition,
                     owners, step, reply, task>>
  BY DEF Key, link, table, split
<1>3. e \in Events
  BY DEF Events
<1>4. to \in Agents \cup {Up, Hid, Dropped}
  BY DEF Destination, Agents
<1> HIDE DEF to, e
<1>5. held' \in [Controls -> Agents \cup {Up, Hid, Dropped}]
  BY <1>1, <1>2, <1>4
<1>6. queue' \in [Agents -> Seq(Events)] /\ \A a \in Agents : Len(queue'[a]) <= QueueCap
  <2>1. CASE to \in Agents
    <3>1. Push(queue[to], e) \in Seq(Events) /\ Len(Push(queue[to], e)) <= QueueCap
      BY <1>1, <1>3, <2>1, PushProperties
    <3> QED
      BY <1>1, <1>2, <2>1, <3>1
  <2> QED
    BY <1>1, <1>2, <2>1
<1>7. InboxInv' /\ ReplyInv' /\ TableInv'
  BY <1>1, <1>2, MessagesKept, TableKept
<1>8. TypeOK'
  BY <1>1, <1>2, <1>5, <1>6 DEF TypeOK
<1> QED
  BY <1>7, <1>8 DEF Inv

LEMMA TaskEventKeepsInv == \A to \in TaskTargets : Inv /\ TaskEvent(to) => Inv'
<1> SUFFICES ASSUME NEW to \in TaskTargets, Inv, TaskEvent(to)
             PROVE  Inv'
  OBVIOUS
<1> USE ConstantsHold DEF Constants
<1> DEFINE e == Len(task) + 1
           put(events) == IF to.kind = "catalog" THEN Push(events, e) ELSE Append(events, e)
<1>1. /\ TypeOK /\ InboxInv /\ ReplyInv /\ TableInv /\ task \in Seq(TaskTargets)
      /\ session \in [SessionIds -> TableEntries]
  BY DEF Inv, TypeOK, TableEntries
<1>2. /\ task' = Append(task, to) /\ Len(task) < MaxTaskEvents
      /\ session' = [s \in SessionIds |->
                        IF s \in Targets(to)
                        THEN [session[s] EXCEPT !.events = put(@)] ELSE session[s]]
      /\ UNCHANGED <<reader, sent, inbox, poll, live, queue, hosts, due, partition,
                     owners, step, reply, held>>
  BY DEF TaskEvent, link, split
<1>3. task' \in Seq(TaskTargets) /\ e \in {Layout} \cup TaskEvents
  <2>1. task' \in Seq(TaskTargets) /\ Len(task) \in Nat
    BY <1>1, <1>2, AppendProperties, LenProperties
  <2> QED
    BY <1>2, <2>1 DEF TaskEvents
<1> HIDE DEF e
<1>4. ASSUME NEW s \in SessionIds
      PROVE  /\ session'[s] \in TableEntries
             /\ session'[s].known = session[s].known
             /\ session'[s].agent = session[s].agent
  <2>1. session[s].events \in Seq({Layout} \cup TaskEvents)
    BY <1>1 DEF TableEntries
  <2>2. put(session[s].events) \in Seq({Layout} \cup TaskEvents)
    BY <1>3, <2>1, PushProperties, AppendProperties
  <2>3. session'[s] = session[s]
        \/ session'[s] = [session[s] EXCEPT !.events = put(session[s].events)]
    BY <1>2
  <2> HIDE DEF put
  <2>4. CASE session'[s] = [session[s] EXCEPT !.events = put(session[s].events)]
    BY <1>1, <2>2, <2>4, Zenon DEF TableEntries
  <2> QED
    BY <1>1, <2>3, <2>4
<1>5. session' \in [SessionIds -> TableEntries]
  BY <1>2, <1>4
<1>6. InboxInv' /\ ReplyInv' /\ TableInv'
  BY <1>1, <1>2, <1>4, MessagesKept, TableKept
<1>7. TypeOK'
  BY <1>1, <1>2, <1>3, <1>5 DEF TypeOK, TableEntries
<1> QED
  BY <1>6, <1>7 DEF Inv

LEMMA ProbeKeepsInv == \A H \in SUBSET Hosts : Inv /\ Probe(H) => Inv'
<1> SUFFICES ASSUME NEW H \in SUBSET Hosts, Inv, Probe(H)
             PROVE  Inv'
  OBVIOUS
<1> USE ConstantsHold DEF Constants
<1>1. /\ TypeOK /\ InboxInv /\ ReplyInv /\ TableInv
      /\ queue \in [Agents -> Seq(Events)] /\ \A a \in Agents : Len(queue[a]) <= QueueCap
      /\ live \subseteq Clients /\ hosts \subseteq Hosts
      /\ due \in NotDue .. Debounce /\ partition \in Partitions /\ owners \in SUBSET Agents
  BY DEF Inv, TypeOK
<1>2. /\ UNCHANGED <<reader, sent, inbox, session, poll, live, reply, held, task>>
      /\ hosts' = H /\ step' = "polls"
  BY DEF Probe, link, table, seen
<1>3. /\ queue' \in [Agents -> Seq(Events)] /\ \A a \in Agents : Len(queue'[a]) <= QueueCap
      /\ due' \in NotDue .. Debounce /\ partition' \in Partitions /\ owners' \in SUBSET Agents
  <2>1. CASE H # hosts
    <3>1. due' = Debounce /\ UNCHANGED <<partition, queue, owners>>
      BY <2>1 DEF Probe
    <3> QED
      BY <1>1, <3>1 DEF NotDue
  <2>2. CASE H = hosts /\ due = 0
    <3> DEFINE e == [type |-> "partition", key |-> Nobody]
    <3>1. /\ partition' = Compute(Active) /\ due' = NotDue /\ owners' = Active
          /\ queue' = [a \in Agents |-> IF a \in Active THEN Push(queue[a], e) ELSE queue[a]]
      BY <2>2 DEF Probe, Repartition
    <3>2. e \in Events
      BY DEF Events
    <3> HIDE DEF e
    <3>3. ASSUME NEW a \in Agents
          PROVE  Push(queue[a], e) \in Seq(Events) /\ Len(Push(queue[a], e)) <= QueueCap
      BY <1>1, <3>2, PushProperties
    <3>4. Active \in SUBSET Agents
      BY <1>1 DEF Active
    <3>5. partition' \in Partitions
      BY <3>1, ComputeType
    <3>6. queue' \in [Agents -> Seq(Events)] /\ \A a \in Agents : Len(queue'[a]) <= QueueCap
      BY <1>1, <3>1, <3>3
    <3> QED
      BY <3>1, <3>4, <3>5, <3>6 DEF NotDue
  <2>3. CASE H = hosts /\ due # 0
    <3>1. UNCHANGED <<partition, queue, due, owners>>
      BY <2>3 DEF Probe
    <3> QED
      BY <1>1, <3>1
  <2> QED
    BY <2>1, <2>2, <2>3
<1>4. InboxInv' /\ ReplyInv' /\ TableInv'
  BY <1>1, <1>2, MessagesKept, TableKept
<1>5. TypeOK'
  BY <1>1, <1>2, <1>3 DEF TypeOK
<1> QED
  BY <1>4, <1>5 DEF Inv

LEMMA TickKeepsInv == Inv /\ Tick => Inv'
<1> SUFFICES ASSUME Inv, Tick
             PROVE  Inv'
  OBVIOUS
<1> USE ConstantsHold DEF Constants
<1>1. /\ TypeOK /\ InboxInv /\ ReplyInv /\ TableInv
      /\ due \in NotDue .. Debounce /\ poll \in [SessionIds -> Polls \cup {NoPoll}]
  BY DEF Inv, TypeOK
<1>2. /\ due' = Less(due)
      /\ poll' = [s \in SessionIds |-> [poll[s] EXCEPT !.left = Less(poll[s].left)]]
      /\ UNCHANGED <<reader, sent, inbox, session, live, queue, hosts, partition, owners,
                     step, reply, held, task>>
  BY DEF Tick, link, seen
<1>3. due' \in NotDue .. Debounce
  BY <1>1, <1>2 DEF Less, NotDue
<1>4. ASSUME NEW s \in SessionIds
      PROVE  /\ poll'[s] \in Polls \cup {NoPoll} /\ poll'[s].n = poll[s].n
             /\ poll'[s].agent = poll[s].agent
             /\ poll'[s] # NoPoll <=> poll[s] # NoPoll
  <2>1. poll'[s] = [poll[s] EXCEPT !.left = Less(poll[s].left)]
    BY <1>2
  <2>2. CASE poll[s] = NoPoll
    <3>1. Less(poll[s].left) = 0
      BY <2>2 DEF NoPoll, Less
    <3>2. poll'[s] = NoPoll
      BY <2>1, <2>2, <3>1 DEF NoPoll
    <3> QED
      BY <2>2, <3>2
  <2>3. CASE poll[s] \in Polls
    <3>1. poll[s].left \in 0 .. PollTime /\ poll[s].n \in Requests
      BY <2>3 DEF Polls
    <3>2. Less(poll[s].left) \in 0 .. PollTime
      BY <3>1 DEF Less
    <3>3. /\ poll'[s] \in Polls /\ poll'[s].n = poll[s].n
          /\ poll'[s].agent = poll[s].agent
      BY <2>1, <2>3, <3>2, Zenon DEF Polls
    <3>4. poll[s] # NoPoll /\ poll'[s] # NoPoll
      BY <3>1, <3>3 DEF NoPoll, Requests
    <3> QED
      BY <3>3, <3>4
  <2> QED
    BY <1>1, <2>2, <2>3
<1>5. poll' \in [SessionIds -> Polls \cup {NoPoll}]
  BY <1>2, <1>4
<1>6. TableInv'
  <2>1. Known' = Known /\ Known \subseteq SessionIds
    BY <1>2 DEF Known
  <2>2. PollsAreOwed'
    BY <1>1, <1>2, <1>4, <2>1 DEF TableInv, PollsAreOwed
  <2> QED
    BY <1>1, <1>2, <2>2 DEF TableInv, AnsweredOnce
<1>7. InboxInv' /\ ReplyInv'
  BY <1>1, <1>2, MessagesKept
<1>8. TypeOK'
  BY <1>1, <1>2, <1>3, <1>5 DEF TypeOK
<1> QED
  BY <1>6, <1>7, <1>8 DEF Inv

(* What is answered has been owed.                                         *)
LEMMA ResolveKeepsInv == \A F \in SUBSET SessionIds : Inv /\ Resolve(F) => Inv'
<1> SUFFICES ASSUME NEW F \in SUBSET SessionIds, Inv, Resolve(F)
             PROVE  Inv'
  OBVIOUS
<1> USE ConstantsHold DEF Constants
<1> DEFINE D == Done(F)
<1>1. /\ TypeOK /\ InboxInv /\ ReplyInv /\ TableInv
      /\ session \in [SessionIds -> TableEntries]
      /\ poll \in [SessionIds -> Polls \cup {NoPoll}]
      /\ queue \in [Agents -> Seq(Events)] /\ \A a \in Agents : Len(queue[a]) <= QueueCap
      /\ reply \in [SessionIds -> [Requests -> Replies]]
  BY DEF Inv, TypeOK, TableEntries
<1>2. /\ poll' = [s \in SessionIds |-> IF s \in D THEN NoPoll ELSE poll[s]]
      /\ session' = [s \in SessionIds |->
            IF s \in D THEN [session[s] EXCEPT !.events = << >>] ELSE session[s]]
      /\ queue' = [a \in Agents |-> IF Waiting(a) \cap D # {} THEN << >> ELSE queue[a]]
      /\ reply' = [s \in SessionIds |->
            IF s \in D \cap Known
            THEN [reply[s] EXCEPT ![poll[s].n] = Answered(reply[s][poll[s].n])] ELSE reply[s]]
      /\ step' = "messages"
      /\ UNCHANGED <<reader, sent, inbox, live, hosts, due, partition, owners, held, task>>
  BY DEF Resolve, link, split
<1>3. D \subseteq SessionIds /\ \A s \in D : poll[s] # NoPoll
  BY DEF Resolve, FirstPolls, Done
<1> HIDE DEF D
<1>4. \A s \in D : /\ s \in Known /\ poll[s].n \in Requests
                   /\ reply[s][poll[s].n] = "owed"
  BY <1>1, <1>3 DEF TableInv, PollsAreOwed, Polls
<1>5. ASSUME NEW s \in SessionIds
      PROVE  /\ session'[s] \in TableEntries
             /\ session'[s].known = session[s].known
             /\ session'[s].agent = session[s].agent
  <2>1. << >> \in Seq({Layout} \cup TaskEvents)
    BY EmptySeq
  <2>2. session'[s] = session[s] \/ session'[s] = [session[s] EXCEPT !.events = << >>]
    BY <1>2
  <2>3. CASE session'[s] = [session[s] EXCEPT !.events = << >>]
    BY <1>1, <2>1, <2>3, Zenon DEF TableEntries
  <2> QED
    BY <1>1, <2>2, <2>3
<1>6. session' \in [SessionIds -> TableEntries] /\ Known' = Known /\ Known \subseteq SessionIds
  <2>1. session' \in [SessionIds -> TableEntries]
    BY <1>2, <1>5
  <2> QED
    BY <1>5, <2>1 DEF Known
<1>7. queue' \in [Agents -> Seq(Events)] /\ \A a \in Agents : Len(queue'[a]) <= QueueCap
  <2>1. << >> \in Seq(Events) /\ Len(<< >>) = 0
    BY EmptySeq
  <2> QED
    BY <1>1, <1>2, <2>1
<1>8. poll' \in [SessionIds -> Polls \cup {NoPoll}]
  BY <1>1, <1>2
<1>9. ASSUME NEW s \in SessionIds
      PROVE  /\ reply'[s] \in [Requests -> Replies]
             /\ \A n \in Requests :
                   reply'[s][n] = IF s \in D /\ n = poll[s].n THEN "given" ELSE reply[s][n]
  <2>1. CASE s \in D
    <3> DEFINE q == poll[s].n
    <3>1. q \in Requests /\ reply[s] \in [Requests -> Replies]
      BY <1>1, <1>4, <2>1
    <3>2. reply'[s] = [reply[s] EXCEPT ![q] = "given"]
      BY <1>2, <1>4, <2>1 DEF Answered
    <3> SUFFICES /\ reply'[s] \in [Requests -> Replies]
                 /\ \A n \in Requests :
                       reply'[s][n] = IF s \in D /\ n = q THEN "given" ELSE reply[s][n]
      OBVIOUS
    <3> HIDE DEF q
    <3> QED
      BY <2>1, <3>1, <3>2 DEF Replies
  <2>2. CASE s \notin D
    BY <1>1, <1>2, <2>2
  <2> QED
    BY <2>1, <2>2
<1>10. reply' \in [SessionIds -> [Requests -> Replies]]
  BY <1>2, <1>9
<1>11. InboxInv' /\ ReplyInv'
  <2>1. \A s \in SessionIds, n \in Requests : reply[s][n] = "none" => reply'[s][n] = "none"
    BY <1>4, <1>9
  <2> QED
    BY <1>1, <1>2, <2>1, MessagesKept
<1>12. TableInv'
  <2>1. ASSUME NEW s \in SessionIds, poll'[s] # NoPoll
        PROVE  s \in Known /\ session'[s].agent = poll'[s].agent /\ reply'[s][poll'[s].n] = "owed"
    <3>1. s \notin D /\ poll'[s] = poll[s]
      BY <1>2, <2>1
    <3>2. poll[s].n \in Requests
      BY <1>1, <2>1, <3>1 DEF Polls
    <3> QED
      BY <1>1, <1>5, <1>9, <2>1, <3>1, <3>2 DEF TableInv, PollsAreOwed
  <2>2. ASSUME NEW s \in Known, NEW n \in Requests, reply'[s][n] = "owed"
        PROVE  \/ poll'[s].n = n
               \/ \E j \in Requests : j > n /\ reply'[s][j] \in {"owed", "given"}
    <3>1. s \in SessionIds /\ reply[s][n] = "owed" /\ ~(s \in D /\ n = poll[s].n)
      BY <1>6, <1>9, <2>2
    <3>2. CASE poll[s].n = n
      BY <1>2, <3>1, <3>2
    <3>3. ASSUME NEW j \in Requests, j > n, reply[s][j] \in {"owed", "given"}
          PROVE  reply'[s][j] \in {"owed", "given"}
      BY <1>9, <3>1, <3>3
    <3> QED
      BY <1>1, <3>1, <3>2, <3>3 DEF TableInv, PollsAreOwed
  <2>3. PollsAreOwed'
    BY <1>6, <2>1, <2>2 DEF PollsAreOwed
  <2> QED
    BY <1>1, <1>5, <1>9, <2>3 DEF TableInv, AnsweredOnce
<1>13. TypeOK'
  BY <1>1, <1>2, <1>6, <1>7, <1>8, <1>10 DEF TypeOK, TableEntries
<1> QED
  BY <1>11, <1>12, <1>13 DEF Inv

LEMMA LoopKeepsInv == Inv /\ (Drained \/ SetOwners \/ UNCHANGED vars) => Inv'
<1> SUFFICES ASSUME Inv, Drained \/ SetOwners \/ UNCHANGED vars
             PROVE  Inv'
  OBVIOUS
<1>1. TypeOK /\ InboxInv /\ ReplyInv /\ TableInv
  BY DEF Inv
<1>2. /\ UNCHANGED <<reader, sent, inbox, session, poll, live, queue, hosts, due, partition,
                     reply, held, task>>
      /\ owners' \in {owners, Active}
      /\ step' \in {step, "keys", "probes"}
  BY DEF Drained, SetOwners, vars, link, table, split, seen
<1>3. InboxInv' /\ ReplyInv' /\ TableInv'
  BY <1>1, <1>2, MessagesKept, TableKept
<1>4. owners' \in SUBSET Agents
  BY <1>1, <1>2, ConstantsHold DEF TypeOK, Active, Constants
<1>5. TypeOK'
  BY <1>1, <1>2, <1>4 DEF TypeOK
<1> QED
  BY <1>3, <1>5 DEF Inv

LEMMA Invariant == Spec => []Inv
<1>1. Init => Inv
  BY InitInv
<1>2. Inv /\ [Next]_vars => Inv'
  BY ReadersKeepInv, MessagesKeepInv, KeyKeepsInv, TaskEventKeepsInv, ProbeKeepsInv,
     TickKeepsInv, ResolveKeepsInv, LoopKeepsInv DEF Next, Probes, Resolution
<1> QED
  BY <1>1, <1>2, PTL DEF Spec

-----------------------------------------------------------------------------
(* Every variable keeps its type; the queue of key events of an agent      *)
(* never holds more than EVENT_QUEUE_CAPACITY (EventQueue::push).          *)
THEOREM TypeCorrect == Spec => []TypeOK
<1>1. Inv => TypeOK
  BY DEF Inv
<1> QED
  BY <1>1, Invariant, PTL

(* A request of a client is answered at most once: at once, or deferred    *)
(* and then by resolve_pending_polls (handle_request).                     *)
THEOREM OneAnswer == Spec => []AnsweredOnce
<1>1. Inv => AnsweredOnce
  BY DEF Inv, TableInv
<1> QED
  BY <1>1, Invariant, PTL

(* pending_polls holds requests that are still owed to registered sessions *)
(* and, per session, the latest of those (poll_events, remove_session).    *)
THEOREM OwedPollsWait == Spec => []PollsAreOwed
<1>1. Inv => PollsAreOwed
  BY DEF Inv, TableInv
<1> QED
  BY <1>1, Invariant, PTL

-----------------------------------------------------------------------------
(* What becomes of events.  An event of a task card carries the number of  *)
(* its press; the buffers carry none that is still to come, and no two     *)
(* buffers the same catalog action.                                        *)
Carries(s, e) == \E k \in DOMAIN session[s].events : session[s].events[k] = e

EventInv ==
    /\ \A s \in SessionIds : \A k \in DOMAIN session[s].events :
          session[s].events[k] <= Len(task)
    /\ \A e \in DOMAIN task : task[e].kind = "catalog" =>
          \A s, t \in SessionIds : Carries(s, e) /\ Carries(t, e) => s = t

Leave ==
    /\ \A a \in Agents : Len(queue'[a]) < Len(queue[a]) =>
          \E s \in Of(a) : AnsweredIn(s)
    /\ \A s \in Known : Len(session'[s].events) < Len(session[s].events) =>
          AnsweredIn(s) \/ s \notin Known'

LEMMA Lengths ==
    ASSUME TypeOK
    PROVE  /\ \A a \in Agents : Len(queue[a]) \in Nat
           /\ \A s \in SessionIds :
                 /\ session[s].events \in Seq({Layout} \cup TaskEvents)
                 /\ Len(session[s].events) \in Nat
                 /\ DOMAIN session[s].events = 1 .. Len(session[s].events)
           /\ Len(task) \in Nat /\ DOMAIN task = 1 .. Len(task)
<1>1. \A s \in SessionIds : session[s].events \in Seq({Layout} \cup TaskEvents)
  BY DEF TypeOK
<1>2. \A a \in Agents : queue[a] \in Seq(Events)
  BY DEF TypeOK
<1>3. task \in Seq(TaskTargets)
  BY DEF TypeOK
<1> QED
  BY <1>1, <1>2, <1>3, LenProperties

(* A step that puts no press of a card anywhere.                           *)
LEMMA NoPress ==
    ASSUME TypeOK, EventInv, UNCHANGED task,
           \A s \in SessionIds : \A k \in DOMAIN session'[s].events :
              \/ session'[s].events[k] = Layout
              \/ \E j \in DOMAIN session[s].events :
                    session'[s].events[k] = session[s].events[j]
    PROVE  EventInv'
<1>1. Len(task) \in Nat /\ DOMAIN task = 1 .. Len(task)
  BY Lengths
<1>2. \A s \in SessionIds : \A e \in DOMAIN task : Carries(s, e)' => Carries(s, e)
  BY <1>1 DEF Carries, Layout
<1>3. \A s \in SessionIds : \A k \in DOMAIN session'[s].events :
         session'[s].events[k] <= Len(task')
  BY <1>1 DEF EventInv, Layout
<1> QED
  BY <1>2, <1>3 DEF EventInv

(* A step by which no buffer gets shorter.                                 *)
LEMMA NothingTaken ==
    ASSUME TypeOK,
           \A a \in Agents : Len(queue'[a]) \in Nat /\ Len(queue'[a]) >= Len(queue[a]),
           \A s \in SessionIds : /\ Len(session'[s].events) \in Nat
                                 /\ Len(session'[s].events) >= Len(session[s].events)
    PROVE  Leave
<1>1. Known \subseteq SessionIds
  BY DEF Known
<1> QED
  BY <1>1, Lengths DEF Leave

LEMMA QuietSteps ==
    Inv /\ EventInv /\ (Readers \/ Drained \/ SetOwners \/ Tick \/ UNCHANGED vars)
        => EventInv' /\ Leave
<1> SUFFICES ASSUME Inv, EventInv, Readers \/ Drained \/ SetOwners \/ Tick \/ UNCHANGED vars
             PROVE  EventInv' /\ Leave
  OBVIOUS
<1>1. UNCHANGED <<session, queue, task>>
  BY DEF Readers, Connect, Greet, Read, End, Drained, SetOwners, Tick, vars, table, seen
<1>2. TypeOK
  BY DEF Inv
<1> QED
  BY <1>1, <1>2, NoPress, NothingTaken, Lengths

LEMMA KeyEvents ==
    \A k \in Controls : Inv /\ EventInv /\ Key(k) => EventInv' /\ Leave
<1> SUFFICES ASSUME NEW k \in Controls, Inv, EventInv, Key(k)
             PROVE  EventInv' /\ Leave
  OBVIOUS
<1> DEFINE to == Destination(k)
           e == [type |-> IF held[k] = Up THEN "press" ELSE "release", key |-> k]
<1>1. TypeOK /\ queue \in [Agents -> Seq(Events)]
  BY DEF Inv, TypeOK
<1>2. /\ queue' = IF to \in Agents THEN [queue EXCEPT ![to] = Push(queue[to], e)] ELSE queue
      /\ UNCHANGED <<session, task>>
  BY DEF Key, table
<1>3. e \in Events
  BY DEF Events
<1> HIDE DEF to, e
<1>4. ASSUME NEW a \in Agents
      PROVE  Len(queue'[a]) \in Nat /\ Len(queue'[a]) >= Len(queue[a])
  <2>1. queue[a] \in Seq(Events) /\ Len(queue[a]) \in Nat
    BY <1>1, Lengths
  <2>2. Push(queue[a], e) \in Seq(Events) /\ Len(Push(queue[a], e)) >= Len(queue[a])
    BY <1>3, <2>1, PushProperties
  <2>3. Len(Push(queue[a], e)) \in Nat
    BY <2>2, LenProperties
  <2> QED
    BY <1>1, <1>2, <2>1, <2>2, <2>3
<1> QED
  BY <1>1, <1>2, <1>4, NoPress, NothingTaken, Lengths

LEMMA ProbeEvents ==
    \A H \in SUBSET Hosts : Inv /\ EventInv /\ Probe(H) => EventInv' /\ Leave
<1> SUFFICES ASSUME NEW H \in SUBSET Hosts, Inv, EventInv, Probe(H)
             PROVE  EventInv' /\ Leave
  OBVIOUS
<1> DEFINE e == [type |-> "partition", key |-> Nobody]
<1>1. TypeOK /\ queue \in [Agents -> Seq(Events)]
  BY DEF Inv, TypeOK
<1>2. /\ UNCHANGED <<session, task>>
      /\ \/ queue' = queue
         \/ queue' = [a \in Agents |-> IF a \in Active THEN Push(queue[a], e) ELSE queue[a]]
  BY DEF Probe, Repartition, table, seen
<1>3. e \in Events
  BY DEF Events
<1> HIDE DEF e
<1>4. ASSUME NEW a \in Agents
      PROVE  Len(queue'[a]) \in Nat /\ Len(queue'[a]) >= Len(queue[a])
  <2>1. queue[a] \in Seq(Events) /\ Len(queue[a]) \in Nat
    BY <1>1, Lengths
  <2>2. Push(queue[a], e) \in Seq(Events) /\ Len(Push(queue[a], e)) >= Len(queue[a])
    BY <1>3, <2>1, PushProperties
  <2>3. Len(Push(queue[a], e)) \in Nat
    BY <2>2, LenProperties
  <2> QED
    BY <1>2, <2>1, <2>2, <2>3
<1> QED
  BY <1>1, <1>2, <1>4, NoPress, NothingTaken, Lengths

(* A press goes into the buffers of its targets, a catalog action into     *)
(* that of one session at most.                                            *)
LEMMA CardEvents ==
    \A to \in TaskTargets : Inv /\ EventInv /\ TaskEvent(to) => EventInv' /\ Leave
<1> SUFFICES ASSUME NEW to \in TaskTargets, Inv, EventInv, TaskEvent(to)
             PROVE  EventInv' /\ Leave
  OBVIOUS
<1> USE ConstantsHold DEF Constants
<1> DEFINE e == Len(task) + 1
           put(events) == IF to.kind = "catalog" THEN Push(events, e) ELSE Append(events, e)
<1>1. /\ TypeOK /\ task \in Seq(TaskTargets) /\ Len(task) \in Nat
      /\ session \in [SessionIds -> TableEntries]
      /\ \A s \in SessionIds : /\ session[s].events \in Seq({Layout} \cup TaskEvents)
                               /\ Len(session[s].events) \in Nat
  BY Lengths DEF Inv, TypeOK, TableEntries
<1>2. /\ task' = Append(task, to) /\ Len(task) < MaxTaskEvents
      /\ session' = [s \in SessionIds |->
                        IF s \in Targets(to)
                        THEN [session[s] EXCEPT !.events = put(@)] ELSE session[s]]
      /\ UNCHANGED queue
  BY DEF TaskEvent
<1>3. /\ e \in {Layout} \cup TaskEvents /\ e \in Nat /\ e = Len(task) + 1
      /\ Len(task') = e /\ DOMAIN task' = 1 .. e /\ DOMAIN task = 1 .. Len(task)
      /\ \A i \in DOMAIN task : task'[i] = task[i]
      /\ task'[e] = to
  <2>1. /\ Len(task') = e /\ DOMAIN task' = 1 .. e /\ DOMAIN task = 1 .. Len(task)
        /\ \A i \in DOMAIN task : task'[i] = task[i]
        /\ task'[e] = to
    BY <1>1, <1>2, AppendKeeps
  <2> QED
    BY <1>1, <1>2, <2>1 DEF TaskEvents
<1>4. \A s \in SessionIds : session'[s].events =
         IF s \in Targets(to) THEN put(session[s].events) ELSE session[s].events
  <2>1. \A s \in SessionIds : session[s] \in TableEntries
    BY <1>1
  <2> HIDE DEF put
  <2> QED
    BY <1>2, <2>1 DEF TableEntries
<1> HIDE DEF e
<1>5. ASSUME NEW s \in SessionIds
      PROVE  /\ Len(put(session[s].events)) \in Nat
             /\ Len(put(session[s].events)) >= Len(session[s].events)
             /\ \A k \in DOMAIN put(session[s].events) :
                   \/ put(session[s].events)[k] = e
                   \/ \E j \in DOMAIN session[s].events :
                         put(session[s].events)[k] = session[s].events[j]
  <2> DEFINE q == session[s].events
  <2>1. q \in Seq({Layout} \cup TaskEvents) /\ Len(q) \in Nat
    BY <1>1
  <2> HIDE DEF q
  <2>2. /\ Push(q, e) \in Seq({Layout} \cup TaskEvents) /\ Len(Push(q, e)) >= Len(q)
        /\ \A k \in DOMAIN Push(q, e) :
              Push(q, e)[k] = e \/ \E j \in DOMAIN q : Push(q, e)[k] = q[j]
    BY <1>3, <2>1, PushProperties
  <2>3. Len(Push(q, e)) \in Nat
    BY <2>2, LenProperties
  <2>4. /\ Len(Append(q, e)) = Len(q) + 1 /\ DOMAIN q = 1 .. Len(q)
        /\ DOMAIN Append(q, e) = 1 .. Len(q) + 1
        /\ \A k \in 1 .. Len(q) : Append(q, e)[k] = q[k]
        /\ Append(q, e)[Len(q) + 1] = e
    BY <1>3, <2>1, AppendKeeps
  <2> QED
    BY <2>1, <2>2, <2>3, <2>4 DEF q
<1> HIDE DEF put
<1>6. Leave
  BY <1>1, <1>2, <1>4, <1>5, NothingTaken, Lengths
<1>7. \A s \in SessionIds : \A k \in DOMAIN session'[s].events :
         \/ s \in Targets(to) /\ session'[s].events[k] = e
         \/ \E j \in DOMAIN session[s].events :
               session'[s].events[k] = session[s].events[j]
  <2> SUFFICES ASSUME NEW s \in SessionIds, NEW k \in DOMAIN session'[s].events
               PROVE  \/ s \in Targets(to) /\ session'[s].events[k] = e
                      \/ \E j \in DOMAIN session[s].events :
                            session'[s].events[k] = session[s].events[j]
    OBVIOUS
  <2> DEFINE w == put(session[s].events)
  <2>1. \A i \in DOMAIN w : w[i] = e \/ \E j \in DOMAIN session[s].events :
                                          w[i] = session[s].events[j]
    BY <1>5
  <2>2. session'[s].events = IF s \in Targets(to) THEN w ELSE session[s].events
    BY <1>4
  <2> HIDE DEF w
  <2> QED
    BY <2>1, <2>2
<1>8. \A s \in SessionIds : \A j \in DOMAIN session[s].events :
         /\ session[s].events[j] <= Len(task)
         /\ session[s].events[j] \in {Layout} \cup TaskEvents
  BY <1>1, Lengths, ElementOfSeq DEF EventInv
<1>9. \A s \in SessionIds : \A k \in DOMAIN session'[s].events :
         session'[s].events[k] <= Len(task')
  BY <1>1, <1>3, <1>7, <1>8 DEF Layout, TaskEvents
<1>10. ASSUME NEW i \in DOMAIN task', task'[i].kind = "catalog",
              NEW s \in SessionIds, NEW t \in SessionIds, Carries(s, i)', Carries(t, i)'
       PROVE  s = t
  <2>1. CASE i = e
    <3>1. s \in Targets(to) /\ t \in Targets(to)
      BY <1>1, <1>3, <1>7, <1>8, <1>10, <2>1 DEF Carries, Layout, TaskEvents
    <3>2. s \in Catalog(to.agent) /\ t \in Catalog(to.agent)
      BY <1>3, <1>10, <2>1, <3>1 DEF Targets
    <3>3. s <= t /\ t <= s
      BY <3>2 DEF Catalog
    <3> QED
      BY <3>3
  <2>2. CASE i # e
    <3>1. i \in DOMAIN task /\ task[i].kind = "catalog"
      BY <1>1, <1>3, <1>10, <2>2
    <3>2. Carries(s, i) /\ Carries(t, i)
      BY <1>7, <1>10, <2>2 DEF Carries
    <3> QED
      BY <3>1, <3>2 DEF EventInv
  <2> QED
    BY <2>1, <2>2
<1> QED
  BY <1>6, <1>9, <1>10 DEF EventInv

LEMMA AnswerSeen ==
    ASSUME NEW m, m.session \in SessionIds, m.n \in Requests, m.session \in Known,
           reply \in [SessionIds -> [Requests -> Replies]],
           reply[m.session][m.n] = "none", Answer(m)
    PROVE  AnsweredIn(m.session)
<1> DEFINE s == m.session
           n == m.n
<1>1. reply' = [reply EXCEPT ![s][n] = "answered"]
  BY DEF Answer, Answered
<1>2. s \in SessionIds /\ n \in Requests /\ reply[s][n] = "none"
  OBVIOUS
<1> SUFFICES AnsweredIn(s)
  OBVIOUS
<1> HIDE DEF s, n
<1>3. reply'[s][n] = "answered" /\ reply[s] \in [Requests -> Replies]
  BY <1>1, <1>2
<1> QED
  BY <1>2, <1>3 DEF AnsweredIn

LEMMA MessageEvents == Inv /\ EventInv /\ Messages => EventInv' /\ Leave
<1> SUFFICES ASSUME Inv, EventInv, Messages
             PROVE  EventInv' /\ Leave
  OBVIOUS
<1> DEFINE m == Head(inbox)
           s == m.session
<1>1. /\ TypeOK /\ InboxInv /\ ReplyInv /\ TableInv
      /\ inbox \in Seq(Message) /\ inbox # << >> /\ Handle(m)
      /\ session \in [SessionIds -> TableEntries]
      /\ queue \in [Agents -> Seq(Events)]
      /\ reply \in [SessionIds -> [Requests -> Replies]]
  BY DEF Inv, TypeOK, Messages, TableEntries
<1>2. m \in Message /\ m = inbox[1] /\ 1 \in DOMAIN inbox
  BY <1>1, TailKeeps
<1> HIDE DEF m
<1>3. /\ s \in SessionIds
      /\ m.kind \in Lines => m.n \in Requests /\ reply[s][m.n] = "none"
  <2>1. m.session \in SessionIds /\ m.n \in {0} \cup Requests
    BY <1>2 DEF Message
  <2>2. m.kind \in Lines => m.n \in 1 .. sent[m.session]
    BY <1>1, <1>2 DEF InboxInv
  <2>3. \A n \in Requests : n >= From(m) => reply[s][n] = "none"
    BY <1>1, <1>2 DEF ReplyInv
  <2>4. sent[m.session] \in 0 .. MaxRequests /\ MaxRequests \in Nat
    BY <1>1, <2>1, ConstantsHold DEF TypeOK, Constants
  <2> QED
    BY <2>1, <2>2, <2>3, <2>4 DEF From, Requests
<1> HIDE DEF s
<1>4. UNCHANGED task
  BY <1>1 DEF Handle, Register, Identify, Remove, Reject, Call, Publish, PollNow,
     PollLater, seen
<1>5. CASE Register(m) \/ Identify(m) \/ Reject(m) \/ Call(m) \/ PollLater(m)
  <2>1. /\ UNCHANGED queue
        /\ \/ session' = session
           \/ session' = [session EXCEPT ![s].known = TRUE]
           \/ session' = [session EXCEPT ![s].agent = m.agent]
    BY <1>5 DEF Register, Identify, Reject, Call, PollLater, table, s
  <2>2. \A t \in SessionIds : session'[t].events = session[t].events
    <3>1. \A t \in SessionIds : session[t] \in TableEntries
      BY <1>1
    <3>2. ASSUME NEW t \in SessionIds
          PROVE  \/ session'[t] = session[t]
                 \/ session'[t] = [session[t] EXCEPT !.known = TRUE]
                 \/ session'[t] = [session[t] EXCEPT !.agent = m.agent]
      BY <1>1, <1>3, <2>1
    <3> QED
      BY <3>1, <3>2, Zenon DEF TableEntries
  <2> QED
    BY <1>1, <1>4, <2>1, <2>2, NoPress, NothingTaken, Lengths
<1>6. CASE Remove(m)
  <2>1. session' = [session EXCEPT ![s] = NoSession] /\ UNCHANGED queue
    BY <1>6 DEF Remove, s
  <2>2. /\ ~NoSession.known /\ NoSession.events = << >>
        /\ \A t \in SessionIds : session'[t] = IF t = s THEN NoSession ELSE session[t]
    BY <1>1, <2>1 DEF NoSession
  <2>3. EventInv'
    <3>1. \A t \in SessionIds : session'[t].events = session[t].events
                                \/ DOMAIN session'[t].events = {}
      BY <2>2
    <3> QED
      BY <1>1, <1>4, <3>1, NoPress
  <2>4. s \notin Known'
    BY <2>2 DEF Known
  <2>5. Known \subseteq SessionIds
    BY DEF Known
  <2>6. \A t \in Known : t = s \/ session'[t] = session[t]
    BY <2>2, <2>5
  <2> QED
    BY <1>1, <2>1, <2>3, <2>4, <2>5, <2>6, Lengths DEF Leave
<1>7. CASE Publish(m)
  <2> DEFINE q == session[s].events
  <2>1. session' = [session EXCEPT ![s].events = Push(q, Layout)] /\ UNCHANGED queue
    BY <1>7 DEF Publish, s
  <2>2. q \in Seq({Layout} \cup TaskEvents)
    BY <1>1, <1>3 DEF TableEntries
  <2>3. /\ Push(q, Layout) \in Seq({Layout} \cup TaskEvents)
        /\ Len(Push(q, Layout)) >= Len(q) /\ Len(Push(q, Layout)) \in Nat
        /\ \A k \in DOMAIN Push(q, Layout) :
              Push(q, Layout)[k] = Layout \/ \E j \in DOMAIN q : Push(q, Layout)[k] = q[j]
    BY <2>2, PushProperties, LenProperties
  <2>4. /\ session'[s].events = Push(q, Layout)
        /\ \A t \in SessionIds : t # s => session'[t] = session[t]
    BY <1>1, <1>3, <2>1, <2>3, EventsSet
  <2>5. EventInv'
    BY <1>1, <1>4, <2>3, <2>4, NoPress
  <2>6. Leave
    BY <1>1, <2>1, <2>3, <2>4, NothingTaken, Lengths
  <2> QED
    BY <2>5, <2>6
<1>8. CASE PollNow(m)
  <2>1. /\ m.kind \in Lines /\ Answer(m) /\ session[s].agent # Nobody
        /\ session' = [session EXCEPT ![s].events = << >>]
        /\ queue' = [queue EXCEPT ![session[s].agent] = << >>]
    BY <1>8 DEF PollNow, Receive, Lines, s
  <2>2. << >> \in Seq({Layout} \cup TaskEvents) /\ DOMAIN << >> = {}
    BY EmptySeq
  <2>3. /\ session'[s].events = << >>
        /\ \A t \in SessionIds : t # s => session'[t] = session[t]
    BY <1>1, <1>3, <2>1, <2>2, EventsSet
  <2>4. EventInv'
    BY <1>1, <1>4, <2>2, <2>3, NoPress
  <2>5. s \in Known /\ s \in Of(session[s].agent)
    BY <1>1, <1>3, <2>1 DEF TableInv, Known, Of
  <2>6. AnsweredIn(s)
    BY <1>1, <1>3, <2>1, <2>5, AnswerSeen DEF s
  <2>7. \A a \in Agents : a = session[s].agent \/ queue'[a] = queue[a]
    BY <1>1, <2>1
  <2>8. Known \subseteq SessionIds
    BY DEF Known
  <2>9. ASSUME NEW a \in Agents, Len(queue'[a]) < Len(queue[a])
        PROVE  \E t \in Of(a) : AnsweredIn(t)
    BY <1>1, <2>5, <2>6, <2>7, <2>9, Lengths
  <2>10. ASSUME NEW t \in Known, Len(session'[t].events) < Len(session[t].events)
         PROVE  AnsweredIn(t)
    BY <1>1, <2>3, <2>6, <2>8, <2>10, Lengths
  <2> QED
    BY <2>4, <2>9, <2>10 DEF Leave
<1> QED
  BY <1>1, <1>5, <1>6, <1>7, <1>8 DEF Handle

LEMMA ResolveEvents ==
    \A F \in SUBSET SessionIds : Inv /\ EventInv /\ Resolve(F) => EventInv' /\ Leave
<1> SUFFICES ASSUME NEW F \in SUBSET SessionIds, Inv, EventInv, Resolve(F)
             PROVE  EventInv' /\ Leave
  OBVIOUS
<1> DEFINE D == Done(F)
<1>1. /\ TypeOK /\ TableInv
      /\ session \in [SessionIds -> TableEntries]
      /\ poll \in [SessionIds -> Polls \cup {NoPoll}]
      /\ queue \in [Agents -> Seq(Events)]
      /\ reply \in [SessionIds -> [Requests -> Replies]]
  BY DEF Inv, TypeOK, TableEntries
<1>2. /\ session' = [s \in SessionIds |->
            IF s \in D THEN [session[s] EXCEPT !.events = << >>] ELSE session[s]]
      /\ queue' = [a \in Agents |-> IF Waiting(a) \cap D # {} THEN << >> ELSE queue[a]]
      /\ reply' = [s \in SessionIds |->
            IF s \in D \cap Known
            THEN [reply[s] EXCEPT ![poll[s].n] = Answered(reply[s][poll[s].n])] ELSE reply[s]]
      /\ UNCHANGED task
  BY DEF Resolve
<1>3. D \subseteq SessionIds /\ \A s \in D : poll[s] # NoPoll
  BY DEF Resolve, FirstPolls, Done
<1> HIDE DEF D
<1>4. \A s \in D : /\ s \in Known /\ poll[s].n \in Requests
                   /\ session[s].agent = poll[s].agent
                   /\ reply[s][poll[s].n] = "owed"
  BY <1>1, <1>3 DEF TableInv, PollsAreOwed, Polls
<1>5. ASSUME NEW s \in D
      PROVE  AnsweredIn(s) /\ s \in Of(poll[s].agent)
  <2> DEFINE q == poll[s].n
  <2>1. q \in Requests /\ reply[s] \in [Requests -> Replies] /\ reply[s][q] = "owed"
    BY <1>1, <1>3, <1>4
  <2>2. reply'[s] = [reply[s] EXCEPT ![q] = "given"]
    BY <1>2, <1>3, <1>4 DEF Answered
  <2> HIDE DEF q
  <2>3. reply'[s][q] = "given"
    BY <2>1, <2>2
  <2> QED
    BY <1>4, <2>1, <2>3 DEF AnsweredIn, Of
<1>6. \A s \in SessionIds :
         IF s \in D THEN session'[s].events = << >> ELSE session'[s] = session[s]
  <2>1. \A s \in SessionIds : session[s] \in TableEntries
    BY <1>1
  <2> QED
    BY <1>2, <2>1 DEF TableEntries
<1>7. EventInv'
  <2>1. DOMAIN << >> = {}
    OBVIOUS
  <2> QED
    BY <1>1, <1>2, <1>6, <2>1, NoPress
<1>8. Leave
  <2>1. ASSUME NEW a \in Agents, Len(queue'[a]) < Len(queue[a])
        PROVE  \E s \in Of(a) : AnsweredIn(s)
    <3>1. queue'[a] # queue[a]
      BY <1>1, <2>1, Lengths
    <3>2. PICK s \in D : s \in Waiting(a)
      BY <1>2, <3>1
    <3> QED
      BY <1>5, <3>2 DEF Waiting
  <2>2. ASSUME NEW s \in Known, Len(session'[s].events) < Len(session[s].events)
        PROVE  AnsweredIn(s)
    <3>1. s \in SessionIds
      BY DEF Known
    <3>2. s \in D
      BY <1>1, <1>6, <2>2, <3>1, Lengths
    <3> QED
      BY <1>5, <3>2
  <2> QED
    BY <2>1, <2>2 DEF Leave
<1> QED
  BY <1>7, <1>8

LEMMA EventSteps == Inv /\ EventInv /\ [Next]_vars => EventInv' /\ Leave
BY QuietSteps, MessageEvents, KeyEvents, CardEvents, ProbeEvents, ResolveEvents
   DEF Next, Probes, Resolution

LEMMA EventsInvariant == Spec => []EventInv
<1>1. Init => EventInv
  <2> SUFFICES ASSUME Init
               PROVE  EventInv
    OBVIOUS
  <2>1. /\ DOMAIN task = {}
        /\ \A s \in SessionIds : DOMAIN session[s].events = {}
    BY DEF Init, NoSession
  <2> QED
    BY <2>1 DEF EventInv
<1> QED
  BY <1>1, EventSteps, Invariant, PTL DEF Spec

(* A catalog action waits in the buffer of one session at most: it went to *)
(* the newest session of the agent, and nothing moves it elsewhere         *)
(* (run_daemon).                                                           *)
THEOREM CatalogGoesOnce == Spec => []CatalogOnce
<1>1. EventInv => CatalogOnce
  <2> SUFFICES ASSUME EventInv, NEW e \in DOMAIN task, task[e].kind = "catalog"
               PROVE  Cardinality({s \in SessionIds :
                         \E k \in DOMAIN session[s].events : session[s].events[k] = e}) <= 1
    BY DEF CatalogOnce
  <2> DEFINE S == {s \in SessionIds :
                      \E k \in DOMAIN session[s].events : session[s].events[k] = e}
  <2>1. \A s, t \in S : s = t
    BY DEF EventInv, Carries
  <2>2. CASE S = {}
    <3>1. Cardinality(S) = 0
      BY <2>2, FS_EmptySet
    <3> QED
      BY <3>1
  <2>3. ASSUME NEW s \in S
        PROVE  Cardinality(S) <= 1
    <3>1. S = {s}
      BY <2>1
    <3>2. Cardinality({s}) = 1
      BY FS_Singleton
    <3> QED
      BY <3>1, <3>2
  <2> QED
    BY <2>2, <2>3
<1> QED
  BY <1>1, EventsInvariant, PTL

(* What empties a buffer of events is an answer to a client, or the end of *)
(* its session; a queue that is full keeps its length                      *)
(* (drain_session_events, resolve_pending_polls, EventQueue::push).        *)
THEOREM EventsLeave == Spec => EventsLeaveInAnswers
<1>1. Inv /\ EventInv /\ [Next]_vars =>
        [/\ \A a \in Agents : Len(queue'[a]) < Len(queue[a]) =>
               \E s \in Of(a) : AnsweredIn(s)
         /\ \A s \in Known : Len(session'[s].events) < Len(session[s].events) =>
               AnsweredIn(s) \/ s \notin Known']_vars
  BY EventSteps DEF Leave
<1> QED
  BY <1>1, Invariant, EventsInvariant, PTL DEF Spec, EventsLeaveInAnswers

-----------------------------------------------------------------------------
(* Who is active: session_agents follows the sessions, and the split of    *)
(* the keys follows it and the desktop programs.                           *)

(* A session says hello at most once, after it was registered and before   *)
(* any other line.                                                         *)
HelloInv ==
    /\ \A s \in SessionIds : reader[s] \in {"new", "greets"} =>
          /\ session[s].agent = Nobody
          /\ \A k \in DOMAIN inbox : inbox[k].session = s =>
                reader[s] = "greets" /\ inbox[k].kind = "connected"
    /\ \A s \in SessionIds : reader[s] = "greets" =>
          \/ session[s].known
          \/ \E j \in DOMAIN inbox : inbox[j].session = s /\ inbox[j].kind = "connected"
    /\ \A k \in DOMAIN inbox : inbox[k].kind = "hello" =>
          /\ session[inbox[k].session].agent = Nobody
          /\ \A j \in DOMAIN inbox : j < k /\ inbox[j].session = inbox[k].session =>
                inbox[j].kind = "connected"
          /\ \/ session[inbox[k].session].known
             \/ \E j \in DOMAIN inbox : /\ j < k /\ inbox[j].session = inbox[k].session
                                        /\ inbox[j].kind = "connected"

LiveAreConnected == live = {a \in Agents : Of(a) # {}}

NothingIsStale == due = NotDue => partition = Compute(Active) /\ owners = Active

LEMMA HelloSent ==
    ASSUME Inv, HelloInv,
           NEW kind, NEW s \in SessionIds, NEW a, NEW n,
           Send(kind, s, a, n), UNCHANGED session,
           kind \in {"hello", "closed"} \cup Lines => reader'[s] \in {"reads", "gone"},
           kind = "connected" => reader[s] = "new" /\ reader'[s] = "greets",
           kind = "hello" => reader[s] = "greets",
           reader'[s] # "new",
           \A t \in SessionIds \ {s} : reader'[t] = reader[t],
           kind \in {"connected", "hello", "closed"} \cup Lines
    PROVE  HelloInv'
<1> DEFINE m == [kind |-> kind, session |-> s, agent |-> a, n |-> n]
           last == Len(inbox) + 1
<1>1. inbox \in Seq(Message) /\ inbox' = Append(inbox, m)
  BY DEF Inv, TypeOK, Send
<1>2. /\ Len(inbox) \in Nat
      /\ DOMAIN inbox = 1 .. Len(inbox) /\ DOMAIN inbox' = 1 .. last
      /\ \A k \in 1 .. Len(inbox) : inbox'[k] = inbox[k]
      /\ inbox'[last] = m
  <2>1. /\ inbox \in Seq(Message \cup {m}) /\ m \in Message \cup {m}
    <3>1. Seq(Message) \subseteq Seq(Message \cup {m})
      OBVIOUS
    <3> QED
      BY <1>1, <3>1
  <2> HIDE DEF m
  <2> QED
    BY <1>1, <2>1, AppendKeeps
<1>3. m.kind = kind /\ m.session = s
  OBVIOUS
<1>4. \A k \in DOMAIN inbox : inbox[k].session \in SessionIds
  <2>1. \A k \in DOMAIN inbox : inbox[k] \in Message
    BY <1>1, <1>2, ElementOfSeq
  <2> QED
    BY <2>1 DEF Message
<1> HIDE DEF m
<1>5. /\ DOMAIN inbox \subseteq DOMAIN inbox' /\ last \in DOMAIN inbox' /\ last \in Nat
      /\ \A j \in DOMAIN inbox' : j \in DOMAIN inbox \/ j = last
      /\ \A j \in DOMAIN inbox : j < last
  BY <1>2
<1> HIDE DEF last
<1>6. \A t \in SessionIds : session'[t] = session[t]
  OBVIOUS
<1>7. ASSUME NEW t \in SessionIds, reader'[t] \in {"new", "greets"}
      PROVE  /\ session'[t].agent = Nobody
             /\ \A k \in DOMAIN inbox' : inbox'[k].session = t =>
                   reader'[t] = "greets" /\ inbox'[k].kind = "connected"
             /\ reader'[t] = "greets" =>
                   \/ session'[t].known
                   \/ \E j \in DOMAIN inbox' :
                         inbox'[j].session = t /\ inbox'[j].kind = "connected"
  <2>1. CASE t = s
    <3>1. kind = "connected" /\ reader[s] = "new" /\ reader'[s] = "greets"
      BY <1>7, <2>1
    <3>2. \A k \in DOMAIN inbox : inbox[k].session # s
      BY <3>1 DEF HelloInv
    <3>3. session[s].agent = Nobody
      BY <3>1 DEF HelloInv
    <3> QED
      BY <1>2, <1>3, <1>5, <1>6, <2>1, <3>1, <3>2, <3>3
  <2>2. CASE t # s
    <3>1. reader[t] = reader'[t]
      BY <2>2
    <3> QED
      BY <1>2, <1>3, <1>5, <1>6, <1>7, <2>2, <3>1 DEF HelloInv
  <2> QED
    BY <2>1, <2>2
<1>8. ASSUME NEW k \in DOMAIN inbox', inbox'[k].kind = "hello"
      PROVE  /\ session'[inbox'[k].session].agent = Nobody
             /\ \A j \in DOMAIN inbox' : j < k /\ inbox'[j].session = inbox'[k].session =>
                   inbox'[j].kind = "connected"
             /\ \/ session'[inbox'[k].session].known
                \/ \E j \in DOMAIN inbox' :
                      /\ j < k /\ inbox'[j].session = inbox'[k].session
                      /\ inbox'[j].kind = "connected"
  <2>1. CASE k \in DOMAIN inbox
    <3>1. k < last /\ inbox'[k] = inbox[k] /\ k \in Nat
      BY <1>2, <1>5, <2>1
    <3>2. \A j \in DOMAIN inbox' : j < k => j \in DOMAIN inbox /\ inbox'[j] = inbox[j]
      BY <1>2, <1>5, <3>1
    <3>3. \A j \in DOMAIN inbox : j \in DOMAIN inbox' /\ inbox'[j] = inbox[j]
      BY <1>2, <1>5
    <3> QED
      BY <1>8, <2>1, <3>1, <3>2, <3>3 DEF HelloInv
  <2>2. CASE k = last
    <3>1. inbox'[k].session = s /\ kind = "hello" /\ reader[s] = "greets"
      BY <1>2, <1>3, <1>8, <2>2
    <3>2. \A j \in DOMAIN inbox' : j < k => j \in DOMAIN inbox /\ inbox'[j] = inbox[j]
      BY <1>2, <1>5, <2>2
    <3>3. \A j \in DOMAIN inbox : j \in DOMAIN inbox' /\ inbox'[j] = inbox[j] /\ j < k
      BY <1>2, <1>5, <2>2
    <3>4. /\ session[s].agent = Nobody
          /\ \A j \in DOMAIN inbox : inbox[j].session = s => inbox[j].kind = "connected"
          /\ \/ session[s].known
             \/ \E j \in DOMAIN inbox : inbox[j].session = s /\ inbox[j].kind = "connected"
      BY <3>1 DEF HelloInv
    <3> QED
      BY <1>6, <3>1, <3>2, <3>3, <3>4
  <2> QED
    BY <1>5, <2>1, <2>2
<1> QED
  BY <1>7, <1>8 DEF HelloInv

(* A message that is taken out: a registration, or one that leaves a       *)
(* session waiting to say hello as it was.                                 *)
LEMMA HelloReceived ==
    ASSUME Inv, HelloInv, inbox # << >>, inbox' = Tail(inbox), UNCHANGED reader,
           \A s \in SessionIds :
              \/ /\ session'[s].agent = session[s].agent
                 /\ session'[s].known = session[s].known
              \/ s = Head(inbox).session /\ Head(inbox).kind # "connected"
              \/ /\ s = Head(inbox).session /\ Head(inbox).kind = "connected"
                 /\ session'[s].known /\ session'[s].agent = session[s].agent,
           Head(inbox).kind = "connected" => session'[Head(inbox).session].known
    PROVE  HelloInv'
<1> DEFINE h == Head(inbox)
<1>1. inbox \in Seq(Message)
  BY DEF Inv, TypeOK
<1>2. /\ Len(inbox) \in Nat \ {0} /\ h = inbox[1]
      /\ DOMAIN inbox = 1 .. Len(inbox) /\ DOMAIN inbox' = 1 .. Len(inbox) - 1
      /\ \A k \in 1 .. Len(inbox) - 1 : inbox'[k] = inbox[k + 1]
  BY <1>1, TailKeeps
<1>3. \A k \in DOMAIN inbox : inbox[k].session \in SessionIds
  <2>1. \A k \in DOMAIN inbox : inbox[k] \in Message
    BY <1>1, <1>2, ElementOfSeq
  <2> QED
    BY <2>1 DEF Message
<1> HIDE DEF h
<1>4. \A k \in DOMAIN inbox' : /\ k \in Nat /\ k + 1 \in DOMAIN inbox
                               /\ inbox'[k] = inbox[k + 1] /\ 1 < k + 1
  BY <1>2
<1>5. \A j \in DOMAIN inbox : j = 1 \/ (j - 1 \in DOMAIN inbox' /\ inbox'[j - 1] = inbox[j])
  BY <1>2
<1>6. 1 \in DOMAIN inbox /\ DOMAIN inbox \subseteq Nat
  BY <1>2
<1>7. ASSUME NEW s \in SessionIds,
             reader[s] \in {"new", "greets"} \/
                \E k \in DOMAIN inbox : 1 < k /\ inbox[k].kind = "hello" /\ inbox[k].session = s
      PROVE  /\ session'[s].agent = session[s].agent
             /\ session[s].known => session'[s].known
             /\ h.session = s /\ h.kind = "connected" => session'[s].known
  <2>1. h.session = s => h.kind = "connected"
    BY <1>2, <1>6, <1>7 DEF HelloInv
  <2> QED
    BY <2>1 DEF h
<1>8. ASSUME NEW s \in SessionIds, reader'[s] \in {"new", "greets"}
      PROVE  /\ session'[s].agent = Nobody
             /\ \A k \in DOMAIN inbox' : inbox'[k].session = s =>
                   reader'[s] = "greets" /\ inbox'[k].kind = "connected"
             /\ reader'[s] = "greets" =>
                   \/ session'[s].known
                   \/ \E j \in DOMAIN inbox' :
                         inbox'[j].session = s /\ inbox'[j].kind = "connected"
  <2>1. session'[s].agent = Nobody
    BY <1>7, <1>8 DEF HelloInv
  <2>2. \A k \in DOMAIN inbox' : inbox'[k].session = s =>
           reader'[s] = "greets" /\ inbox'[k].kind = "connected"
    BY <1>4, <1>8 DEF HelloInv
  <2>3. ASSUME reader'[s] = "greets", ~session'[s].known
        PROVE  \E j \in DOMAIN inbox' :
                  inbox'[j].session = s /\ inbox'[j].kind = "connected"
    <3>1. PICK j \in DOMAIN inbox : inbox[j].session = s /\ inbox[j].kind = "connected"
      BY <1>7, <1>8, <2>3 DEF HelloInv
    <3>2. j # 1
      BY <1>2, <1>7, <1>8, <2>3, <3>1
    <3> QED
      BY <1>5, <3>1, <3>2
  <2> QED
    BY <2>1, <2>2, <2>3
<1>9. ASSUME NEW k \in DOMAIN inbox', inbox'[k].kind = "hello"
      PROVE  /\ session'[inbox'[k].session].agent = Nobody
             /\ \A j \in DOMAIN inbox' : j < k /\ inbox'[j].session = inbox'[k].session =>
                   inbox'[j].kind = "connected"
             /\ \/ session'[inbox'[k].session].known
                \/ \E j \in DOMAIN inbox' :
                      /\ j < k /\ inbox'[j].session = inbox'[k].session
                      /\ inbox'[j].kind = "connected"
  <2> DEFINE s == inbox'[k].session
  <2>1. /\ k + 1 \in DOMAIN inbox /\ inbox[k + 1].kind = "hello" /\ 1 < k + 1
        /\ inbox[k + 1].session = s /\ s \in SessionIds /\ k \in Nat
    BY <1>3, <1>4, <1>9
  <2> HIDE DEF s
  <2>2. /\ session'[s].agent = session[s].agent
        /\ session[s].known => session'[s].known
        /\ h.session = s /\ h.kind = "connected" => session'[s].known
    BY <1>7, <2>1
  <2>3. /\ session[s].agent = Nobody
        /\ \A j \in DOMAIN inbox : j < k + 1 /\ inbox[j].session = s =>
              inbox[j].kind = "connected"
        /\ \/ session[s].known
           \/ \E j \in DOMAIN inbox : /\ j < k + 1 /\ inbox[j].session = s
                                      /\ inbox[j].kind = "connected"
    BY <2>1 DEF HelloInv
  <2>4. \A j \in DOMAIN inbox' : j < k /\ inbox'[j].session = s => inbox'[j].kind = "connected"
    <3>1. \A j \in DOMAIN inbox' : j < k => j + 1 < k + 1
      BY <1>4, <2>1
    <3> QED
      BY <1>4, <2>3, <3>1
  <2>5. ASSUME ~session'[s].known
        PROVE  \E j \in DOMAIN inbox' : /\ j < k /\ inbox'[j].session = s
                                        /\ inbox'[j].kind = "connected"
    <3>1. PICK j \in DOMAIN inbox : /\ j < k + 1 /\ inbox[j].session = s
                                    /\ inbox[j].kind = "connected"
      BY <2>2, <2>3, <2>5
    <3>2. j # 1
      BY <1>2, <2>2, <2>5, <3>1
    <3>3. j - 1 < k
      BY <1>6, <2>1, <3>1
    <3> QED
      BY <1>5, <3>1, <3>2, <3>3
  <2> QED
    BY <2>2, <2>3, <2>4, <2>5 DEF s
<1> QED
  BY <1>8, <1>9 DEF HelloInv

LiveInv == HelloInv /\ LiveAreConnected /\ NothingIsStale

(* A step that changes no session's agent and takes no message.            *)
LEMMA SameAgents ==
    ASSUME HelloInv, LiveAreConnected, Inv, UNCHANGED <<reader, inbox, live>>,
           \A s \in SessionIds : /\ session'[s].agent = session[s].agent
                                 /\ session'[s].known = session[s].known
    PROVE  HelloInv' /\ LiveAreConnected'
<1>1. inbox \in Seq(Message) /\ DOMAIN inbox = 1 .. Len(inbox)
  <2>1. inbox \in Seq(Message)
    BY DEF Inv, TypeOK
  <2> QED
    BY <2>1, LenProperties
<1>2. \A k \in DOMAIN inbox : inbox[k].session \in SessionIds
  <2>1. \A k \in DOMAIN inbox : inbox[k] \in Message
    BY <1>1, ElementOfSeq
  <2> QED
    BY <2>1 DEF Message
<1>3. HelloInv'
  BY <1>2 DEF HelloInv
<1>4. LiveAreConnected'
  BY DEF LiveAreConnected, Of, Known
<1> QED
  BY <1>3, <1>4

LEMMA ReadersFollow == Inv /\ LiveInv /\ Readers => LiveInv'
<1> SUFFICES ASSUME Inv, LiveInv, Readers
             PROVE  LiveInv'
  OBVIOUS
<1>1. /\ UNCHANGED <<table, split>>
      /\ reader \in [SessionIds -> {"new", "greets", "reads", "gone"}]
      /\ HelloInv
  BY DEF Inv, TypeOK, LiveInv, Readers, Connect, Greet, Read, End
<1>2. LiveAreConnected' /\ NothingIsStale'
  BY <1>1 DEF LiveInv, LiveAreConnected, NothingIsStale, Of, Known, Active, table, split
<1>3. UNCHANGED session
  BY <1>1 DEF table
<1>4. ASSUME NEW s \in SessionIds, Connect(s)
      PROVE  HelloInv'
  <2>1. /\ reader[s] = "new" /\ reader'[s] = "greets"
        /\ Send("connected", s, Nobody, 0)
        /\ \A t \in SessionIds \ {s} : reader'[t] = reader[t]
    BY <1>1, <1>4 DEF Connect
  <2>2. "connected" \notin {"hello", "closed"} \cup Lines
    BY DEF Lines
  <2> QED
    BY <1>1, <1>3, <2>1, <2>2, HelloSent
<1>5. ASSUME NEW s \in SessionIds, Greet(s)
      PROVE  HelloInv'
  <2>1. /\ reader[s] = "greets" /\ reader'[s] = "reads"
        /\ \A t \in SessionIds \ {s} : reader'[t] = reader[t]
    BY <1>1, <1>5 DEF Greet
  <2>2. CASE \E a \in Clients : Send("hello", s, a, 0)
    BY <1>1, <1>3, <2>1, <2>2, HelloSent
  <2>3. CASE UNCHANGED inbox
    BY <1>1, <1>3, <2>1, <2>3 DEF HelloInv
  <2> QED
    BY <1>5, <2>2, <2>3 DEF Greet
<1>6. ASSUME NEW s \in SessionIds, End(s)
      PROVE  HelloInv'
  <2>1. /\ reader[s] = "reads" /\ reader'[s] = "gone"
        /\ Send("closed", s, Nobody, 0)
        /\ \A t \in SessionIds \ {s} : reader'[t] = reader[t]
    BY <1>1, <1>6 DEF End
  <2> QED
    BY <1>1, <1>3, <2>1, HelloSent
<1>7. ASSUME NEW s \in SessionIds, NEW line \in Lines, Read(s, line)
      PROVE  HelloInv'
  <2>1. /\ reader[s] = "reads" /\ reader' = reader
        /\ Send(line, s, Nobody, sent[s] + 1)
    BY <1>7 DEF Read
  <2>2. line # "connected" /\ line # "hello"
    BY DEF Lines
  <2> QED
    BY <1>1, <1>3, <2>1, <2>2, HelloSent
<1> QED
  BY <1>2, <1>4, <1>5, <1>6, <1>7 DEF Readers, LiveInv

(* A message of a session: hello makes its agent live, the end of the last *)
(* session of an agent ends that, and either starts the debounce.          *)
LEMMA MessagesFollow == Inv /\ LiveInv /\ Messages => LiveInv'
<1> SUFFICES ASSUME Inv, LiveInv, Messages
             PROVE  LiveInv'
  OBVIOUS
<1> USE ConstantsHold DEF Constants
<1> DEFINE m == Head(inbox)
           s == m.session
<1>1. /\ inbox \in Seq(Message) /\ inbox # << >> /\ Handle(m)
      /\ session \in [SessionIds -> TableEntries]
      /\ HelloInv /\ LiveAreConnected /\ NothingIsStale
      /\ \A t \in SessionIds : session[t].agent # Nobody => session[t].known
  BY DEF Inv, TypeOK, TableInv, Messages, TableEntries, LiveInv
<1>2. m \in Message /\ m = inbox[1] /\ 1 \in DOMAIN inbox
  BY <1>1, TailKeeps
<1>3. s \in SessionIds
  BY <1>2 DEF Message
<1>4. \A t \in SessionIds : session[t] \in TableEntries
  BY <1>1
<1>5. \A j \in DOMAIN inbox : ~(j < 1)
  <2>1. DOMAIN inbox = 1 .. Len(inbox)
    BY <1>1, LenProperties
  <2> QED
    BY <2>1
<1> HIDE DEF m, s
<1>6. ASSUME inbox' = Tail(inbox), UNCHANGED <<reader, live, due, partition, owners, hosts>>,
             m.kind # "connected",
             \A t \in SessionIds : /\ session'[t].agent = session[t].agent
                                   /\ session'[t].known = session[t].known
      PROVE  LiveInv'
  <2>1. HelloInv'
    BY <1>1, <1>6, HelloReceived DEF m
  <2>2. LiveAreConnected'
    BY <1>1, <1>6 DEF LiveAreConnected, Of, Known
  <2>3. NothingIsStale'
    BY <1>1, <1>6 DEF NothingIsStale, Active
  <2> QED
    BY <2>1, <2>2, <2>3 DEF LiveInv
<1>7. CASE Register(m)
  <2>1. /\ m.kind = "connected" /\ inbox' = Tail(inbox)
        /\ session' = [session EXCEPT ![s].known = TRUE]
        /\ UNCHANGED <<reader, live, due, partition, owners, hosts>>
    BY <1>7 DEF Register, Receive, link, split, s
  <2>2. \A t \in SessionIds : /\ session'[t].agent = session[t].agent
                              /\ session'[t].known = (session[t].known \/ t = s)
    <3>1. session'[s].agent = session[s].agent /\ session'[s].known = TRUE
      BY <1>1, <1>3, <1>4, <2>1 DEF TableEntries
    <3>2. \A t \in SessionIds \ {s} : session'[t] = session[t]
      BY <1>1, <2>1
    <3>3. \A t \in SessionIds : session[t].known \in BOOLEAN
      BY <1>4 DEF TableEntries
    <3> QED
      BY <3>1, <3>2, <3>3
  <2>3. HelloInv'
    BY <1>1, <1>3, <2>1, <2>2, HelloReceived DEF m, s
  <2>4. session[s].agent = Nobody \/ session[s].known
    BY <1>1, <1>3
  <2>5. \A a \in Agents : Of(a)' = Of(a)
    BY <1>3, <2>2, <2>4 DEF Of, Known
  <2>6. LiveAreConnected'
    BY <1>1, <2>1, <2>5 DEF LiveAreConnected
  <2>7. NothingIsStale'
    BY <1>1, <2>1 DEF NothingIsStale, Active
  <2> QED
    BY <2>3, <2>6, <2>7 DEF LiveInv
<1>8. CASE Identify(m)
  <2>1. /\ m.kind = "hello" /\ inbox' = Tail(inbox)
        /\ session' = IF session[s].known THEN [session EXCEPT ![s].agent = m.agent]
                      ELSE session
        /\ live' = live \cup {m.agent} /\ due' = Debounce
        /\ UNCHANGED <<reader>>
    BY <1>8 DEF Identify, Receive, link, s
  <2>2. session[s].agent = Nobody /\ session[s].known
    BY <1>1, <1>2, <1>5, <2>1 DEF HelloInv, s
  <2>3. m.agent \in Agents
    <3>1. m.agent \in Clients
      BY <1>2, <2>1 DEF Inv, InboxInv
    <3> QED
      BY <3>1
  <2>4. \A t \in SessionIds : /\ session'[t].known = session[t].known
                              /\ session'[t].agent = IF t = s THEN m.agent
                                                     ELSE session[t].agent
    <3>1. session'[s].agent = m.agent /\ session'[s].known = session[s].known
      BY <1>1, <1>3, <1>4, <2>1, <2>2 DEF TableEntries
    <3>2. \A t \in SessionIds \ {s} : session'[t] = session[t]
      BY <1>1, <2>1, <2>2
    <3> QED
      BY <3>1, <3>2
  <2>5. HelloInv'
    BY <1>1, <1>3, <2>1, <2>4, HelloReceived DEF m, s
  <2>6. \A a \in Agents : Of(a)' = IF a = m.agent THEN Of(a) \cup {s} ELSE Of(a)
    BY <1>3, <2>2, <2>4 DEF Of, Known
  <2>7. LiveAreConnected'
    BY <1>1, <2>1, <2>3, <2>6 DEF LiveAreConnected
  <2>8. NothingIsStale'
    BY <2>1 DEF NothingIsStale, NotDue
  <2> QED
    BY <2>5, <2>7, <2>8 DEF LiveInv
<1>9. CASE Remove(m)
  <2> DEFINE a == session[s].agent
             last == a # Nobody /\ Of(a) \subseteq {s}
  <2>1. /\ m.kind \in {"closed", "garbage"} /\ inbox' = Tail(inbox)
        /\ session' = [session EXCEPT ![s] = NoSession]
        /\ live' = IF last THEN live \ {a} ELSE live
        /\ due' = IF last THEN Debounce ELSE due
        /\ UNCHANGED <<reader, hosts, partition, owners>>
    BY <1>9 DEF Remove, Receive, link, s
  <2>2. \A t \in SessionIds : /\ session'[t].known = (session[t].known /\ t # s)
                              /\ session'[t].agent = IF t = s THEN Nobody
                                                     ELSE session[t].agent
    BY <1>1, <1>3, <1>4, <2>1 DEF TableEntries, NoSession
  <2>3. HelloInv'
    BY <1>1, <1>3, <2>1, <2>2, HelloReceived DEF m, s
  <2>4. \A b \in Agents : Of(b)' = Of(b) \ {s}
    BY <2>2 DEF Of, Known
  <2>5. \A b \in Agents : s \in Of(b) => b = a
    BY DEF Of
  <2>6. LiveAreConnected'
    <3>1. CASE last
      <4>1. \A b \in Agents : Of(b)' # {} <=> Of(b) # {} /\ b # a
        <5>1. \A b \in Agents : b # a => Of(b)' = Of(b)
          BY <2>4, <2>5
        <5>2. \A b \in Agents : b = a => Of(b)' = {}
          BY <2>4, <3>1
        <5> QED
          BY <5>1, <5>2
      <4>2. live' = live \ {a}
        BY <2>1, <3>1
      <4> HIDE DEF a
      <4> QED
        BY <1>1, <4>1, <4>2 DEF LiveAreConnected
    <3>2. CASE ~last
      <4>1. \A b \in Agents : Of(b)' # {} <=> Of(b) # {}
        <5>1. \A b \in Agents : b # a => Of(b)' = Of(b)
          BY <2>4, <2>5
        <5>2. \A b \in Agents : b = a => ~(Of(b) \subseteq {s})
          BY <3>2
        <5> QED
          BY <2>4, <5>1, <5>2
      <4>2. live' = live
        BY <2>1, <3>2
      <4> QED
        BY <1>1, <4>1, <4>2 DEF LiveAreConnected
    <3> QED
      BY <3>1, <3>2
  <2>7. NothingIsStale'
    <3>1. CASE last
      BY <2>1, <3>1 DEF NothingIsStale, NotDue
    <3>2. CASE ~last
      BY <1>1, <2>1, <3>2 DEF NothingIsStale, Active
    <3> QED
      BY <3>1, <3>2
  <2> QED
    BY <2>3, <2>6, <2>7 DEF LiveInv
<1>10. CASE Reject(m) \/ Call(m) \/ PollLater(m)
  <2>1. /\ m.kind # "connected" /\ inbox' = Tail(inbox)
        /\ UNCHANGED <<reader, live, session, due, partition, owners, hosts>>
    BY <1>10 DEF Reject, Call, PollLater, Receive, Lines, link, split, table
  <2> QED
    BY <1>6, <2>1
<1>11. CASE Publish(m) \/ PollNow(m)
  <2>1. /\ m.kind # "connected" /\ inbox' = Tail(inbox)
        /\ UNCHANGED <<reader, live, due, partition, owners, hosts>>
        /\ \E e : session' = [session EXCEPT ![s].events = e]
    BY <1>11 DEF Publish, PollNow, Receive, Lines, link, split, s
  <2>2. \A t \in SessionIds : /\ session'[t].agent = session[t].agent
                              /\ session'[t].known = session[t].known
    BY <1>3, <1>4, <2>1 DEF TableEntries
  <2> QED
    BY <1>6, <2>1, <2>2
<1> QED
  BY <1>1, <1>7, <1>8, <1>9, <1>10, <1>11 DEF Handle

LEMMA LoopFollows ==
    Inv /\ LiveInv /\ (Drained \/ SetOwners \/ Tick \/ UNCHANGED vars) => LiveInv'
<1> SUFFICES ASSUME Inv, LiveInv, Drained \/ SetOwners \/ Tick \/ UNCHANGED vars
             PROVE  LiveInv'
  OBVIOUS
<1> USE ConstantsHold DEF Constants
<1>1. UNCHANGED <<reader, inbox, session, live, hosts, partition>>
  BY DEF Drained, SetOwners, Tick, vars, link, table, split
<1>2. HelloInv' /\ LiveAreConnected'
  BY <1>1, SameAgents DEF LiveInv
<1>3. /\ due \in NotDue .. Debounce
      /\ due' = due \/ due' = Less(due)
      /\ owners' = owners \/ owners' = Active
  BY DEF Inv, TypeOK, Drained, SetOwners, Tick, vars, split
<1>4. due' = NotDue => due = NotDue
  BY <1>3 DEF Less, NotDue
<1>5. NothingIsStale'
  BY <1>1, <1>3, <1>4 DEF LiveInv, NothingIsStale, Active
<1> QED
  BY <1>2, <1>5 DEF LiveInv

LEMMA EventsFollow ==
    ASSUME Inv, LiveInv,
           \/ \E k \in Controls : Key(k)
           \/ \E to \in TaskTargets : TaskEvent(to)
           \/ \E F \in SUBSET SessionIds : Resolve(F)
    PROVE  LiveInv'
<1>1. /\ UNCHANGED <<reader, inbox, live, split>>
      /\ session \in [SessionIds -> TableEntries]
  BY DEF Key, TaskEvent, Resolve, link, table, Inv, TypeOK, TableEntries
<1>2. \A s \in SessionIds :
         session'[s] = session[s] \/ \E e : session'[s] = [session[s] EXCEPT !.events = e]
  BY DEF Key, TaskEvent, Resolve, table
<1>3. \A s \in SessionIds : /\ session'[s].agent = session[s].agent
                            /\ session'[s].known = session[s].known
  <2>1. \A s \in SessionIds : session[s] \in TableEntries
    BY <1>1
  <2> QED
    BY <1>2, <2>1 DEF TableEntries
<1>4. HelloInv' /\ LiveAreConnected'
  BY <1>1, <1>3, SameAgents DEF LiveInv
<1>5. NothingIsStale'
  BY <1>1 DEF LiveInv, NothingIsStale, Active, split
<1> QED
  BY <1>4, <1>5 DEF LiveInv

LEMMA ProbesFollow == \A H \in SUBSET Hosts : Inv /\ LiveInv /\ Probe(H) => LiveInv'
<1> SUFFICES ASSUME NEW H \in SUBSET Hosts, Inv, LiveInv, Probe(H)
             PROVE  LiveInv'
  OBVIOUS
<1> USE ConstantsHold DEF Constants
<1>1. UNCHANGED <<reader, inbox, session, live>> /\ hosts' = H
  BY DEF Probe, link, table
<1>2. HelloInv' /\ LiveAreConnected'
  BY <1>1, SameAgents DEF LiveInv
<1>3. CASE H # hosts
  <2>1. due' = Debounce
    BY <1>3 DEF Probe
  <2> QED
    BY <1>2, <2>1 DEF LiveInv, NothingIsStale, NotDue
<1>4. CASE H = hosts /\ due = 0
  <2>1. partition' = Compute(Active) /\ owners' = Active
    BY <1>4 DEF Probe, Repartition
  <2> QED
    BY <1>1, <1>2, <1>4, <2>1 DEF LiveInv, NothingIsStale, Active
<1>5. CASE H = hosts /\ due # 0
  <2>1. UNCHANGED <<partition, due, owners>>
    BY <1>5 DEF Probe
  <2> QED
    BY <1>1, <1>2, <1>5, <2>1 DEF LiveInv, NothingIsStale, Active
<1> QED
  BY <1>3, <1>4, <1>5

LEMMA LiveInvariant == Spec => []LiveInv
<1>1. Init => LiveInv
  <2> SUFFICES ASSUME Init
               PROVE  LiveInv
    OBVIOUS
  <2>1. DOMAIN inbox = {}
    BY DEF Init
  <2>2. \A s \in SessionIds : session[s] = NoSession /\ reader[s] = "new"
    BY DEF Init
  <2>3. HelloInv
    BY <2>1, <2>2 DEF HelloInv, NoSession
  <2>4. \A a \in Agents : Of(a) = {}
    BY <2>2 DEF Of, Known, NoSession
  <2>5. LiveAreConnected
    BY <2>4 DEF LiveAreConnected, Init
  <2>6. Active = hosts
    BY DEF Init, Active
  <2>7. NothingIsStale
    BY <2>6 DEF NothingIsStale, Init
  <2> QED
    BY <2>3, <2>5, <2>7 DEF LiveInv
<1>2. Inv /\ LiveInv /\ [Next]_vars => LiveInv'
  BY ReadersFollow, MessagesFollow, LoopFollows, EventsFollow, ProbesFollow
     DEF Next, Probes, Resolution
<1> QED
  BY <1>1, <1>2, Invariant, PTL DEF Spec

(* The daemon counts an agent among the active ones (session_agents) just  *)
(* when a session of it is registered: a hello finds its session, and only *)
(* the last session of an agent takes it away (handle_hello,               *)
(* remove_session).                                                        *)
THEOREM LiveIsConnected == Spec => []LiveAreConnected
BY LiveInvariant, PTL DEF LiveInv

(* While no repartition is pending, keys and cards belong to the agents    *)
(* that are active now: every change of the active set has started the     *)
(* debounce, and only the repartition ends it (pending_repartition_at).    *)
(* With liveness, which TLC checks, the split settles after any change.    *)
THEOREM NoStalePartition == Spec => []NothingIsStale
BY LiveInvariant, PTL DEF LiveInv

-----------------------------------------------------------------------------
(* Positions of a deck: the order of the active agents names each of them  *)
(* and no other, and equal shares give each of them a position.            *)
Names(s, a) == \E i \in 1 .. Len(s) : s[i] = a

LEMMA JoinNames ==
    ASSUME NEW S, NEW s \in Seq(S), NEW t \in Seq(S)
    PROVE  /\ s \o t \in Seq(S) /\ Len(s \o t) = Len(s) + Len(t)
           /\ \A a : Names(s, a) \/ Names(t, a) => Names(s \o t, a)
<1>1. /\ s \o t \in Seq(S) /\ Len(s \o t) = Len(s) + Len(t)
      /\ \A i \in 1 .. Len(s) + Len(t) :
            (s \o t)[i] = IF i <= Len(s) THEN s[i] ELSE t[i - Len(s)]
  BY ConcatProperties
<1>2. Len(s) \in Nat /\ Len(t) \in Nat
  OBVIOUS
<1>3. ASSUME NEW i \in 1 .. Len(s)
      PROVE  i \in 1 .. Len(s \o t) /\ (s \o t)[i] = s[i]
  BY <1>1, <1>2
<1>4. ASSUME NEW i \in 1 .. Len(t)
      PROVE  i + Len(s) \in 1 .. Len(s \o t) /\ (s \o t)[i + Len(s)] = t[i]
  BY <1>1, <1>2
<1> QED
  BY <1>1, <1>3, <1>4 DEF Names

LEMMA OrderNamesActive ==
    ASSUME NEW active \in SUBSET Agents, active # {}
    PROVE  /\ InOrder(active) \in Seq(active) /\ Len(InOrder(active)) \in 1 .. 4
           /\ \A a \in active : Names(InOrder(active), a)
<1> DEFINE one == If(Codex, active)
           two == one \o If(Claude, active)
           three == two \o If(ZCode, active)
           four == three \o If(Hermes, active)
<1>1. ASSUME NEW a
      PROVE  /\ If(a, active) \in Seq(active) /\ Len(If(a, active)) \in {0, 1}
             /\ a \in active => Names(If(a, active), a)
  BY DEF If, Names
<1>2. two \in Seq(active) /\ Len(two) = Len(one) + Len(If(Claude, active))
  BY <1>1, JoinNames
<1>3. Codex \in active => Names(two, Codex)
  BY <1>1, JoinNames
<1>4. Claude \in active => Names(two, Claude)
  BY <1>1, JoinNames
<1> HIDE DEF two
<1>5. three \in Seq(active) /\ Len(three) = Len(two) + Len(If(ZCode, active))
  <2>1. two \in Seq(active) /\ If(ZCode, active) \in Seq(active)
    BY <1>1, <1>2
  <2> QED
    BY <2>1, JoinNames
<1>6. \A a : Names(two, a) => Names(three, a)
  BY <1>1, <1>2, JoinNames
<1>7. ZCode \in active => Names(three, ZCode)
  BY <1>1, <1>2, JoinNames
<1> HIDE DEF three
<1>8. four \in Seq(active) /\ Len(four) = Len(three) + Len(If(Hermes, active))
  <2>1. three \in Seq(active) /\ If(Hermes, active) \in Seq(active)
    BY <1>1, <1>5
  <2> QED
    BY <2>1, JoinNames
<1>9. \A a : Names(three, a) => Names(four, a)
  BY <1>1, <1>5, JoinNames
<1>10. Hermes \in active => Names(four, Hermes)
  BY <1>1, <1>5, JoinNames
<1>11. four = InOrder(active)
  BY DEF InOrder, two, three
<1> HIDE DEF one, four
<1>12. \A a \in active : Names(four, a)
  BY <1>3, <1>4, <1>6, <1>7, <1>9, <1>10 DEF Agents
<1>13. Len(four) \in 0 .. 4
  <2>1. Len(one) \in {0, 1}
    BY <1>1 DEF one
  <2>2. /\ Len(If(Claude, active)) \in {0, 1} /\ Len(If(ZCode, active)) \in {0, 1}
        /\ Len(If(Hermes, active)) \in {0, 1}
    BY <1>1
  <2>3. /\ Len(two) = Len(one) + Len(If(Claude, active))
        /\ Len(three) = Len(two) + Len(If(ZCode, active))
        /\ Len(four) = Len(three) + Len(If(Hermes, active))
    BY <1>2, <1>5, <1>8
  <2>4. ASSUME NEW c \in {0, 1}, NEW d \in {0, 1}, NEW e \in {0, 1}, NEW f \in {0, 1}
        PROVE  c + d + e + f \in 0 .. 4
    OBVIOUS
  <2>5. Len(four) = Len(one) + Len(If(Claude, active)) + Len(If(ZCode, active))
                      + Len(If(Hermes, active))
    BY <2>3
  <2> QED
    BY <2>1, <2>2, <2>4, <2>5
<1>14. Len(four) # 0
  BY <1>12 DEF Names
<1> QED
  BY <1>8, <1>11, <1>12, <1>13, <1>14

(* The position where the share of the agent at place i of the order       *)
(* begins.                                                                 *)
LEMMA ShareBegins ==
    ASSUME NEW w \in Nat \ {0}, NEW i \in 0 .. 3
    PROVE  i * w \in Nat /\ (i * w) \div w = i
<1>1. 0 \div w = 0 /\ w \div w = 1
  OBVIOUS
<1>2. (2 * w) \div w = 2
  OBVIOUS
<1>3. (3 * w) \div w = 3
  OBVIOUS
<1> QED
  BY <1>1, <1>2, <1>3

LEMMA SharesReachAll ==
    ASSUME NEW n \in Nat, n >= 4, NEW active \in SUBSET Agents, active # {}
    PROVE  /\ \A k \in 0 .. n - 1 : Shares(n, active)[k] \in active
           /\ \A a \in active : \E k \in 0 .. n - 1 : Shares(n, active)[k] = a
<1> DEFINE order == InOrder(active)
           m == Len(order)
           w == n \div m
           share(k) == IF w = 0 \/ k \div w >= m THEN m ELSE k \div w + 1
<1>1. /\ order \in Seq(active) /\ m \in 1 .. 4
      /\ \A a \in active : \E i \in 1 .. m : order[i] = a
  BY OrderNamesActive DEF Names
<1>2. Shares(n, active) = [k \in 0 .. n - 1 |-> order[share(k)]]
  BY DEF Shares
<1> HIDE DEF order
<1>3. w \in Nat \ {0} /\ m * w <= n
  <2>1. m = 1 \/ m = 2 \/ m = 3 \/ m = 4
    BY <1>1
  <2> HIDE DEF m
  <2> QED
    BY <2>1
<1> HIDE DEF m, w
<1>4. ASSUME NEW k \in 0 .. n - 1
      PROVE  share(k) \in 1 .. m
  <2>1. k \div w \in Nat
    BY <1>3
  <2> QED
    BY <1>1, <2>1
<1>5. ASSUME NEW a \in active
      PROVE  \E k \in 0 .. n - 1 : order[share(k)] = a
  <2>1. PICK i \in 1 .. m : order[i] = a
    BY <1>1
  <2> DEFINE k == (i - 1) * w
  <2>2. k \in Nat /\ k \div w = i - 1
    BY <1>1, <1>3, ShareBegins
  <2>3. k < n
    <3>1. i = 1 \/ i = 2 \/ i = 3 \/ i = 4
      BY <1>1
    <3>2. m = 1 \/ m = 2 \/ m = 3 \/ m = 4
      BY <1>1
    <3> QED
      BY <1>3, <3>1, <3>2
  <2>4. share(k) = i
    <3> HIDE DEF k
    <3> QED
      BY <1>1, <1>3, <2>2
  <2> QED
    BY <2>1, <2>2, <2>3, <2>4
<1>6. \A k \in 0 .. n - 1 : order[share(k)] \in active
  <2> HIDE DEF share
  <2>1. \A i \in 1 .. m : order[i] \in active
    BY <1>1 DEF m
  <2> QED
    BY <1>4, <2>1
<1> QED
  BY <1>2, <1>5, <1>6

LEMMA PositionsReachAll ==
    ASSUME NEW n \in Nat, n >= 4, NEW active \in SUBSET Agents
    PROVE  LET owner == TaskSlotOwners(n, active)
           IN  /\ \A k \in DOMAIN owner : owner[k] \in active \cup {Nobody}
               /\ \A a \in active : \E k \in DOMAIN owner : owner[k] = a
<1> DEFINE owner == TaskSlotOwners(n, active)
<1>0. {0, 2, 3} \subseteq 0 .. n - 1
  OBVIOUS
<1>1. CASE active = {Codex, ZCode, Hermes}
  <2>1. owner = [k \in 0 .. n - 1 |-> IF k \in {0, 1} THEN Codex
                                      ELSE IF k \in {2, 5} THEN Hermes
                                      ELSE IF k \in {3, 4} THEN ZCode
                                      ELSE Nobody]
    BY <1>1 DEF TaskSlotOwners
  <2>2. owner[0] = Codex /\ owner[2] = Hermes /\ owner[3] = ZCode /\ DOMAIN owner = 0 .. n - 1
    BY <1>0, <2>1
  <2>3. \A k \in DOMAIN owner : owner[k] \in active \cup {Nobody}
    BY <1>1, <2>1
  <2> HIDE DEF owner
  <2> QED
    BY <1>0, <1>1, <2>2, <2>3 DEF owner
<1>2. CASE active = {}
  BY <1>2 DEF TaskSlotOwners
<1>3. CASE active # {} /\ active # {Codex, ZCode, Hermes}
  <2>1. owner = Shares(n, active)
    BY <1>3 DEF TaskSlotOwners
  <2>2. DOMAIN Shares(n, active) = 0 .. n - 1
    BY DEF Shares
  <2> QED
    BY <1>3, <2>1, <2>2, SharesReachAll
<1> QED
  BY <1>1, <1>2, <1>3

(* A deck with a position for each of the four agents has one for the      *)
(* cards of every active agent and keeps none for an agent that is not,    *)
(* whichever are active (task_slot_owners).                                *)
THEOREM EveryAgentHasAPosition ==
    DeckSize >= 4 => (Spec => []PositionsAreShared)
<1>1. ASSUME DeckSize >= 4
      PROVE  Inv => PositionsAreShared
  <2> SUFFICES ASSUME Inv, NEW others \in SUBSET (Agents \ (Clients \cup Hosts))
               PROVE  LET active == owners \cup others
                          owner == TaskSlotOwners(DeckSize, active)
                      IN  /\ \A k \in DOMAIN owner : owner[k] \in active \cup {Nobody}
                          /\ \A a \in active : \E k \in DOMAIN owner : owner[k] = a
    BY DEF PositionsAreShared
  <2>1. owners \cup others \in SUBSET Agents
    BY DEF Inv, TypeOK
  <2>2. DeckSize \in Nat
    BY SessionsAssumption
  <2> QED
    BY <1>1, <2>1, <2>2, PositionsReachAll
<1>2. CASE DeckSize >= 4
  <2>1. Inv => PositionsAreShared
    BY <1>1, <1>2
  <2> QED
    BY <2>1, Invariant, PTL
<1>3. CASE ~(DeckSize >= 4)
  BY <1>3, PTL
<1> QED
  BY <1>2, <1>3
=============================================================================

------------------------------ MODULE Sessions ------------------------------
(***************************************************************************)
(* Agent sessions of the daemon (daemon.rs): a reader thread per           *)
(* connection sends messages to the loop, which registers sessions,        *)
(* answers requests, keeps long polls, routes keys to the agent that owns  *)
(* them, and recomputes who owns them some time after the set of active    *)
(* agents has changed.                                                     *)
(*                                                                         *)
(* One pass of the loop is: all messages, the keys the controllers report, *)
(* the probes and the repartition, the polls.  Answers are observed in     *)
(* "reply", keys that are down in "held".                                  *)
(***************************************************************************)
EXTENDS Routing, FiniteSets

CONSTANTS
    SessionIds,     \* numbers the acceptor hands out, upwards
    Clients,        \* agents whose proxies connect
    Hosts,          \* agents that a desktop program or the RP2040 can activate
    Controls,       \* agent keys that are pressed
    Serial,         \* whether the RP2040 is connected
    DeckSize,       \* task_slot_count
    Debounce,       \* REPARTITION_DEBOUNCE, in ticks
    PollTime,       \* timeout of a long poll, in ticks
    MaxRequests,    \* bound of the model: lines a client sends
    MaxTaskEvents,  \* bound of the model: presses of task cards
    InboxLimit      \* bound of the model: messages not yet drained

ASSUME SessionsAssumption ==
    /\ SessionIds \subseteq Nat
    /\ Clients \subseteq Agents
    /\ Hosts \subseteq Agents
    /\ Controls \subseteq Keys
    /\ Serial \in BOOLEAN
    /\ Codex \in Hosts => Serial
    /\ DeckSize \in Nat
    /\ Debounce \in Nat \ {0}
    /\ PollTime \in Nat \ {0}
    /\ MaxRequests \in Nat
    /\ MaxTaskEvents \in Nat
    /\ InboxLimit \in Nat

VARIABLES
    reader,     \* reader thread: new, greets, reads, gone
    sent,       \* lines it has read so far
    inbox,      \* session_rx
    session,    \* sessions
    poll,       \* pending_polls
    queue,      \* routing: key and partition events of each agent
    live,       \* session_agents
    hosts,      \* codex_hardware_active, *_desktop_active
    due,        \* pending_repartition_at, as time left
    partition,  \* bridge.partition
    owners,     \* the active set the board's slot owners were computed from
    step,       \* where the loop stands
    reply,      \* what each client has seen of its requests
    held,       \* where the press of each key that is down went
    task        \* the target of each press of a task card

link == <<reader, sent>>
table == <<session, poll, live>>
split == <<hosts, due, partition, owners>>
seen == <<reply, held, task>>
vars == <<link, inbox, table, queue, split, step, seen>>

Requests == 1 .. MaxRequests
TaskEvents == 1 .. MaxTaskEvents
Layout == 0     \* the event layout_changed
NotDue == -1

Events == [type : {"press", "release"}, key : Controls]
            \cup [type : {"partition"}, key : {Nobody}]
Lines == {"poll", "wait", "publish", "other", "garbage"}
Message == [kind : {"connected", "hello", "closed"} \cup Lines,
            session : SessionIds, agent : Clients \cup {Nobody},
            n : {0} \cup Requests]

NoSession == [known |-> FALSE, agent |-> Nobody, events |-> << >>]
NoPoll == [n |-> 0, left |-> 0, agent |-> Nobody]
Polls == [n : Requests, left : 0 .. PollTime, agent : Clients]

Up == "up"
Hid == "hid"        \* sent to the RP2040
Dropped == "dropped"

Known == {s \in SessionIds : session[s].known}
Of(a) == {s \in Known : session[s].agent = a}
Active == live \cup hosts       \* effective_active_set

-----------------------------------------------------------------------------
Init ==
    /\ reader = [s \in SessionIds |-> "new"]
    /\ sent = [s \in SessionIds |-> 0]
    /\ inbox = << >>
    /\ session = [s \in SessionIds |-> NoSession]
    /\ poll = [s \in SessionIds |-> NoPoll]
    /\ queue = [a \in Agents |-> << >>]
    /\ live = {}
    /\ hosts \in SUBSET (Hosts \ {Codex})
    /\ due = NotDue
    /\ partition = Compute(hosts)
    /\ owners = hosts
    /\ step = "messages"
    /\ reply = [s \in SessionIds |-> [n \in Requests |-> "none"]]
    /\ held = [k \in Controls |-> Up]
    /\ task = << >>

-----------------------------------------------------------------------------
(* Reader threads: handle_session, forward_mcp_line.                       *)
Send(kind, s, a, n) ==
    /\ Len(inbox) < InboxLimit
    /\ inbox' = Append(inbox, [kind |-> kind, session |-> s, agent |-> a, n |-> n])

Connect(s) ==
    /\ reader[s] = "new"
    /\ Send("connected", s, Nobody, 0)
    /\ reader' = [reader EXCEPT ![s] = "greets"]
    /\ UNCHANGED <<sent, table, queue, split, step, seen>>

(* The first line is a hello, or it is not and is read like the others.    *)
Greet(s) ==
    /\ reader[s] = "greets"
    /\ \/ \E a \in Clients : Send("hello", s, a, 0)
       \/ UNCHANGED inbox
    /\ reader' = [reader EXCEPT ![s] = "reads"]
    /\ UNCHANGED <<sent, table, queue, split, step, seen>>

Read(s, line) ==
    /\ reader[s] = "reads" /\ sent[s] < MaxRequests
    /\ Send(line, s, Nobody, sent[s] + 1)
    /\ sent' = [sent EXCEPT ![s] = @ + 1]
    /\ UNCHANGED <<reader, table, queue, split, step, seen>>

End(s) ==
    /\ reader[s] = "reads"
    /\ Send("closed", s, Nobody, 0)
    /\ reader' = [reader EXCEPT ![s] = "gone"]
    /\ UNCHANGED <<sent, table, queue, split, step, seen>>

-----------------------------------------------------------------------------
(* Messages, in the order they were sent.                                  *)
Receive(kinds, m) ==
    /\ step = "messages" /\ m.kind \in kinds
    /\ inbox' = Tail(inbox)

Register(m) ==
    /\ Receive({"connected"}, m)
    /\ session' = [session EXCEPT ![m.session].known = TRUE]
    /\ UNCHANGED <<link, poll, live, queue, split, step, seen>>

(* handle_hello.                                                           *)
Identify(m) ==
    /\ Receive({"hello"}, m)
    /\ session' = IF session[m.session].known
                  THEN [session EXCEPT ![m.session].agent = m.agent]
                  ELSE session
    /\ live' = live \cup {m.agent}
    /\ due' = Debounce
    /\ UNCHANGED <<link, poll, queue, hosts, partition, owners, step, seen>>

(* Mutant: pending polls of a closed session are kept.                     *)
RemoveKeepingPoll(m) ==
    /\ Receive({"closed", "garbage"}, m)
    /\ LET s == m.session
           a == session[s].agent
           last == a # Nobody /\ Of(a) \subseteq {s}
       IN  /\ session' = [session EXCEPT ![s] = NoSession]
           /\ live' = IF last THEN live \ {a} ELSE live
           /\ due' = IF last THEN Debounce ELSE due
    /\ UNCHANGED <<link, poll, queue, hosts, partition, owners, step, seen>>

(* Disconnected and Error.  After an invalid line the reader goes on, but  *)
(* the loop has forgotten the session.                                     *)
Remove(m) ==
    /\ Receive({"closed", "garbage"}, m)
    /\ LET s == m.session
           a == session[s].agent
           last == a # Nobody /\ Of(a) \subseteq {s}
       IN  /\ session' = [session EXCEPT ![s] = NoSession]
           /\ poll' = [poll EXCEPT ![s] = NoPoll]
           /\ live' = IF last THEN live \ {a} ELSE live
           /\ due' = IF last THEN Debounce ELSE due
    /\ UNCHANGED <<link, queue, hosts, partition, owners, step, seen>>

(* What a client sees when an answer to its request n is sent; nothing is  *)
(* sent to a session that is not registered.                               *)
Answered(old) ==
    IF old = "none" THEN "answered" ELSE IF old = "owed" THEN "given" ELSE "twice"

Answer(m) ==
    reply' = IF m.session \in Known
             THEN [reply EXCEPT ![m.session][m.n] = Answered(@)]
             ELSE reply

(* Requests that are answered at once; one of a session without agent is   *)
(* answered with an error, whatever it is.                                 *)
Reject(m) ==
    /\ Receive(Lines \ {"garbage"}, m)
    /\ session[m.session].agent = Nobody
    /\ Answer(m)
    /\ UNCHANGED <<link, table, queue, split, step, held, task>>

Call(m) ==
    /\ Receive({"other", "publish"}, m)
    /\ session[m.session].agent # Nobody
    /\ Answer(m)
    /\ UNCHANGED <<link, table, queue, split, step, held, task>>

(* publish_tasks that is accepted: push_session_event, capped.             *)
Publish(m) ==
    /\ Receive({"publish"}, m)
    /\ session[m.session].agent # Nobody
    /\ session' = [session EXCEPT ![m.session].events = Push(@, Layout)]
    /\ Answer(m)
    /\ UNCHANGED <<link, poll, live, queue, split, step, held, task>>

(* poll_events.                                                            *)
HasEvents(s) == session[s].events # << >> \/ queue[session[s].agent] # << >>

(* Mutant: the poll that waits is dropped although it is not replaced.     *)
PollNowCancelling(m) ==
    /\ Receive({"poll", "wait"}, m)
    /\ session[m.session].agent # Nobody
    /\ m.kind = "poll" \/ HasEvents(m.session)
    /\ session' = [session EXCEPT ![m.session].events = << >>]
    /\ queue' = [queue EXCEPT ![session[m.session].agent] = << >>]
    /\ poll' = [poll EXCEPT ![m.session] = NoPoll]
    /\ Answer(m)
    /\ UNCHANGED <<link, live, split, step, held, task>>

PollNow(m) ==
    /\ Receive({"poll", "wait"}, m)
    /\ session[m.session].agent # Nobody
    /\ m.kind = "poll" \/ HasEvents(m.session)
    /\ session' = [session EXCEPT ![m.session].events = << >>]
    /\ queue' = [queue EXCEPT ![session[m.session].agent] = << >>]
    /\ Answer(m)
    /\ UNCHANGED <<link, poll, live, split, step, held, task>>

(* Mutant: the request is answered with null as well.                      *)
PollLaterAndAnswer(m) ==
    /\ Receive({"wait"}, m)
    /\ session[m.session].agent # Nobody
    /\ ~HasEvents(m.session)
    /\ poll' = [poll EXCEPT ![m.session] = [n |-> m.n, left |-> PollTime,
                                             agent |-> session[m.session].agent]]
    /\ Answer(m)
    /\ UNCHANGED <<link, session, live, queue, split, step, held, task>>

(* The answer is deferred; a poll of the session that waits is dropped.    *)
PollLater(m) ==
    /\ Receive({"wait"}, m)
    /\ session[m.session].agent # Nobody
    /\ ~HasEvents(m.session)
    /\ poll' = [poll EXCEPT ![m.session] = [n |-> m.n, left |-> PollTime,
                                             agent |-> session[m.session].agent]]
    /\ reply' = [reply EXCEPT ![m.session][m.n] = "owed"]
    /\ UNCHANGED <<link, session, live, queue, split, step, held, task>>

Handle(m) ==
    \/ Register(m) \/ Identify(m) \/ Remove(m) \/ Reject(m)
    \/ Call(m) \/ Publish(m) \/ PollNow(m) \/ PollLater(m)

Drained ==
    /\ step = "messages" /\ inbox = << >>
    /\ step' = "keys"
    /\ UNCHANGED <<link, inbox, table, queue, split, seen>>

-----------------------------------------------------------------------------
(* poll_controller and route_task_device_events, for an agent key that is  *)
(* not a task card: to the queue of the agent that owns it, to the RP2040  *)
(* when that is Codex or nobody, and nowhere without RP2040 and owner.     *)
Destination(k) ==
    CASE partition[k] \in Agents \ {Codex} -> partition[k]
      [] partition[k] \in {Codex, Nobody} /\ Serial -> Hid
      [] partition[k] = Codex /\ ~Serial -> Codex
      [] OTHER -> Dropped

Key(k) ==
    /\ step = "keys"
    /\ LET to == Destination(k)
           type == IF held[k] = Up THEN "press" ELSE "release"
       IN  /\ held' = [held EXCEPT ![k] = IF @ = Up THEN to ELSE Up]
           /\ queue' = IF to \in Agents
                       THEN [queue EXCEPT ![to] = Push(@, [type |-> type, key |-> k])]
                       ELSE queue
    /\ UNCHANGED <<link, inbox, table, split, step, reply, task>>

(* Mutant: a catalog action goes to every session of the agent.            *)
CatalogToAll(a) == Of(a)

(* The sessions that get an event of a task card: the newest session of    *)
(* the agent for a catalog action, every session of the agent for a card   *)
(* the daemon feeds itself, the owner for any other card.                  *)
Catalog(a) == {s \in Of(a) : \A t \in Of(a) : t <= s}

Targets(to) ==
    CASE to.kind = "catalog" -> Catalog(to.agent)
      [] to.kind = "feed" -> Of(to.agent)
      [] to.kind = "owner" -> {to.session} \cap Known

(* Cards belong to a session that has been answered as an agent, or that   *)
(* has been and is gone.                                                   *)
HasPublished(s) ==
    /\ \E n \in Requests : reply[s][n] = "answered"
    /\ s \in Known => session[s].agent # Nobody

TaskTargets ==
    [kind : {"catalog"}, agent : Clients]
    \cup [kind : {"feed"}, agent : Clients \ {Codex}]
    \cup [kind : {"owner"}, session : SessionIds]

TaskEvent(to) ==
    /\ step = "keys"
    /\ Len(task) < MaxTaskEvents
    /\ to.kind = "owner" => HasPublished(to.session)
    /\ task' = Append(task, to)
    /\ LET e == Len(task) + 1
           put(events) == IF to.kind = "catalog" THEN Push(events, e)
                          ELSE Append(events, e)
       IN  session' = [s \in SessionIds |->
                          IF s \in Targets(to)
                          THEN [session[s] EXCEPT !.events = put(@)]
                          ELSE session[s]]
    /\ UNCHANGED <<link, inbox, poll, live, queue, split, step, reply, held>>

(* The owners of the board follow the active set at once.                  *)
SetOwners ==
    /\ step = "keys"
    /\ owners' = Active
    /\ step' = "probes"
    /\ UNCHANGED <<link, inbox, table, queue, hosts, due, partition, seen>>

Repartition ==
    /\ partition' = Compute(Active)
    /\ queue' = [a \in Agents |->
                    IF a \in Active
                    THEN Push(queue[a], [type |-> "partition", key |-> Nobody])
                    ELSE queue[a]]
    /\ due' = NotDue

(* Mutant: a repartition that is due starts its wait again.                *)
ProbePostponing(H) ==
    /\ step = "probes"
    /\ hosts' = H
    /\ due' = IF H # hosts \/ due # NotDue THEN Debounce ELSE due
    /\ step' = "polls"
    /\ UNCHANGED <<link, inbox, table, queue, partition, owners, seen>>

(* Status frames of the RP2040 and the desktop programs; then the          *)
(* repartition, if it is due.                                              *)
Probe(H) ==
    /\ step = "probes"
    /\ hosts' = H
    /\ CASE H # hosts -> due' = Debounce /\ UNCHANGED <<partition, queue, owners>>
         [] H = hosts /\ due = 0 -> Repartition /\ owners' = Active
         [] OTHER -> UNCHANGED <<partition, queue, due, owners>>
    /\ step' = "polls"
    /\ UNCHANGED <<link, inbox, table, seen>>

Waiting(a) == {s \in SessionIds : poll[s].agent = a}

(* Of several polls of one agent the oldest drains its queue; the model    *)
(* leaves open which one that is.                                          *)
FirstPolls(F) ==
    /\ \A s \in F : poll[s] # NoPoll
    /\ \A a \in Agents :
          IF queue[a] = << >> \/ Waiting(a) = {} THEN F \cap Waiting(a) = {}
          ELSE \E s \in SessionIds : F \cap Waiting(a) = {s}

(* Mutant: the deadline is not looked at.                                  *)
DoneWithEvents(F) == F \cup {s \in SessionIds : session[s].events # << >> /\ poll[s] # NoPoll}

Done(F) ==
    F \cup {s \in SessionIds :
               poll[s] # NoPoll /\ (session[s].events # << >> \/ poll[s].left = 0)}

(* resolve_pending_polls.                                                  *)
Resolve(F) ==
    /\ step = "polls"
    /\ FirstPolls(F)
    /\ poll' = [s \in SessionIds |-> IF s \in Done(F) THEN NoPoll ELSE poll[s]]
    /\ session' = [s \in SessionIds |->
          IF s \in Done(F) THEN [session[s] EXCEPT !.events = << >>] ELSE session[s]]
    /\ queue' = [a \in Agents |-> IF Waiting(a) \cap Done(F) # {} THEN << >> ELSE queue[a]]
    /\ reply' = [s \in SessionIds |->
          IF s \in Done(F) \cap Known
          THEN [reply[s] EXCEPT ![poll[s].n] = Answered(@)] ELSE reply[s]]
    /\ step' = "messages"
    /\ UNCHANGED <<link, inbox, live, split, held, task>>

-----------------------------------------------------------------------------
Less(t) == IF t > 0 THEN t - 1 ELSE t

Tick ==
    /\ due > 0 \/ \E s \in SessionIds : poll[s].left > 0
    /\ due' = Less(due)
    /\ poll' = [s \in SessionIds |-> [poll[s] EXCEPT !.left = Less(@)]]
    /\ UNCHANGED <<link, inbox, session, live, queue, hosts, partition, owners,
                   step, seen>>

Readers ==
    \E s \in SessionIds :
        \/ Connect(s) \/ Greet(s) \/ End(s)
        \/ \E line \in Lines : Read(s, line)

Messages == inbox # << >> /\ Handle(Head(inbox))
Probes == \E H \in SUBSET Hosts : Probe(H)
Resolution == \E F \in SUBSET SessionIds : Resolve(F)

Next ==
    \/ Readers
    \/ Messages \/ Drained
    \/ \E k \in Controls : Key(k)
    \/ \E to \in TaskTargets : TaskEvent(to)
    \/ SetOwners \/ Probes \/ Resolution
    \/ Tick

Spec == Init /\ [][Next]_vars

(* The loop runs and the clock ticks; nothing is asked of clients or users. *)
FairSpec ==
    /\ Spec
    /\ WF_vars(Messages) /\ WF_vars(Drained) /\ WF_vars(SetOwners)
    /\ WF_vars(Probes) /\ WF_vars(Resolution) /\ WF_vars(Tick)

-----------------------------------------------------------------------------
Replies == {"none", "owed", "answered", "given", "twice"}

TypeOK ==
    /\ reader \in [SessionIds -> {"new", "greets", "reads", "gone"}]
    /\ sent \in [SessionIds -> 0 .. MaxRequests]
    /\ inbox \in Seq(Message)
    /\ session \in [SessionIds -> [known : BOOLEAN, agent : Clients \cup {Nobody},
                                   events : Seq({Layout} \cup TaskEvents)]]
    /\ poll \in [SessionIds -> Polls \cup {NoPoll}]
    /\ queue \in [Agents -> Seq(Events)]
    /\ \A a \in Agents : Len(queue[a]) <= QueueCap
    /\ live \in SUBSET Clients
    /\ hosts \in SUBSET Hosts
    /\ due \in NotDue .. Debounce
    /\ partition \in Partitions
    /\ owners \in SUBSET Agents
    /\ step \in {"messages", "keys", "probes", "polls"}
    /\ reply \in [SessionIds -> [Requests -> Replies]]
    /\ held \in [Controls -> Agents \cup {Up, Hid, Dropped}]
    /\ task \in Seq(TaskTargets)

(* No request is answered twice: "replying now would leak a null result    *)
(* and later duplicate the response" (handle_request).                     *)
AnsweredOnce == \A s \in SessionIds, n \in Requests : reply[s][n] # "twice"

(* A deferred request of a registered session waits in pending_polls until *)
(* it is answered, unless a later poll of the session has been deferred;   *)
(* and only such requests wait there.                                      *)
PollsAreOwed ==
    /\ \A s \in SessionIds : poll[s] # NoPoll =>
          /\ s \in Known
          /\ session[s].agent = poll[s].agent
          /\ reply[s][poll[s].n] = "owed"
    /\ \A s \in Known, n \in Requests : reply[s][n] = "owed" =>
          \/ poll[s].n = n
          \/ \E m \in Requests : m > n /\ reply[s][m] \in {"owed", "given"}

(* A deck of DeckSize positions has one for the cards of every active      *)
(* agent, and keeps none for an agent that is not, whoever else is active  *)
(* (task_slot_owners).                                                     *)
PositionsAreShared ==
    \A others \in SUBSET (Agents \ (Clients \cup Hosts)) :
        LET active == owners \cup others
            owner == TaskSlotOwners(DeckSize, active)
        IN  /\ \A k \in DOMAIN owner : owner[k] \in active \cup {Nobody}
            /\ \A a \in active : \E k \in DOMAIN owner : owner[k] = a

(* A catalog action is executed by one session: "a single Stream Deck      *)
(* press never executes twice" (run_daemon).                               *)
CatalogOnce ==
    \A e \in DOMAIN task : task[e].kind = "catalog" =>
        Cardinality({s \in SessionIds :
            \E k \in DOMAIN session[s].events : session[s].events[k] = e}) <= 1

(* A buffer of events gets shorter only by an answer to a registered       *)
(* session (of the agent, for its key events), or with its session.        *)
AnsweredIn(s) == \E n \in Requests :
    reply[s][n] # reply'[s][n] /\ reply'[s][n] \in {"answered", "given"}

EventsLeaveInAnswers ==
    [][/\ \A a \in Agents : Len(queue'[a]) < Len(queue[a]) =>
             \E s \in Of(a) : AnsweredIn(s)
       /\ \A s \in Known : Len(session'[s].events) < Len(session[s].events) =>
             AnsweredIn(s) \/ s \notin Known']_vars

(* A long poll ends: by events, by its time, by another poll or with its   *)
(* session.                                                                *)
PollsEnd ==
    \A s \in SessionIds, n \in Requests : poll[s].n = n ~> poll[s].n # n

(* Once the desktop programs stay as they are, the keys and the cards end  *)
(* up with the agents that are active.                                     *)
PartitionSettles ==
    \A H \in SUBSET Hosts :
        <>[](hosts = H) =>
            <>[](due = NotDue /\ partition = Compute(Active) /\ owners = Active)

=============================================================================

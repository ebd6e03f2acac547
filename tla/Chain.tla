--------------------------------- MODULE Chain ---------------------------------
(***************************************************************************)
(* The chain of scripts/e2e_carriage_chain.py: backend, broker, station    *)
(* simulator.  Both MQTT clients are Paho with a clean session: the broker *)
(* drops what it gets for a client that is away or has not subscribed yet, *)
(* and a client queues what it publishes and sends it again until it is    *)
(* acknowledged.  A session is only its verdict here; DepositLifecycle has *)
(* the handlers.                                                           *)
(***************************************************************************)
EXTENDS Simulator

CONSTANT MaxFaults   \* bound on dropped links and restarts of the backend

Clients == {"gateway", "station"}
None == 0

VARIABLES
  phase,      \* deposit_sessions.status, its open phases as "capture" or "pending"
  want,       \* expected_position
  orders,     \* the gateway's outgoing queue
  mailbox,    \* commands that have reached the simulator's client
  outbox,     \* the simulator's outgoing queue
  news,       \* messages that have reached the gateway's client
  link,       \* of a client: "down", "deaf" (connected), "up" (subscribed)
  live,       \* the StationSnapshot in the registry: where the carriage is
  lost,       \* history: operations a message of which was lost
  faults

chain == <<phase, want, orders, mailbox, outbox, news, link, live, lost,
           faults>>

Booted == [state |-> "IDLE", position |-> None]

ChainInit ==
  /\ Init
  /\ phase = [o \in Ops |-> "none"] /\ want = [o \in Ops |-> None]
  /\ orders = <<>> /\ mailbox = <<>>
  /\ outbox = <<>> /\ news = <<>>
  /\ link = [c \in Clients |-> "up"]
  /\ live = Booted
  /\ lost = {} /\ faults = 0

Command(o, kind, d) == [op |-> o, kind |-> kind, dest |-> d]
Heard(c) == link[c] = "up"
OpsOf(seq) == {seq[i].op : i \in 1..Len(seq)} \ {NoJob}

-----------------------------------------------------------------------------
\* create_session and _create_capture_session: the row is committed, then its
\* command published.  A crash between the two is one that finds the command in
\* the queue, which is memory too.
Open(o, d) ==
  /\ phase[o] = "none"
  /\ \/ /\ phase' = [phase EXCEPT ![o] = "pending"]
        /\ want' = [want EXCEPT ![o] = d]
        /\ orders' = Append(orders, Command(o, "route", d))
     \/ /\ phase' = [phase EXCEPT ![o] = "capture"]
        /\ orders' = Append(orders, Command(o, "capture_request", None))
        /\ UNCHANGED want
  /\ UNCHANGED <<vars, mailbox, outbox, news, link, live, lost, faults>>

\* The broker takes the head of a client's queue and hands it to the other
\* client.  An acknowledgement that is lost with the link leaves the message in
\* the queue.
Hand(queue, to, c) ==
  /\ queue # <<>>
  /\ IF Heard(c) THEN to' = Append(to, Head(queue)) /\ UNCHANGED lost
     ELSE to' = to /\ lost' = lost \cup OpsOf(<<Head(queue)>>)

Carry ==
  /\ link["gateway"] # "down"
  /\ Hand(orders, mailbox, "station")
  /\ \/ orders' = Tail(orders) /\ UNCHANGED <<news, link, faults>>
     \/ /\ faults < MaxFaults /\ faults' = faults + 1
        /\ link' = [link EXCEPT !["gateway"] = "down"]
        /\ news = <<>> /\ UNCHANGED <<orders, news>>
  /\ UNCHANGED <<vars, phase, want, outbox, live>>

\* What a plan publishes from the client's own thread is sent when it is over.
Ship ==
  /\ link["station"] # "down" /\ job = NoJob
  /\ Hand(outbox, news, "gateway")
  /\ \/ outbox' = Tail(outbox) /\ UNCHANGED <<mailbox, link, faults>>
     \/ /\ faults < MaxFaults /\ faults' = faults + 1
        /\ link' = [link EXCEPT !["station"] = "down"]
        /\ mailbox = <<>> /\ UNCHANGED <<outbox, mailbox>>
  /\ UNCHANGED <<vars, phase, want, orders, live>>

-----------------------------------------------------------------------------
\* The simulator's command handler, which is the harness's in the script: a
\* route starts the plan the scenario has set, or none.
Obey(s) ==
  /\ mailbox # <<>> /\ Head(mailbox).kind = "route"
  /\ Start(Head(mailbox).op, Head(mailbox).dest, s)
  /\ mailbox' = Tail(mailbox)
  /\ UNCHANGED <<phase, want, orders, outbox, news, link, live, lost, faults>>

NoPlan ==
  /\ job = NoJob /\ mailbox # <<>> /\ Head(mailbox).kind = "route"
  /\ mailbox' = Tail(mailbox)
  /\ lost' = lost \cup {Head(mailbox).op}
  /\ UNCHANGED <<vars, phase, want, orders, outbox, news, link, live, faults>>

\* upload: the frame goes to handle_capture, which classifies it whatever open
\* phase the session is in.  A frame the gate refuses, or an upload that fails,
\* leaves the session waiting for another one.
Snap(d) ==
  /\ job = NoJob /\ mailbox # <<>> /\ Head(mailbox).kind = "capture_request"
  /\ mailbox' = Tail(mailbox)
  /\ LET o == Head(mailbox).op IN
     \/ /\ phase[o] \in {"capture", "pending"}
        /\ phase' = [phase EXCEPT ![o] = "pending"]
        /\ want' = [want EXCEPT ![o] = d]
        /\ orders' = Append(orders, Command(o, "route", d))
        /\ UNCHANGED lost
     \/ /\ phase[o] \in {"capture", "pending"}
        /\ phase' = [phase EXCEPT ![o] = "rejected"]
        /\ UNCHANGED <<want, orders, lost>>
     \/ /\ phase' = [phase EXCEPT ![o] = IF @ = "pending" THEN "capture" ELSE @]
        /\ lost' = lost \cup {o}
        /\ UNCHANGED <<want, orders>>
  /\ UNCHANGED <<vars, outbox, news, link, live, faults>>

Message(kind, o, state, position, result) ==
  [kind |-> kind, op |-> o, state |-> state, position |-> position, result |-> result]

\* A step of the plan, with the telemetry and the terminal it publishes.
Work ==
  /\ Run
  /\ LET terminals == SubSeq(results', Len(results) + 1, Len(results'))
         weighed == IF machine = "MEASURING"
                    THEN <<Message("sensor", job.op, "", sensor, None)>> ELSE <<>>
     IN outbox' = outbox \o weighed
                    \o [i \in 1..Len(terminals) |->
                          Message("event", terminals[i].op, "", None, terminals[i])]
  /\ UNCHANGED <<phase, want, orders, mailbox, news, link, live, lost, faults>>

\* _heartbeat, of where the station is now; a bound: only onto empty queues.
Heartbeat ==
  /\ outbox = <<>> /\ news = <<>>
  /\ outbox' = Append(outbox, Message("heartbeat", NoJob, machine, carriage, None))
  /\ UNCHANGED <<vars, phase, want, orders, mailbox, news, link, live, lost,
                 faults>>

-----------------------------------------------------------------------------
\* _remember_station: what a message does not carry stays as it was.
Remember(m) ==
  live' = CASE m.kind = "heartbeat" -> [live EXCEPT !.state = m.state, !.position = m.position]
            [] m.kind = "sensor" -> [live EXCEPT !.position = m.position]
            [] OTHER -> live

JudgeByStatus(m) ==    \* variant: the station's own word is enough
  phase' = IF m.kind = "event" /\ phase[m.op] \in {"capture", "pending"}
           THEN [phase EXCEPT ![m.op] =
                   IF m.result.status = "confirmed" THEN "confirmed" ELSE "rejected"]
           ELSE phase

\* complete_from_event on a session that is open; a decided one ignores it.
Judge(m) ==
  phase' = IF m.kind = "event" /\ phase[m.op] \in {"capture", "pending"}
           THEN [phase EXCEPT ![m.op] =
                   IF Contract!Accepts(m.result, want[m.op])
                   THEN "confirmed" ELSE "rejected"]
           ELSE phase

Receive ==
  /\ news # <<>>
  /\ news' = Tail(news)
  /\ Remember(Head(news)) /\ Judge(Head(news))
  /\ UNCHANGED <<vars, want, orders, mailbox, outbox, link, lost, faults>>

-----------------------------------------------------------------------------
Connect(c) ==
  /\ link[c] = "down"
  /\ link' = [link EXCEPT ![c] = "deaf"]
  /\ UNCHANGED <<vars, phase, want, orders, mailbox, outbox, news, live,
                 lost, faults>>

SubscribeOnce(c) ==    \* variant: subscribed at the start and not on connecting
  /\ link[c] = "deaf" /\ faults = 0
  /\ link' = [link EXCEPT ![c] = "up"]
  /\ UNCHANGED <<vars, phase, want, orders, mailbox, outbox, news, live,
                 lost, faults>>

\* _on_connect.
Subscribe(c) ==
  /\ link[c] = "deaf"
  /\ link' = [link EXCEPT ![c] = "up"]
  /\ UNCHANGED <<vars, phase, want, orders, mailbox, outbox, news, live,
                 lost, faults>>

\* What is on its way to a client is lost with its link.
Drop(c) ==
  /\ link[c] # "down" /\ faults < MaxFaults
  /\ faults' = faults + 1
  /\ link' = [link EXCEPT ![c] = "down"]
  /\ IF c = "gateway"
     THEN news' = <<>> /\ lost' = lost \cup OpsOf(news) /\ UNCHANGED mailbox
     ELSE mailbox' = <<>> /\ lost' = lost \cup OpsOf(mailbox) /\ UNCHANGED news
  /\ UNCHANGED <<vars, phase, want, orders, outbox, live>>

\* The backend dies and boots: what it had not sent is gone, and the registry
\* starts from the stations' rows.
Restart ==
  /\ faults < MaxFaults /\ faults' = faults + 1
  /\ lost' = lost \cup OpsOf(orders) \cup OpsOf(news)
  /\ orders' = <<>> /\ news' = <<>>
  /\ link' = [link EXCEPT !["gateway"] = "down"]
  /\ live' = Booted
  /\ UNCHANGED <<vars, phase, want, mailbox, outbox>>

-----------------------------------------------------------------------------
ChainNext ==
  \/ \E o \in Ops, d \in Slots : Open(o, d)
  \/ Carry \/ Ship \/ Work \/ Heartbeat \/ Receive \/ NoPlan \/ Restart
  \/ \E s \in Scenarios : Obey(s)
  \/ \E d \in Slots : Snap(d)
  \/ \E c \in Clients : Connect(c) \/ Subscribe(c) \/ Drop(c)

vs == <<vars, chain>>

\* Every thread goes on: the handlers', the two clients' and the heartbeat's.
ChainSpec ==
  /\ ChainInit /\ [][ChainNext]_vs
  /\ WF_vs(Carry) /\ WF_vs(Ship) /\ WF_vs(Work) /\ WF_vs(Heartbeat) /\ WF_vs(Receive)
  /\ WF_vs(NoPlan \/ (\E s \in Scenarios : Obey(s)) \/ (\E d \in Slots : Snap(d)))
  /\ \A c \in Clients : WF_vs(Connect(c)) /\ WF_vs(Subscribe(c))

-----------------------------------------------------------------------------
(* Properties.                                                              *)

\* End to end: every terminal is judged as the documentation says of its
\* scenario, and a session reads confirmed only if the station reported, for
\* that operation, a deposit the gates accept in the compartment the session
\* expects, whatever was lost, sent twice, held back or overtaken by a restart.
OutcomeDelivered ==
  /\ ScenarioOutcome
  /\ \A o \in Ops : phase[o] = "confirmed" =>
       \E i \in 1..Len(results) :
         results[i].op = o /\ Contract!Accepts(results[i], want[o])

\* A deposit that is begun is decided, unless one of its messages was lost: no
\* fault but those leaves it waiting, whatever the plan, the other operation's
\* plan and the redelivered messages do.
SessionDecided ==
  \A o \in Ops :
    phase[o] \in {"capture", "pending"}
      ~> (phase[o] \in {"confirmed", "rejected"} \/ o \in lost)

\* "Live state for stations": once the links hold, the registry comes to show
\* the station where it rests, after a restart or a reconnect alike.
LiveViewCatchesUp ==
  <>[](live.state = machine /\ live.position = carriage)
=============================================================================

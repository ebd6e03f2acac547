------------------------------ MODULE LiveWatch ------------------------------
(***************************************************************************)
(* How a student's phone learns what became of a deposit: the MQTT thread  *)
(* commits a status and then publishes it on the event bus                 *)
(* (mqtt/handler.py, services/event_bus.py), the WebSocket endpoint        *)
(* forwards what its queue receives (routers/ws.py), and the phone watches *)
(* the socket first and polls when the socket fails                        *)
(* (mobile/lib/api/backend_gateway.dart).  One operation, one phone.       *)
(*                                                                         *)
(* The queue of the endpoint and the socket behind it are one sequence:    *)
(* both keep the order and both are lost together.  A socket that carries  *)
(* nothing for the phone's timeout is a lost socket; one that is alive     *)
(* carries a keepalive every 25 s, so the timeout of 3 min never fires.    *)
(***************************************************************************)
EXTENDS Integers, Sequences

CONSTANTS
  LastPhase,     \* live statuses are the ranks 0..LastPhase of _STATUS_RANK
  Verdicts,      \* terminal statuses
  HttpVerdicts,  \* those an HTTP handler of this instance may write: cancel,
                 \* a low-confidence capture, the hardware callback
  NoFrame        \* no status

Live == 0..LastPhase

WatchAssumption ==
  /\ LastPhase \in Nat
  /\ HttpVerdicts \subseteq Verdicts
  /\ Verdicts \cap Live = {}
  /\ NoFrame \notin Live \cup Verdicts

VARIABLES
  row,      \* deposit_sessions.status
  past,     \* every status the row has had: kept for the properties alone
  mqtt,     \* the MQTT thread: its stage and the status it holds
  http,     \* an HTTP handler: the verdict it is going to write, or NoFrame
  queue,    \* the frames on their way to the phone
  handset,    \* where watchOperation is
  result    \* the terminal status it returned

watchVars == <<row, past, mqtt, http, queue, handset, result>>

Thread(stage, s) == [at |-> stage, status |-> s]
NoWork == Thread("idle", NoFrame)

WatchInit ==
  /\ row = 0
  /\ past = {0}
  /\ mqtt = NoWork
  /\ http = NoFrame
  /\ queue = <<>>
  /\ handset = "connecting"
  /\ result = NoFrame

-----------------------------------------------------------------------------
\* The backend.

\* Commit of the status, whatever the row says meanwhile.
Write(s) == row' = s /\ past' = past \cup {s}

\* apply_machine_state and complete_from_event decide on the row they load ...
MqttLoad(s) ==
  /\ mqtt = NoWork /\ row \in Live
  /\ s \in Live => s > row
  /\ mqtt' = Thread("commit", s)
  /\ UNCHANGED <<row, past, http, queue, handset, result>>

MqttCommitClaim ==             \* variant: publishes what the machine claims
  /\ mqtt.at = "commit"
  /\ mqtt' = Thread("publish", mqtt.status)
  /\ \/ Write(mqtt.status)
     \/ UNCHANGED <<row, past>>
  /\ UNCHANGED <<http, queue, handset, result>>

\* ... write it by its key alone, or roll back and publish nothing ...
MqttCommit ==
  /\ mqtt.at = "commit"
  /\ \/ Write(mqtt.status) /\ mqtt' = Thread("refresh", NoFrame)
     \/ UNCHANGED <<row, past>> /\ mqtt' = NoWork
  /\ UNCHANGED <<http, queue, handset, result>>

\* ... read it back (db.refresh) ...
MqttRefresh ==
  /\ mqtt.at = "refresh"
  /\ mqtt' = Thread("publish", row)
  /\ UNCHANGED <<row, past, http, queue, handset, result>>


\* ... and publish what they read, to the queues that exist at that moment.
MqttPublish ==
  /\ mqtt.at = "publish"
  /\ queue' = IF handset = "open" THEN Append(queue, mqtt.status) ELSE queue
  /\ mqtt' = NoWork
  /\ UNCHANGED <<row, past, http, handset, result>>

\* An HTTP handler closes the session in the same two steps.  None of them
\* publishes what it did.
HttpLoad(v) ==
  /\ http = NoFrame /\ row \in Live
  /\ http' = v
  /\ UNCHANGED <<row, past, mqtt, queue, handset, result>>

HttpClose ==
  /\ http # NoFrame
  /\ Write(http)
  /\ http' = NoFrame
  /\ UNCHANGED <<mqtt, queue, handset, result>>

\* The backend dies between two of its steps and is started again: what it
\* had committed stays, what it was going to publish and its sockets do not.
Restart ==
  /\ mqtt' = NoWork /\ http' = NoFrame
  /\ handset' = IF handset \in {"connecting", "open"} THEN "polling" ELSE handset
  /\ queue' = <<>>
  /\ UNCHANGED <<row, past, result>>

-----------------------------------------------------------------------------
\* The socket and the phone.

\* Token, revocation and ownership hold: accept and subscribe, from here on.
\* Nothing is sent of what the row already says.
Subscribe ==
  /\ handset = "connecting"
  /\ handset' = "open"
  /\ UNCHANGED <<row, past, mqtt, http, queue, result>>

\* The socket is refused or breaks: frames on their way are lost, and the
\* phone falls back to polling.
Lose ==
  /\ handset \in {"connecting", "open"}
  /\ handset' = "polling"
  /\ queue' = <<>>
  /\ UNCHANGED <<row, past, mqtt, http, result>>

\* watchOperation returns with the terminal deposit it was given.
Return(s) ==
  /\ handset' = "done"
  /\ result' = s
  /\ queue' = <<>>

Receive ==
  /\ handset = "open" /\ queue # <<>>
  /\ IF Head(queue) \in Verdicts
     THEN Return(Head(queue))
     ELSE queue' = Tail(queue) /\ UNCHANGED <<handset, result>>
  /\ UNCHANGED <<row, past, mqtt, http>>

\* GET /deposit/{operation_id}; a live deposit changes nothing here.
PollDeposit ==
  /\ handset = "polling" /\ row \in Verdicts
  /\ Return(row)
  /\ UNCHANGED <<row, past, mqtt, http>>

\* The polling deadline: an ApiException ends the watch.
GiveUp ==
  /\ handset = "polling"
  /\ handset' = "gaveup"
  /\ UNCHANGED <<row, past, mqtt, http, queue, result>>

-----------------------------------------------------------------------------
WatchNext ==
  \/ \E s \in Live \cup Verdicts : MqttLoad(s)
  \/ MqttCommit
  \/ MqttRefresh
  \/ MqttPublish
  \/ \E v \in HttpVerdicts : HttpLoad(v)
  \/ HttpClose
  \/ Restart
  \/ Subscribe
  \/ Lose
  \/ Receive
  \/ PollDeposit
  \/ GiveUp

WatchSpec == WatchInit /\ [][WatchNext]_watchVars

\* The MQTT thread finishes what it has begun, the event loop forwards
\* what is queued, and the phone's code runs.  Nothing makes the machine
\* report, a student cancel or a socket break.
WatchFairness ==
  /\ WF_watchVars(MqttCommit) /\ WF_watchVars(MqttRefresh) /\ WF_watchVars(MqttPublish)
  /\ WF_watchVars(Subscribe) /\ WF_watchVars(Receive)
  /\ WF_watchVars(PollDeposit) /\ WF_watchVars(GiveUp)

-----------------------------------------------------------------------------
\* Type invariant.
WatchTypeOK ==
  /\ row \in Live \cup Verdicts /\ past \subseteq Live \cup Verdicts
  /\ \/ mqtt = NoWork
     \/ mqtt.at \in {"commit", "publish"} /\ mqtt.status \in Live \cup Verdicts
     \/ mqtt = Thread("refresh", NoFrame)
  /\ http \in Verdicts \cup {NoFrame}
  /\ queue \in Seq(Live \cup Verdicts)
  /\ handset \in {"connecting", "open", "polling", "done", "gaveup"}
  /\ result \in Verdicts \cup {NoFrame}

\* The phone never reports an outcome the backend has not persisted: what is
\* published is the row read back, "never the raw machine claim".
NoInventedVerdict == result \in past \cup {NoFrame}

=============================================================================

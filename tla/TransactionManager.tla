------------------------- MODULE TransactionManager -------------------------
(***************************************************************************)
(* The transaction core of the OCPP 1.6 charge point:                     *)
(* src/src/chargepoint/transaction/TransactionManager.cpp.                *)
(*                                                                         *)
(* Actors: application event threads calling startTransaction /           *)
(* stopTransaction, the WorkerThreadPool running processFifoRequest jobs, *)
(* the single-shot retry timer, and the environment (link up/down,        *)
(* registration status, central system answers).  The message sender and *)
(* the central system are modelled from the contract of spec.md 4.2/6:    *)
(* a call with a FIFO attached either succeeds or appends the request to  *)
(* the FIFO; a call may reach the central system and still fail (lost     *)
(* response / timeout).                                                   *)
(***************************************************************************)
EXTENDS Integers, Sequences, FiniteSets

CONSTANTS
    Connectors,                 \* ids of the physical connectors (never 0)
    Tags,                       \* id tags presented by users
    NoTag,                      \* the empty id tag ""
    Threads,                    \* application threads calling start/stop
    Workers,                    \* threads of the worker pool
    TransactionMessageAttempts, \* IOcppConfig::transactionMessageAttempts()
    MaxCalls,                   \* bound: startTransaction/stopTransaction calls
    MaxJobs,                    \* bound: processFifoRequest jobs queued at once
    MaxRestarts,                \* bound: process restarts (crashes)
    IdleStartsOnly,             \* the application starts a transaction only
                                \* on a connector without one
    ReserveConnectorZeroSupported, \* IOcppConfig option
    MaxReservations,            \* bound: ReserveNow requests of the central system
    MaxRemoteStarts             \* bound: RemoteStartTransaction requests

ASSUME /\ 0 \notin Connectors
       /\ NoTag \notin Tags
       /\ TransactionMessageAttempts \in Nat \ {0}
       /\ MaxCalls \in Nat /\ MaxJobs \in Nat \ {0}
       /\ MaxRestarts \in Nat
       /\ IdleStartsOnly \in BOOLEAN
       /\ ReserveConnectorZeroSupported \in BOOLEAN
       /\ MaxReservations \in Nat /\ MaxRemoteStarts \in Nat

\* Every call builds at most two messages (a start and its compensating stop).
MsgIds == 1 .. 2 * MaxCalls

\* The central system answers idTagInfo.status; every status other than
\* Accepted takes the same branches in this code, so one stands for all.
AuthStatus == {"Accepted", "Invalid"}

\* A request as the message sender sees it.  txid is the transactionId
\* field of a StopTransaction; the central system gives a StartTransaction
\* the id of the request as its transactionId (0 is the default of an
\* unanswered StartTransaction.conf).  ref is a history field: the
\* id of the StartTransaction request that opened the transaction.
Message == [id : MsgIds,
            action : {"StartTransaction", "StopTransaction", "MeterValues"},
            conn : Connectors, tag : Tags \cup {NoTag},
            txid : {-1, 0} \cup MsgIds, ref : {0} \cup MsgIds]

NoMsg == [id |-> 0]

\* Connector 0 stands for the whole charge point.
AllConnectors == {0} \cup Connectors

\* A reservation as the reservation manager holds it; a reserved connector
\* has status Reserved and reservation_id.
ResIds == 1 .. MaxReservations
Reservation == [id : ResIds, tag : Tags]
NoResv == [id |-> 0]

\* A pool worker outside processFifoRequest.  res and status hold the
\* result of its call between the send and the handling of the result.
IdleWorker == [pc |-> "idle", entry |-> NoMsg, res |-> "none", status |-> "Accepted"]

VARIABLES
    connected,      \* m_msg_sender.isConnected()
    registration,   \* m_status_manager.getRegistrationStatus()
    txId,           \* connector->transaction_id: 0, -1 (provisional) or id
    txTag,          \* connector->transaction_id_tag
    txStart,        \* history: id of the StartTransaction behind txId
    fifo,           \* m_requests_fifo (persisted)
    retryCount,     \* m_request_retry_count
    timerArmed,     \* m_request_retry_timer.isStarted()
    jobs,           \* processFifoRequest jobs queued on the worker pool
    worker,         \* per worker: position in processFifoRequest, head read
    thread,         \* per application thread: position in start/stop, request
    nextMsg,        \* last request id used
    calls,          \* number of start/stop calls so far
    pushed,         \* history: requests ever appended to the FIFO
    delivered,      \* history: requests that reached the central system
    dropped,        \* history: requests popped after exhausting retries
    attempts,       \* history: drainer send attempts per request id
    deauth,         \* history: transactionDeAuthorized callbacks, numbered
    csOpen,         \* central system: ids of the transactions it holds open
    missedStops,    \* history: RemoteStop requests answered "not found"
    answered,       \* history: requests whose call was answered (Ok)
    resent,         \* history: requests delivered again after an answer
    restarts,       \* number of process restarts so far
    resv,           \* per connector (0 included): its reservation or NoResv
    nextResv,       \* last reservation id given by the central system
    stamped,        \* history: reservationId stamped on each StartTransaction
    remoteStarts,   \* history: RemoteStartTransaction requests accepted
    sampling        \* connectors whose sampled meter values are started

vars == <<connected, registration, txId, txTag, txStart, fifo, retryCount,
          timerArmed, jobs, worker, thread, nextMsg, calls, pushed, delivered,
          dropped, attempts, deauth, csOpen, missedStops, answered,
          resent, restarts, resv, nextResv, stamped, remoteStarts, sampling>>

collabVars == <<resv, nextResv, stamped, remoteStarts, sampling>>

connVars == <<txId, txTag, txStart>>
drainVars == <<retryCount, timerArmed, jobs, worker>>
histVars == <<pushed, delivered, dropped, attempts, deauth, csOpen,
              missedStops, answered, resent>>

TypeOK ==
    /\ connected \in BOOLEAN
    /\ registration \in {"Pending", "Accepted", "Rejected"}
    /\ txId \in [Connectors -> {0, -1} \cup MsgIds]
    /\ txTag \in [Connectors -> Tags \cup {NoTag}]
    /\ txStart \in [Connectors -> {0} \cup MsgIds]
    /\ fifo \in Seq(Message)
    /\ retryCount \in 0 .. TransactionMessageAttempts
    /\ timerArmed \in BOOLEAN
    /\ jobs \in 0 .. MaxJobs
    /\ worker \in [Workers -> [pc : {"idle", "front", "send", "deauth", "result"},
                               entry : Message \cup {NoMsg},
                               res : {"none", "ok", "failed"},
                               status : AuthStatus]]
    /\ thread \in [Threads -> [pc : {"idle", "start_send", "start_adopt",
                                     "start_compensate", "stop_reset",
                                     "stop_send"},
                               msg : Message \cup {NoMsg}]]
    /\ nextMsg \in 0 .. 2 * MaxCalls
    /\ calls \in 0 .. MaxCalls
    /\ pushed \subseteq Message /\ delivered \subseteq Message
    /\ dropped \subseteq MsgIds
    /\ attempts \in [MsgIds -> Nat]
    /\ deauth \subseteq [conn : Connectors, rejected : MsgIds,
                         held : {0} \cup MsgIds, n : Nat]
    /\ csOpen \subseteq MsgIds
    /\ missedStops \subseteq MsgIds
    /\ answered \subseteq MsgIds /\ resent \subseteq MsgIds
    /\ restarts \in 0 .. MaxRestarts
    /\ resv \in [AllConnectors -> Reservation \cup {NoResv}]
    /\ nextResv \in 0 .. MaxReservations
    /\ stamped \subseteq [start : MsgIds, res : ResIds]
    /\ remoteStarts \subseteq [conn : Connectors, tag : Tags, busy : BOOLEAN]
    /\ sampling \subseteq Connectors

Init ==
    /\ connected = FALSE
    /\ registration = "Pending"
    /\ txId = [c \in Connectors |-> 0]
    /\ txTag = [c \in Connectors |-> NoTag]
    /\ txStart = [c \in Connectors |-> 0]
    /\ fifo = <<>>
    /\ retryCount = 0
    /\ timerArmed = FALSE
    /\ jobs = 0
    /\ worker = [w \in Workers |-> IdleWorker]
    /\ thread = [t \in Threads |-> [pc |-> "idle", msg |-> NoMsg]]
    /\ nextMsg = 0
    /\ calls = 0
    /\ pushed = {} /\ delivered = {} /\ dropped = {}
    /\ attempts = [m \in MsgIds |-> 0]
    /\ deauth = {}
    /\ csOpen = {}
    /\ missedStops = {}
    /\ answered = {}
    /\ resent = {}
    /\ restarts = 0
    /\ resv = [c \in AllConnectors |-> NoResv]
    /\ nextResv = 0
    /\ stamped = {}
    /\ remoteStarts = {}
    /\ sampling = {}

-----------------------------------------------------------------------------
(* The message sender (spec.md 6).  A call reaches the central system only *)
(* while connected; it then answers ("ok"), or the answer is lost          *)
(* ("timeout": delivered, reported failed).  Otherwise it fails undelivered.*)

SendOutcomes == IF connected THEN {"ok", "timeout", "lost"} ELSE {"lost"}

\* A delivered StartTransaction the central system accepts (status) opens
\* its transaction; a delivered StopTransaction closes the one it names.
Deliver(o, m, status) ==
    /\ delivered' = IF o = "lost" THEN delivered ELSE delivered \cup {m}
    /\ answered' = IF o = "ok" THEN answered \cup {m.id} ELSE answered
    /\ resent' = IF o # "lost" /\ m.id \in answered THEN resent \cup {m.id}
                                                  ELSE resent
    /\ csOpen' = CASE o = "lost" -> csOpen
                 [] m.action = "StartTransaction" /\ status = "Accepted"
                      -> csOpen \cup {m.id}
                 [] m.action = "StopTransaction" -> csOpen \ {m.txid}
                 [] OTHER -> csOpen

\* call(action, req, conf, &m_requests_fifo): a failed call appends the
\* request to the FIFO in the same step.
CallWithFifo(o, m, status) ==
    /\ Deliver(o, m, status)
    /\ IF o = "ok"
       THEN UNCHANGED <<fifo, pushed>>
       ELSE /\ fifo' = Append(fifo, m)
            /\ pushed' = pushed \cup {m}

-----------------------------------------------------------------------------
(* The reservation manager (spec.md 7, not in src/): a connector reserved   *)
(* for an id tag admits a transaction only for that tag.                    *)

IsTransactionAllowed(c, tag) == resv[c] \in {NoResv} \cup [id : ResIds, tag : {tag}]

ClearReservation(c) == resv' = [resv EXCEPT ![c] = NoResv]

\* ReserveNow from the central system on a free connector, or on connector
\* 0 when ReserveConnectorZeroSupported.
ReserveNow(c, tag) ==
    /\ c = 0 => ReserveConnectorZeroSupported
    /\ resv[c] = NoResv
    /\ nextResv < MaxReservations
    /\ nextResv' = nextResv + 1
    /\ resv' = [resv EXCEPT ![c] = [id |-> nextResv + 1, tag |-> tag]]
    /\ UNCHANGED <<connected, registration, connVars, fifo, drainVars, thread,
                   nextMsg, calls, histVars, restarts, stamped, remoteStarts,
                   sampling>>

-----------------------------------------------------------------------------
(* startTransaction(connector_id, id_tag) *)

\* The reservation a start uses (lines 124-150): the connector's own when it
\* is Reserved, else connector 0's when ReserveConnectorZeroSupported and it
\* admits the tag.
ReservationUsed(c, tag) ==
    CASE resv[c] # NoResv -> resv[c]
      [] ReserveConnectorZeroSupported /\ resv[0] # NoResv
           /\ IsTransactionAllowed(0, tag) -> resv[0]
      [] OTHER -> NoResv

\* Mutation of StampReservation: the reservation is stamped but not
\* cleared (lines 130 and 147 missing).
StampReservationKeep(c, tag, id) ==
    LET r == ReservationUsed(c, tag) IN
    IF r = NoResv THEN UNCHANGED <<resv, stamped>>
    ELSE stamped' = stamped \cup {[start |-> id, res |-> r.id]} /\ UNCHANGED resv

\* Stamp the reservationId of the reservation used, and clear the
\* reservation of connector_id (not that of connector 0).
StampReservation(c, tag, id) ==
    LET r == ReservationUsed(c, tag) IN
    IF r = NoResv THEN UNCHANGED <<resv, stamped>>
    ELSE stamped' = stamped \cup {[start |-> id, res |-> r.id]} /\ ClearReservation(c)

\* Build the StartTransaction request.  Connector 0, unknown connectors and
\* a tag the reservation manager refuses return without changing anything
\* (stuttering steps).
StartTransaction(t, c, tag) ==
    /\ thread[t].pc = "idle"
    /\ calls < MaxCalls
    /\ IsTransactionAllowed(c, tag)
    /\ calls' = calls + 1
    /\ nextMsg' = nextMsg + 1
    /\ thread' = [thread EXCEPT ![t] =
          [pc |-> "start_send",
           msg |-> [id |-> nextMsg + 1, action |-> "StartTransaction",
                    conn |-> c, tag |-> tag, txid |-> -1, ref |-> nextMsg + 1]]]
    /\ StampReservation(c, tag, nextMsg + 1)
    /\ UNCHANGED <<connected, registration, connVars, fifo, drainVars, histVars,
                   restarts, nextResv, remoteStarts, sampling>>

\* Mutation of FailedStartId: the failure branch does not set the
\* provisional transactionId (line 176 missing), so the connector adopts the
\* default 0 of the unanswered StartTransaction.conf.
FailedStartIdUnset == 0

\* A failed call: "send the message later, authorize transaction meanwhile"
\* with the provisional transactionId -1 (lines 173-177).
FailedStartId == -1

\* Send it (blocking).  Answered and refused: prepare the compensating
\* stop.  Otherwise the result to adopt is the answer's transactionId, or,
\* on failure, the provisional id -1 with status Accepted; it is carried in
\* the request's txid field until the connector is updated.
StartTransactionSend(t) ==
    LET m == thread[t].msg IN
    /\ thread[t].pc = "start_send"
    /\ \E o \in SendOutcomes, status \in AuthStatus :
         /\ CallWithFifo(o, m, status)
         /\ IF o = "ok" /\ status # "Accepted"
            THEN /\ nextMsg' = nextMsg + 1
                 /\ thread' = [thread EXCEPT ![t] =
                       [pc |-> "start_compensate",
                        msg |-> [id |-> nextMsg + 1, action |-> "StopTransaction",
                                 conn |-> m.conn, tag |-> NoTag,
                                 txid |-> m.id, ref |-> m.id]]]
            ELSE /\ thread' = [thread EXCEPT ![t] =
                       [pc |-> "start_adopt",
                        msg |-> [m EXCEPT !.txid = IF o = "ok" THEN m.id ELSE FailedStartId]]]
                 /\ UNCHANGED nextMsg
    /\ UNCHANGED <<connected, registration, connVars, drainVars, calls, dropped,
                   attempts, deauth, missedStops, restarts, collabVars>>

\* Accepted: under the connector mutex set transaction_id, the start and the
\* id tag, and saveConnector; then startSampledMeterValues.
StartTransactionAdopt(t) ==
    LET m == thread[t].msg IN
    /\ thread[t].pc = "start_adopt"
    /\ txId' = [txId EXCEPT ![m.conn] = m.txid]
    /\ txTag' = [txTag EXCEPT ![m.conn] = m.tag]
    /\ txStart' = [txStart EXCEPT ![m.conn] = m.id]
    /\ sampling' = sampling \cup {m.conn}
    /\ thread' = [thread EXCEPT ![t] = [pc |-> "idle", msg |-> NoMsg]]
    /\ UNCHANGED <<connected, registration, fifo, drainVars, nextMsg, calls,
                   histVars, restarts, resv, nextResv, stamped, remoteStarts>>

\* The StopTransaction (reason DeAuthorized) closing a refused start.
StartTransactionCompensate(t) ==
    /\ thread[t].pc = "start_compensate"
    /\ \E o \in SendOutcomes : CallWithFifo(o, thread[t].msg, "Accepted")
    /\ thread' = [thread EXCEPT ![t] = [pc |-> "idle", msg |-> NoMsg]]
    /\ UNCHANGED <<connected, registration, connVars, drainVars, nextMsg,
                   calls, dropped, attempts, deauth, missedStops, restarts, collabVars>>

-----------------------------------------------------------------------------
(* stopTransaction(connector_id, id_tag, reason) *)

\* With a transaction in progress (read without the connector mutex):
\* stopSampledMeterValues and build the request from the connector.
\* Without one the call returns false (a stuttering step).  The request's
\* idTag is the caller's and is not read by this core.
StopTransaction(t, c) ==
    /\ thread[t].pc = "idle"
    /\ calls < MaxCalls
    /\ txId[c] # 0
    /\ calls' = calls + 1
    /\ sampling' = sampling \ {c}
    /\ nextMsg' = nextMsg + 1
    /\ thread' = [thread EXCEPT ![t] =
          [pc |-> "stop_reset",
           msg |-> [id |-> nextMsg + 1, action |-> "StopTransaction",
                    conn |-> c, tag |-> NoTag, txid |-> txId[c],
                    ref |-> txStart[c]]]]
    /\ UNCHANGED <<connected, registration, connVars, fifo, drainVars, histVars,
                   restarts, resv, nextResv, stamped, remoteStarts>>

\* Mutation of ResetConnector: transaction_id and transaction_start are not
\* reset (lines 252 and 254 missing); the connector still reports the
\* stopped transaction.
ResetConnectorKeepId(c) == txTag' = [txTag EXCEPT ![c] = NoTag] /\ UNCHANGED <<txId, txStart>>

\* Under the connector mutex: reset the transaction (lines 250-256).
ResetConnector(c) ==
    /\ txId' = [txId EXCEPT ![c] = 0]
    /\ txTag' = [txTag EXCEPT ![c] = NoTag]
    /\ txStart' = [txStart EXCEPT ![c] = 0]

\* Reset the connector and saveConnector.
StopTransactionReset(t) ==
    /\ thread[t].pc = "stop_reset"
    /\ ResetConnector(thread[t].msg.conn)
    /\ thread' = [thread EXCEPT ![t].pc = "stop_send"]
    /\ UNCHANGED <<connected, registration, fifo, drainVars, nextMsg, calls,
                   histVars, restarts, collabVars>>

StopTransactionSend(t) ==
    /\ thread[t].pc = "stop_send"
    /\ \E o \in SendOutcomes : CallWithFifo(o, thread[t].msg, "Accepted")
    /\ thread' = [thread EXCEPT ![t] = [pc |-> "idle", msg |-> NoMsg]]
    /\ UNCHANGED <<connected, registration, connVars, drainVars, nextMsg,
                   calls, dropped, attempts, deauth, missedStops, restarts, collabVars>>


-----------------------------------------------------------------------------
(* The meter values manager (spec.md 4.2 and 5, not in src/): while the     *)
(* sampled meter values of a connector are started it sends MeterValues    *)
(* with the connector's transaction_id through the same FIFO; each sample  *)
(* is one call of the budget MaxCalls.                                     *)
SendMeterValues(c) ==
    /\ c \in sampling
    /\ calls < MaxCalls
    /\ calls' = calls + 1
    /\ nextMsg' = nextMsg + 1
    /\ \E o \in SendOutcomes :
         CallWithFifo(o, [id |-> nextMsg + 1, action |-> "MeterValues",
                          conn |-> c, tag |-> NoTag, txid |-> txId[c],
                          ref |-> txStart[c]], "Accepted")
    /\ UNCHANGED <<connected, registration, connVars, drainVars, thread,
                   dropped, attempts, deauth, missedStops, restarts, collabVars>>

-----------------------------------------------------------------------------
(* Connection status, registration and the retry timer *)

\* updateConnectionStatus(true): restart the FIFO processing if needed.
ConnectionUp ==
    /\ ~connected
    /\ connected' = TRUE
    /\ \/ fifo = <<>> /\ UNCHANGED jobs
       \/ fifo # <<>> /\ jobs < MaxJobs /\ jobs' = jobs + 1
    /\ UNCHANGED <<registration, connVars, fifo, retryCount, timerArmed,
                   worker, thread, nextMsg, calls, histVars, restarts, collabVars>>

\* updateConnectionStatus(false) does nothing in this component.
ConnectionDown ==
    /\ connected
    /\ connected' = FALSE
    /\ UNCHANGED <<registration, connVars, fifo, drainVars, thread, nextMsg,
                   calls, histVars, restarts, collabVars>>

\* The status manager's BootNotification outcome; once Accepted it stays so.
RegistrationChange ==
    /\ connected
    /\ registration # "Accepted"
    /\ registration' \in {"Pending", "Accepted", "Rejected"} \ {registration}
    /\ UNCHANGED <<connected, connVars, fifo, drainVars, thread, nextMsg,
                   calls, histVars, restarts, collabVars>>

\* The single-shot timer's callback only queues a job on the worker pool.
RetryTimerExpired ==
    /\ timerArmed
    /\ jobs < MaxJobs
    /\ timerArmed' = FALSE
    /\ jobs' = jobs + 1
    /\ UNCHANGED <<connected, registration, connVars, fifo, retryCount,
                   worker, thread, nextMsg, calls, histVars, restarts, collabVars>>

-----------------------------------------------------------------------------
(* A crash and restart of the charge point process.  What is saved in the   *)
(* database survives: m_requests_fifo and the connectors (saveConnector).   *)
(* The constructor (lines 44-80) starts with m_request_retry_count = 0 and  *)
(* an idle timer; the pool's queued jobs, the calls in flight and the link  *)
(* are gone, and the status manager registers again.                       *)

\* Mutation of Restart: the FIFO is not persisted and comes back empty.
RestartVolatileFifo ==
    /\ restarts < MaxRestarts
    /\ restarts' = restarts + 1
    /\ connected' = FALSE /\ registration' = "Pending"
    /\ fifo' = <<>>
    /\ retryCount' = 0 /\ timerArmed' = FALSE /\ jobs' = 0
    /\ worker' = [w \in Workers |-> IdleWorker]
    /\ thread' = [t \in Threads |-> [pc |-> "idle", msg |-> NoMsg]]
    /\ sampling' = {}
    /\ UNCHANGED <<connVars, nextMsg, calls, histVars, resv, nextResv,
                   stamped, remoteStarts>>

Restart ==
    /\ restarts < MaxRestarts
    /\ restarts' = restarts + 1
    /\ connected' = FALSE /\ registration' = "Pending"
    /\ retryCount' = 0 /\ timerArmed' = FALSE /\ jobs' = 0
    /\ worker' = [w \in Workers |-> IdleWorker]
    /\ thread' = [t \in Threads |-> [pc |-> "idle", msg |-> NoMsg]]
    /\ sampling' = {}
    /\ UNCHANGED <<connVars, fifo, nextMsg, calls, histVars, resv, nextResv,
                   stamped, remoteStarts>>

-----------------------------------------------------------------------------
(* processFifoRequest(), run by a worker of the pool *)

\* The do ... while condition of the drain loop, on the state after a step.
Continue == fifo' # <<>> /\ ~timerArmed' /\ connected

\* Mutation of WaitForRegistration: the 250 ms wait is not armed (line 489
\* missing).
WaitForRegistrationSkipped == UNCHANGED timerArmed

\* Wait to be accepted by the central system: restart the timer for 250 ms.
WaitForRegistration == timerArmed' = TRUE

\* A worker takes a queued job and checks the gates: not connected, return;
\* connected but not accepted, wait for the registration and return.
ProcessFifoRequest(w) ==
    /\ worker[w].pc = "idle"
    /\ jobs > 0
    /\ jobs' = jobs - 1
    /\ \/ ~connected /\ UNCHANGED <<worker, timerArmed>>
       \/ connected /\ registration # "Accepted" /\ WaitForRegistration
          /\ UNCHANGED worker
       \/ connected /\ registration = "Accepted" /\ UNCHANGED timerArmed
          /\ worker' = [worker EXCEPT ![w].pc = "front"]
    /\ UNCHANGED <<connected, registration, connVars, fifo, retryCount,
                   thread, nextMsg, calls, histVars, restarts, collabVars>>

\* m_requests_fifo.front(): read the head; on an empty FIFO go straight to
\* the loop condition, which then ends the job.
FifoFront(w) ==
    /\ worker[w].pc = "front"
    /\ worker' = [worker EXCEPT ![w] =
          IF fifo = <<>> THEN IdleWorker
                         ELSE [IdleWorker EXCEPT !.pc = "send", !.entry = Head(fifo)]]
    /\ UNCHANGED <<connected, registration, connVars, fifo, retryCount,
                   timerArmed, jobs, thread, nextMsg, calls, histVars, restarts, collabVars>>

\* pop() of the persisted FIFO removes whatever is at its head.
Pop == fifo' = IF fifo = <<>> THEN <<>> ELSE Tail(fifo)

\* A rejected StartTransaction answer: notify transactionDeAuthorized if the
\* request's connector holds a provisional transaction with the same tag.
CheckDeAuthorized(e, status) ==
        IF status # "Accepted" /\ txId[e.conn] = -1 /\ txTag[e.conn] = e.tag
        THEN deauth' = deauth \cup {[conn |-> e.conn, rejected |-> e.ref,
                                     held |-> txStart[e.conn],
                                     n |-> Cardinality(deauth) + 1]}
        ELSE UNCHANGED deauth

\* Mutations of RetryOrDrop, each a plausible slip in lines 461-482.
RetryOrDropEarly(e) ==      \* ">=" for ">": drops after N attempts
    IF retryCount + 1 >= TransactionMessageAttempts
    THEN Pop /\ retryCount' = 0 /\ dropped' = dropped \cup {e.id} /\ UNCHANGED timerArmed
    ELSE retryCount' = retryCount + 1 /\ timerArmed' = (connected \/ timerArmed)
         /\ UNCHANGED <<fifo, dropped>>
RetryOrDropNoReset(e) ==    \* drops without resetting the counter
    IF retryCount + 1 > TransactionMessageAttempts
    THEN Pop /\ retryCount' = retryCount + 1 /\ dropped' = dropped \cup {e.id}
         /\ UNCHANGED timerArmed
    ELSE retryCount' = retryCount + 1 /\ timerArmed' = (connected \/ timerArmed)
         /\ UNCHANGED <<fifo, dropped>>
RetryOrDropUncounted(e) ==  \* the failure is not counted (line 463 missing)
    IF retryCount > TransactionMessageAttempts
    THEN Pop /\ retryCount' = 0 /\ dropped' = dropped \cup {e.id} /\ UNCHANGED timerArmed
    ELSE UNCHANGED <<retryCount, fifo, dropped>> /\ timerArmed' = (connected \/ timerArmed)
RetryOrDropPopAlways(e) ==  \* pop() also on a retry, as if hoisted out of the branches
    IF retryCount + 1 > TransactionMessageAttempts
    THEN Pop /\ retryCount' = 0 /\ dropped' = dropped \cup {e.id} /\ UNCHANGED timerArmed
    ELSE Pop /\ retryCount' = retryCount + 1 /\ timerArmed' = (connected \/ timerArmed)
         /\ UNCHANGED dropped

\* A failed send: count it; past TransactionMessageAttempts drop the head
\* and reset the counter, otherwise re-arm the retry timer if connected.
RetryOrDrop(e) ==
    IF retryCount + 1 > TransactionMessageAttempts
    THEN /\ Pop
         /\ retryCount' = 0
         /\ dropped' = dropped \cup {e.id}
         /\ UNCHANGED timerArmed
    ELSE /\ retryCount' = retryCount + 1
         /\ timerArmed' = (connected \/ timerArmed)
         /\ UNCHANGED <<fifo, dropped>>

\* Mutation of Succeeded: the head is not popped (line 458 missing), so the
\* loop sends it again.
SucceededNoPop == UNCHANGED fifo /\ retryCount' = 0

\* "Request succeeded": pop the head and reset the retry counter.
Succeeded == Pop /\ retryCount' = 0

\* Send the head read by front() without a FIFO attached (a failure is not
\* re-queued); the call blocks, so the process may crash or the link change
\* before its result is handled.
FifoSend(w) ==
    LET e == worker[w].entry IN
    /\ worker[w].pc = "send"
    /\ attempts' = [attempts EXCEPT ![e.id] = @ + 1]
    /\ \E o \in SendOutcomes, status \in AuthStatus :
         /\ Deliver(o, e, status)
         /\ worker' = [worker EXCEPT
                         ![w].pc = IF o = "ok" /\ e.action = "StartTransaction"
                                   THEN "deauth" ELSE "result",
                         ![w].res = IF o = "ok" THEN "ok" ELSE "failed",
                         ![w].status = status]
    /\ UNCHANGED <<connected, registration, connVars, fifo, retryCount, timerArmed,
                   jobs, thread, nextMsg, calls, pushed, dropped, deauth,
                   missedStops, restarts, collabVars>>

\* An answered StartTransaction: the authorization cache update, then the
\* de-authorisation check and callback into the events handler, all before
\* the request is popped.
FifoDeAuth(w) ==
    /\ worker[w].pc = "deauth"
    /\ CheckDeAuthorized(worker[w].entry, worker[w].status)
    /\ worker' = [worker EXCEPT ![w].pc = "result"]
    /\ UNCHANGED <<connected, registration, connVars, fifo, retryCount, timerArmed,
                   jobs, thread, nextMsg, calls, pushed, delivered, dropped,
                   attempts, csOpen, missedStops, answered, resent, restarts,
                   collabVars>>

\* The result: on success pop and reset; on failure count it and either drop
\* the request or arm the retry timer; then evaluate the loop condition.
FifoResult(w) ==
    LET e == worker[w].entry IN
    /\ worker[w].pc = "result"
    /\ IF worker[w].res = "ok"
       THEN Succeeded /\ UNCHANGED <<timerArmed, dropped>>
       ELSE RetryOrDrop(e)
    /\ worker' = [worker EXCEPT ![w] =
          IF Continue THEN [IdleWorker EXCEPT !.pc = "front"] ELSE IdleWorker]
    /\ UNCHANGED <<connected, registration, connVars, jobs, thread, nextMsg,
                   calls, pushed, delivered, attempts, deauth, csOpen,
                   missedStops, answered, resent, restarts, collabVars>>

-----------------------------------------------------------------------------
(* handleMessage(RemoteStartTransactionReq): accepted when the connector   *)
(* (not 0) holds no transaction, the reservation manager admits the tag,   *)
(* and the events handler and the charging profile installer agree; the   *)
(* events handler then starts the transaction through startTransaction.   *)
(* A rejected request changes nothing.  busy records whether a            *)
(* startTransaction on that connector was in progress at that moment.     *)
RemoteStartTransaction(c, tag) ==
    /\ Cardinality(remoteStarts) < MaxRemoteStarts
    /\ txId[c] = 0
    /\ IsTransactionAllowed(c, tag)
    /\ remoteStarts' = remoteStarts \cup
          {[conn |-> c, tag |-> tag,
            busy |-> \E t \in Threads :
                        /\ thread[t].pc \in {"start_send", "start_adopt"}
                        /\ thread[t].msg.conn = c]}
    /\ UNCHANGED <<connected, registration, connVars, fifo, drainVars, thread,
                   nextMsg, calls, histVars, restarts, resv, nextResv, stamped, sampling>>

-----------------------------------------------------------------------------
(* handleMessage(RemoteStopTransactionReq): the central system asks to stop *)
(* a transaction it holds open.  The handler looks for a connector whose    *)
(* transaction_id equals the request's and asks the events handler; the    *)
(* answer changes no state here.  Only the "not found" answer to a request  *)
(* for a transaction that is in fact charging on a connector is recorded.   *)
RemoteStopTransaction(k) ==
    LET found == \E c \in Connectors : txId[c] # 0 /\ txId[c] = k
        charging == \E c \in Connectors : txStart[c] = k
    IN
    /\ k \in csOpen
    /\ missedStops' = IF ~found /\ charging THEN missedStops \cup {k}
                                            ELSE missedStops
    /\ UNCHANGED <<connected, registration, connVars, fifo, drainVars, thread,
                   nextMsg, calls, pushed, delivered, dropped, attempts,
                   deauth, csOpen, answered, resent, restarts, collabVars>>

-----------------------------------------------------------------------------

Next ==
    \/ \E t \in Threads, c \in Connectors, tag \in Tags :
          /\ IdleStartsOnly => txId[c] = 0
          /\ StartTransaction(t, c, tag)
    \/ \E c \in AllConnectors, tag \in Tags : ReserveNow(c, tag)
    \/ \E c \in Connectors, tag \in Tags : RemoteStartTransaction(c, tag)
    \/ \E t \in Threads : StartTransactionSend(t)
    \/ \E t \in Threads : StartTransactionAdopt(t)
    \/ \E t \in Threads : StartTransactionCompensate(t)
    \/ \E t \in Threads, c \in Connectors : StopTransaction(t, c)
    \/ \E t \in Threads : StopTransactionReset(t)
    \/ \E t \in Threads : StopTransactionSend(t)
    \/ \E c \in Connectors : SendMeterValues(c)
    \/ ConnectionUp
    \/ ConnectionDown
    \/ RegistrationChange
    \/ RetryTimerExpired
    \/ \E w \in Workers : ProcessFifoRequest(w)
    \/ \E w \in Workers : FifoFront(w)
    \/ \E w \in Workers : FifoSend(w)
    \/ \E w \in Workers : FifoDeAuth(w)
    \/ \E w \in Workers : FifoResult(w)
    \/ \E k \in MsgIds : RemoteStopTransaction(k)
    \/ Restart

Spec == Init /\ [][Next]_vars

\* Fairness: a call blocked in the message sender returns (the transport
\* times out), a worker runs the jobs queued on the pool, and an armed timer
\* fires.  Users, the link and the central system's verdicts get none.
Fairness ==
    /\ \A t \in Threads :
          /\ WF_vars(StartTransactionSend(t))
          /\ WF_vars(StartTransactionAdopt(t))
          /\ WF_vars(StartTransactionCompensate(t))
          /\ WF_vars(StopTransactionReset(t))
          /\ WF_vars(StopTransactionSend(t))
    /\ \A w \in Workers :
          /\ WF_vars(ProcessFifoRequest(w))
          /\ WF_vars(FifoFront(w))
          /\ WF_vars(FifoSend(w))
          /\ WF_vars(FifoDeAuth(w))
          /\ WF_vars(FifoResult(w))
    /\ WF_vars(RetryTimerExpired)

FairSpec == Spec /\ Fairness


-----------------------------------------------------------------------------
(* Properties *)

Ids(S) == {m.id : m \in S}
InFifo(id) == \E i \in 1 .. Len(fifo) : fifo[i].id = id

\* At-least-once delivery of the FIFO (spec.md 4.2): a request appended to
\* the FIFO leaves it only after processFifoRequest delivered it, or after
\* it was sent at least TransactionMessageAttempts + 1 times and dropped.
\* Breaks if pop() removes a request other than the one front() returned,
\* if the FIFO does not survive a restart, or if the retry counter runs
\* ahead of the current head's failures.
NoLostEntry ==
    \A id \in Ids(pushed) :
        ~InFifo(id) =>
            \/ id \in Ids(delivered)
            \/ id \in dropped /\ attempts[id] >= TransactionMessageAttempts + 1

\* Retry bound (spec.md 8.3): the drainer never sends one request more than
\* TransactionMessageAttempts + 1 times.
RetryBound == \A id \in MsgIds : attempts[id] <= TransactionMessageAttempts + 1

\* FIFO order at the central system (spec.md 3, 5 and 8.2): for one
\* transaction the central system receives StartTransaction, then its
\* MeterValues, then its StopTransaction.  When a MeterValues or a
\* StopTransaction first reaches it, the StartTransaction that opened the
\* transaction has arrived (or was dropped by the drainer), and no
\* MeterValues arrives after the transaction's StopTransaction.  Direct
\* calls of the threads and of the meter values manager race the drain of
\* the FIFO.
TransactionOrder ==
    [][\A m \in delivered' \ delivered :
         /\ m.action # "StartTransaction" =>
               m.ref \in Ids({s \in delivered : s.action = "StartTransaction"})
                         \cup dropped
         /\ m.action = "MeterValues" =>
               m.ref \notin {s.ref : s \in {x \in delivered : x.action = "StopTransaction"}}
      ]_vars

\* De-authorisation compensation (spec.md 8.6): a refused StartTransaction
\* that reached a provisional transaction makes exactly one
\* transactionDeAuthorized callback, and for that transaction: the
\* connector processFifoRequest finds (line 423) holds the transaction the
\* refused request opened, and no refused request is compensated twice.
DeAuthCompensation ==
    \A d, d2 \in deauth :
        /\ d.rejected = d.held
        /\ d.rejected = d2.rejected => d = d2

\* Requests an application thread holds between building and sending them,
\* or between sending and saving the answer.
InFlight == {thread[t].msg : t \in {u \in Threads : thread[u].pc # "idle"}}

\* No orphan at the central system (spec.md 4.1, 5): every transaction the
\* central system holds open is either running on a connector (the
\* connector's saved transaction came from that StartTransaction), or a
\* StopTransaction for it exists: delivered, queued or dropped in the FIFO,
\* or held by a thread.  Needs the adopt step of startTransaction, the reset
\* in stopTransaction and the FIFO of every failed call to agree, across
\* crashes of the process.
NoOrphanTransaction ==
    \A k \in csOpen :
        \/ \E c \in Connectors : txId[c] # 0 /\ txStart[c] = k
        \/ \E m \in InFlight : m.action = "StartTransaction" /\ m.id = k
        \/ \E m \in delivered \cup pushed \cup InFlight :
              m.action = "StopTransaction" /\ m.ref = k

\* Requests that stop the transaction opened by StartTransaction k.
StopsOf(k) ==
    {m \in delivered \cup pushed \cup InFlight :
        m.action = "StopTransaction" /\ m.ref = k}

\* One stop per transaction (spec.md 4.1, 5): stopTransaction emits at most
\* one StopTransaction for a transaction, whatever the callers do: the
\* check of transaction_id and its reset are not made in one critical
\* section, so two callers on one connector may both pass the check.
SingleStopPerTransaction == \A k \in MsgIds : Cardinality(StopsOf(k)) <= 1

\* At-least-once, not more (spec.md 4.2 and 6): a request reaches the central
\* system again only if no earlier call of it was answered; neither the
\* drainer nor a direct call re-sends a request the charge point saw
\* answered.  Breaks if pop() misses the answered head, or if two drain
\* jobs send the same head.
NoSpuriousResend ==
    resent = {}

\* A reservation is consumed once (spec.md 4.1 step 3, scenario S4): no two
\* StartTransaction requests carry the same reservationId.  Needs the
\* reservation that was stamped to be the one that is cleared, on the
\* connector and on connector 0.
ReservationConsumedOnce ==
    \A a, b \in stamped : a.res = b.res => a = b

\* RemoteStartTransaction (spec.md 4.3): the central system's request is
\* accepted only for a connector on which no transaction is in progress,
\* a startTransaction blocked in the message sender included.
RemoteStartOnIdleConnector == \A r \in remoteStarts : ~r.busy

\* Refinement (spec.md 4.2): the FIFO, the direct calls and the drainer
\* implement the abstract at-least-once queue of FifoDelivery, under the
\* mapping: the queue is the ids in m_requests_fifo, a request is done once
\* delivered, and its tries are the drainer's sends of it.
FifoAbs == INSTANCE FifoDelivery WITH
    Requests <- MsgIds,
    Attempts <- TransactionMessageAttempts,
    q <- [i \in 1 .. Len(fifo) |-> fifo[i].id],
    done <- Ids(delivered),
    tries <- attempts

FifoRefinement == FifoAbs!Spec

\* The link is eventually up for good and the charge point accepted.
LinkStable == <>[](connected /\ registration = "Accepted")

\* Some job, queued, running or awaited through the retry timer, will read
\* the FIFO.
DrainerActive ==
    jobs > 0 \/ timerArmed \/ \E w \in Workers : worker[w].pc # "idle"

\* Durability (spec.md 8.5): once the link stays up and the registration is
\* accepted, every request waiting in the FIFO is eventually sent or dropped.
QueuedRequestLeaves ==
    LinkStable => \A id \in MsgIds : [](InFifo(id) => <>~InFifo(id))

\* The drain loop with its retry timer does not stall: while a job is
\* queued, running or awaited, every request in the FIFO eventually leaves
\* it, provided the link stays up.
ActiveDrainCompletes ==
    LinkStable =>
        \A id \in MsgIds : [](InFifo(id) /\ DrainerActive => <>~InFifo(id))

\* RemoteStopTransaction (spec.md 4.3 and 9): a request naming a transaction
\* the central system accepted, while that transaction is charging on a
\* connector, is never answered as if no connector held it.
RemoteStopFindsTransaction == missedStops = {}

=============================================================================

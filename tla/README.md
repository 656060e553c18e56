# TLA+ models of the open-ocpp transaction core

The model covers `src/src/chargepoint/transaction/TransactionManager.cpp`, the
charge-point side of OCPP 1.6 transactions. The repository's other source file,
`src/tests/websockets/test_websockets_url.cpp`, holds unit tests of a URL parser.
That parser's source is not in the repository, so it is not modelled.

## 1. Inventory

### Components and their state

| Component | State (code) | Operations |
|---|---|---|
| ConnectorState | `connector->transaction_id` (0, -1 provisional, or the central system's id), `transaction_id_tag`, `transaction_start`, `status`, `reservation_id`; saved with `saveConnector` under `connector->mutex` | written by startTransaction/stopTransaction; read by processFifoRequest and the RemoteStart/RemoteStop handlers |
| TransactionFifo | `m_requests_fifo`, persisted in the database | `push` (done by the message sender when a call with the FIFO attached fails), `front`, `pop`, `size` |
| FifoDrainer | `m_request_retry_count`, `m_request_retry_timer` (single shot), jobs queued on `m_worker_pool` | `updateConnectionStatus`, the timer callback (queues a job), `processFifoRequest` |
| TransactionManager start/stop | locals of the calls, held across the blocking `m_msg_sender.call` | `startTransaction`, `stopTransaction` |
| Remote handlers | none of its own | `handleMessage(RemoteStartTransactionReq)`, `handleMessage(RemoteStopTransactionReq)` |
| Collaborators, not in `src/` | message sender, status manager (registration), reservation manager, authorization cache, smart charging, meter values, events handler | modelled from `spec.md` where they matter |

### How the components interact

- Application threads call `startTransaction` and `stopTransaction`. Each call blocks in `m_msg_sender.call(..., &m_requests_fifo)`. If the call fails, the sender appends the request to the FIFO (`spec.md` 6).
- A failed start leaves the connector with the provisional id `-1`. A start that the central system refuses is followed by a compensating StopTransaction.
- The drainer runs as jobs on a worker pool. A job is queued by a reconnection with a non-empty FIFO (line 96), or by the retry timer (line 79).
- A job sends the FIFO's head without a FIFO attached. Depending on the result it pops the head, counts a retry, drops the head, or re-arms the timer.
- A refused queued start calls `transactionDeAuthorized` on the connector that holds `-1` with the same tag.
- The central system's RemoteStop looks for a connector whose `transaction_id` equals the requested id.

### What is hard here

- Several actors interleave: application threads, pool workers, the timer, link flaps and the answers of the central system.
- A call can be delivered and still fail (the response is lost), so a request may be sent twice.
- A direct send can run while older requests wait in the FIFO.
- Counting retries has an off-by-one edge.
- The provisional id `-1` is shared by every offline transaction.
- Whether the FIFO ever drains depends on what schedules a job.
- Restarts: the FIFO is persisted, but the retry counter and the queued jobs are not.

### Properties that make each component correct

- **FIFO and drainer:**
  - A queued request leaves the FIFO only after it was delivered, or after `TransactionMessageAttempts + 1` attempts.
  - Attempts per request are bounded.
  - Once the link is stable, the FIFO eventually drains.
- **Start/stop:**
  - Requests of one transaction reach the central system in the order start, meter values, stop.
  - A running transaction is never replaced without a stop.
- **De-authorisation:** it hits only the transaction that the refused start created, and exactly once.
- **RemoteStop:** it finds every transaction the central system holds open that is charging.

`PROJECT.json` lists each hazard at its source line, with the properties that cover it.

## 2. Plan

Done:

1. **TransactionManager.tla** covers the FIFO, the drainer, local start/stop, the RemoteStart and RemoteStop handlers, and the message-sender contract. It also models the central system's view of which transactions are open.
2. **Restart.** Covered by the `Restart` action.
3. **Reservations and RemoteStart.** The reservation manager is spec-modelled.
4. **Two threads on one connector.** Covered by the run `concurrent_stops`.
5. **FifoDelivery.tla**, the abstract FIFO, together with its refinement.
6. **MeterValues entries.** The meter values manager, spec-modelled, pushes them into the same FIFO. `TransactionOrder` checks the order start, meter values, stop.
7. **The unpersisted retry counter** across a restart (line 72): `Restart` resets it as the constructor does.

8. **The drainer's blocking call split from its result** (`FifoSend`, `FifoDeAuth`, `FifoResult`), so that a crash, a link change or another worker can come between the call, the de-authorisation callback and `pop()`. The abstract FIFO gets its own `RemoveHead` step to match.

Next:

9. **Connector statuses other than Reserved**, such as the `Unavailable` test of RemoteStart. They belong to the status manager.

## 3. The modules

### `TransactionManager.tla`

- **Variables.** They mirror the code:
  - `txId` and `txTag` are the connector fields;
  - `resv` is the connector's reservation: status Reserved plus `reservation_id`, kept by the reservation manager;
  - `fifo` is `m_requests_fifo`;
  - `retryCount` and `timerArmed` are the drainer's members;
  - `jobs` is the pool queue.

  `worker[w]` holds the position inside `processFifoRequest` and the head that `front()` returned. `thread[t]` holds the position inside start/stop and the request that was built.
- **History variables:**
  - `pushed`, `delivered`, `dropped` and `attempts`: what the FIFO and the sender did with each request;
  - `answered` and `resent`: requests whose call was answered, and requests delivered again after an answer;
  - `deauth`: the `transactionDeAuthorized` callbacks;
  - `missedStops`: RemoteStop requests answered "not found";
  - `stamped`: reservation ids put on starts;
  - `remoteStarts`: accepted remote starts;
  - `txStart`: the start request behind a connector's transaction;
  - `csOpen`: the transactions the central system holds open.
- **startTransaction** is four actions, split where the code blocks or takes the connector mutex:
  - `StartTransaction` checks `isTransactionAllowed`, builds the request, and stamps and clears a reservation (`ReservationUsed` and `StampReservation`, lines 123-153);
  - `StartTransactionSend` makes the blocking call. If the answer is a refusal, it prepares the compensating stop;
  - `StartTransactionAdopt` writes and saves the connector (lines 179-198), then starts the sampled meter values. It takes the central system's id, or `FailedStartId` (the provisional `-1`, line 176) when the call failed;
  - `StartTransactionCompensate` sends the compensating stop.
- **stopTransaction** is three actions:
  - `StopTransaction` makes the unlocked check, stops the sampled meter values and builds the request (lines 223-247);
  - `StopTransactionReset` resets (`ResetConnector`, lines 249-256) and saves the connector under the mutex;
  - `StopTransactionSend` sends the request.
- **The drainer:**
  - `ProcessFifoRequest` applies the gates, including the 250 ms wait for registration (`WaitForRegistration`);
  - `FifoFront` reads the head;
  - `FifoSend` makes the blocking call (a StartTransaction, a StopTransaction or a MeterValues) and keeps its result in `worker[w]`;
  - `FifoDeAuth`, for an answered StartTransaction only, makes the de-authorisation check and the `transactionDeAuthorized` callback (lines 416-433);
  - `FifoResult` pops the head (`Succeeded`) or goes through `RetryOrDrop`, then evaluates `Continue`;
  - `RetryTimerExpired` queues a job, as the timer callback does.
- **Remote handlers:**
  - `RemoteStartTransaction` (lines 289-336) records an accepted request, and whether a local start on that connector was in flight;
  - `RemoteStopTransaction` looks for the transaction id.
- **`Restart`** models a crash and restart:
  - It keeps what the database holds: the FIFO, the connectors and the reservations.
  - It rebuilds the rest as the constructor does (lines 44-80): retry count 0, timer stopped, no jobs, calls in flight lost, link down, registration pending.
  - `MaxRestarts` bounds it.
- **Environment:**
  - `ConnectionUp` (which can queue a job) and `ConnectionDown` come from `updateConnectionStatus`;
  - `RegistrationChange` is the status manager; once Accepted, the registration stays Accepted;
  - `ReserveNow` is the central system's reservation request, spec-modelled;
  - `SendMeterValues` is the meter values manager, spec-modelled. `sampling` holds the connectors whose sampled meter values are started. On such a connector it sends a MeterValues with the connector's `transaction_id` through the FIFO. A restart leaves no sampling started.
- **Message sender** (from `spec.md` 6). A call on a live link has three outcomes: answered, delivered with the answer lost, or not delivered. On a down link the call is not delivered. A failed call with a FIFO attached appends the request in the same step.
- **`IdleStartsOnly`.** When TRUE, the application starts a transaction only on a connector without one. That is the caller discipline `spec.md` 3 and 7 assume. The runs that isolate another failure set it.
- **Abstractions:**
  - Any status other than Accepted is one value, `Invalid`.
  - The central system's transaction id is the id of the start request. An unanswered `StartTransaction.conf` carries 0.
  - Connectors other than reserved ones are taken as available.
  - Authorization cache updates, charging profiles, the content of meter values, the request's idTag and logging change no state this core reads, so they are left out.

### `FifoDelivery.tla`

This module states what the FIFO promises (`spec.md` 4.2): an at-least-once queue.

- A request not in the queue may be delivered by a direct call, and is appended if its call was not answered.
- Only the head is sent from the queue, at most `Attempts + 1` times (`SendHead`).
- The head leaves only once it was delivered or its attempts are used up (`RemoveHead`, a step of its own, as `pop()` follows the call in the drainer).

`TransactionManager` maps onto it with `FifoAbs == INSTANCE FifoDelivery WITH ...`:

- the queue is the ids in `fifo`;
- `done` is the ids delivered;
- `tries` is `attempts`.

`FifoRefinement` (`FifoAbs!Spec`) is checked as a property.

## 4. Runs

| Run | cfg | Result | Shows |
|---|---|---|---|
| drain_safety | MCTransactionManager.cfg | pass (1.8 M states, about 70 s) | `RetryBound`, `NoLostEntry`, `NoSpuriousResend`, `NoOrphanTransaction`, `SingleStopPerTransaction`, `ReservationConsumedOnce` and `TypeOK` hold with one thread that starts only on idle connectors, one worker, one reservation and no crash |
| drain_liveness | MCLiveness.cfg | pass | `ActiveDrainCompletes`: once the link is stable, a running or scheduled job empties the FIFO; `FifoRefinement`: the FIFO implements `FifoDelivery` |
| restart_safety | MCRestart.cfg | pass (1.2 M states) | with a crash at any point, `NoLostEntry` holds: a request leaves the persisted FIFO only after a delivery or after `TransactionMessageAttempts + 1` sends |
| transaction_order | MCOrdering.cfg | violation | `TransactionOrder`: a start fails offline, the connector adopts -1 and sampling starts (line 193); after reconnection a MeterValues sent directly reaches the central system before the StartTransaction still queued in the FIFO |
| deauth_wrong_transaction | MCDeAuth.cfg | violation | `DeAuthCompensation`: on one connector, offline start, stop and start again with the same tag; the refusal of the first StartTransaction de-authorises the second transaction (match by -1 and tag, line 427) |
| two_drainers_lose_entry | MCTwoWorkers.cfg | violation | a link flap queues two jobs; both pop; an unsent request is lost |
| fifo_stuck_on_live_link | MCStuckFifo.cfg | violation | a request queued on a live link is never sent |
| remote_stop_misses_provisional | MCRemoteStop.cfg | violation | the central system's id never replaces `-1`, so RemoteStop is rejected |
| crash_orphans_transaction | MCCrashOrphan.cfg | violation | a crash between the accepted start (line 161) and `saveConnector` (line 190) leaves a central-system transaction that nothing stops; a start on a busy connector does the same |
| zero_reservation_reused | MCReservationZero.cfg | violation | a connector-0 reservation is stamped, but line 149 clears the target connector, so the reservation is stamped again |
| remote_start_during_start | MCRemoteStart.cfg | violation | RemoteStart is accepted while a local start on the connector is blocked in the sender |
| concurrent_stops | MCTwoThreads.cfg | violation | two stops on one connector both pass the unlocked check (line 232); two StopTransactions are emitted |

The findings in `PROJECT.json` explain each violation. Without restarts `RetryBound` holds. With one restart it breaks, because `m_request_retry_count` is not persisted (line 72). No run checks a bound across restarts, and none checks `NoSpuriousResend` or `DeAuthCompensation` across a crash between the answered call and `pop()` (line 458): such a crash re-sends the head and can repeat its de-authorisation callback, which at-least-once allows but spec.md 8, property 6 does not.

Each property of a passing run is broken by a mutant of the code it is about:

| Mutant | Breaks | The slip it models |
|---|---|---|
| `RetryOrDropEarly` | `NoLostEntry` | `>=` for `>` |
| `RetryOrDropNoReset` | `TypeOK` | no counter reset on drop |
| `RetryOrDropUncounted` | `RetryBound` | the failure not counted (no `m_request_retry_count++`) |
| `RetryOrDropPopAlways` | `FifoRefinement` | `pop()` also on a retry |
| `WaitForRegistrationSkipped` | `ActiveDrainCompletes` | no 250 ms wait for registration |
| `SucceededNoPop` | `NoSpuriousResend` | no `pop()` after a success |
| `FailedStartIdUnset` | `NoOrphanTransaction` | no `transactionId = -1` on failure |
| `ResetConnectorKeepId` | `SingleStopPerTransaction` | `transaction_id` not reset |
| `StampReservationKeep` | `ReservationConsumedOnce` | the stamped reservation not cleared |
| `RestartVolatileFifo` | `NoLostEntry` (restart_safety) | the FIFO not persisted |

### Bounds

| Bound | Value | Why it is enough |
|---|---|---|
| `TransactionMessageAttempts` | 1 | exercises both the retry branch and the drop branch |
| `MaxCalls` | budget shared by start, stop and meter-value calls: 3 in drain_safety and most violation runs, 2 in drain_liveness, restart_safety and three violation runs | start, stop, start (or start, stop, stop): the shortest sequence behind each violation and each mutant |
| `MaxJobs` | 1 in drain_safety, 2 elsewhere | two queued jobs are the minimum for the concurrent-drainer case |
| `MaxRestarts` | 1 in restart_safety and crash_orphans_transaction, 0 elsewhere | one crash reaches every crash window, since state is lost only once |
| `MaxReservations`, `MaxRemoteStarts` | at most 1 | one reservation consumed twice, and one remote start, show the cases |
| tags | 1 | `Tags = {tagA}`; the de-authorisation and reservation cases need equal tags |
| connectors | 1 in the passing runs, 2 in several violation runs | the FIFO is shared by all connectors, so one suffices for its properties |
| threads, workers | 1; 2 in concurrent_stops and two_drainers_lose_entry | the open-ocpp charge point creates its pool outside `src/`; the spec calls it a bounded pool |

### Fairness

Fairness is weak fairness on the steps the code will take on its own:

- a call blocked in the sender returns, because the transport times out;
- a thread holding the connector mutex completes its update;
- a pool worker runs the queued jobs;
- an armed timer fires.

The user, the link, the central system's verdicts and crashes get no fairness. The liveness property assumes, as its antecedent, that the link eventually stays up and the registration is accepted.

## 5. Not modelled

- **The content of MeterValues.** Only the transaction a MeterValues names matters to this core. The meter values manager is not in `src/`, so its sampling is modelled from `spec.md`.
- **Connector statuses other than Reserved.** They belong to the status manager. In the model, the `Unavailable` test of RemoteStart is always passed.
- **The authorization cache and charging profiles.** They change no state this core reads.
- **The URL-parser tests.** They test a parser whose source is not in the repository.

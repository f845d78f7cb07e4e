# webchat-adapter: a TLA+ verification project

`chatgpt_web_adapter` drives the ChatGPT web product from Python.  It never
calls a public API: it asks a page that the user's own browser has open to write
(*browser-owned*, the production path), or it replays the page's requests itself
(*browserless*, experimental).  Three rules run through its code and docs, and
most properties here are consequences of them:

1. a user's message is written **at most once**: there is no automatic retry and
   no fallback from one path to the other;
2. a failure after the point where the message may have been sent is reported as
   an **unknown outcome**, never as "nothing was submitted";
3. only a **canonical readback** of the conversation makes an answer final;
   streamed text is provisional.

This directory holds TLA+ modules of the parts that enforce these rules under
concurrency and failure, TLC models of them, and TLAPS proofs.  Paths below are
relative to `src/src/chatgpt_web_adapter/` unless they start with `docs/`.

## 1. Inventory

### How the parts fit together

```
 application threads
      |  ChatGPTProductRuntime                     product_runtime.py
      v
 BrowserOwnedProductTransport  ---- dispatch RLock, one pending slot
      |      submit_text / await_final / send_text
      v
 BrowserOwnedWriteRuntime      ---- _authority_lock, lease, turn, disposal timer
      |      issue lease, delegate, record, release
      v
 browser_native_client         ---- baseline read, one turn, canonical polling
      |
 BrowserNativeProvider         ---- thread-local lease, one RPC per connection
      |      loopback TCP, one JSON frame each way
      v
 BrowserNativeBroker           ---- turn_lock + reservation, one thread per request
      |      Native Messaging (stdin/stdout frames)
      v
 MV3 service worker            ---- one active request, runtime tab, stored lease
      |      debugger / DOM
      v
 ChatGPT page

 BrowserlessRequestTransport   ---- phases, deadline, mutation lock of its client
      |      shared write fence on every mutating entry point
      v
 ChatGPTWebClient              ---- one-slot Sentinel bundle store, _parse_event
      |      curl
      v
 ChatGPT backend
```

### Components

| Component | State it keeps | Operations | What makes it correct |
|---|---|---|---|
| Native host broker `browser_native_host.py` | `turn_lock`, reserved lease, reservation timer, pending queues, connection and tab flags | turn, canonical read, readback completion, tab release, liveness probe; routing of extension frames; timer expiry; `close()` | the lane has one owner at any time, is never leaked, stays with a lease until its readback is classified; every request is answered |
| Write runtime and leases `browser_owned_write_runtime.py`, `browser_authority_lease.py` | `_authority_lock`, generation, newest lease, last turn, pending disposal timer | issue, record write, release, finalize, fail, mark unknown, schedule, dispose | a tab is closed only on a newest, released lease; a lease is released only after its readback was acknowledged; outcomes after delegation are classified |
| Native turn client `browser_native_client.py`, `browser_context_canonical.py`, `browser_native_provider.py` | thread-local lease, baseline, deadline | baseline read, turn RPC, polling, completion; chunked reads | one turn per call; a lost answer after delegation is unknown, not retried |
| Product transport and submission lifecycle `browser_owned_product_transport.py`, `browser_owned_submission_lifecycle.py` | dispatch RLock, `_dispatch_reserved`, `_pending` | `send_text`, `submit_text`, `await_final` | one turn at a time; a handle is awaited once, under its own lease, on any thread; the slot is freed exactly when its turn is final |
| Sentinel bundle store and prepared send `sentinel_bundle.py`, `sentinel_transaction.py`, `prepared_text_send.py` | one slot (bundle, reserved), acquisition lock, refill thread, `_parse_event` hook | prefetch, reserve, consume, release, discard, refill; prepared send with stream and recovery | a bundle is used at most once; a reservation has one live owner; a handed-off stream is never final |
| Shared write fence `browserless_shared_write_fence.py`, `browserless_request_scope.py` | thread-local authority stack, one re-entrant lock per client, allowed-predecessor edge | every mutating entry point of a client, the browserless request, its health read | no sibling branches, no lock cycles, one write per call |
| Browserless request transport `browserless_request_transport.py`, `browserless_request_guards.py` | phase, deadline, evidence | prepare, Sentinel, write, stream, canonical finalize | errors are classified by whether the final write had begun; finality from the new turn's own node |
| Conversation client `client.py` and helpers | session, settings, parser | direct send, approve, attach, polling, export | parsing and payload construction |
| MV3 service worker `browser_native_extension/service_worker*.js` | `activeRequestId`, native port, runtime tab id, stored lease | turn, read, release, reconcile, reconnect | one request at a time; a lease mismatch is refused; orphan tabs are reclaimed |
| Page automation (rich input, model picker, generated artifacts) | per-turn DOM and debugger state | select, stage, submit | the submit has one commit point |
| Streaming and completion observers | revisions, provisional text | append, replace, complete | observation grants no authority |
| Temporary chat `temporary_product_runtime_pr8_13.py`, `browser_native_extension/service_worker_temporary_*.js` | the token and conversation of the session in Python; the lifecycle, its tab and the stored tab id in the extension | open, prepare, intercept, prove, release or abort the write, end, retire, sweep after a restart | a Temporary write is proven before it leaves; a conversation id alone continues nothing; an ended lifecycle writes no more |
| Product runtime `product_runtime.py`, `product_media.py`, `product_model_profile_pr8_10.py` | its transport, a stack of scopes (attachments, model requirement) per call | send, submit, await, end a Temporary chat | a write carries exactly what its call asked for, or is not made; scopes end with their call |
| Revision-safe streaming `revision_safe_streaming_pr8_9.py`, `standalone_send.py` | text of the newest message, last number, incompleteness; what stands on the terminal | apply a frame, reconcile, render, finish | provisional text is what the product sent or is marked incomplete; the terminal ends on the canonical text |
| Product observations `product_observations.py`, `product_connector_lifecycle_pr10_0.py`, `canonical_product_observation_gate_pr9_3.py` | latest connectors and actions, source ids, aliases, the canonical gate | consume, merge, correlate, forward canonical | one source for an address, citations after their source, one story per activity |
| Approvals `approval_policy.py`, `policy_approval.py`, `wait.py`, `client.py` | policies on the client object, the mapping of a conversation | find, wait, approve, send and approve | only what the call's own policy permits is approved, and once |
| Authentication `auth.py`, `auth_*.py`, `browser_profile_lock.py`, `browser_sentinel.py` | the auth file, the browser profile and its lock | load, refresh, log in, capture, save | one browser on a profile; what was saved is what is loaded; no save loses the file's session while the profile has one |
| Live gates `product_*live_gate*.py`, `browser_authority_*.py`, `src/tools/pr10_1_*_live_gate.py` | a report, attempts and completions, a budget of writes | check support, look, make a turn, await a disposal | a pass proves its summary; after a doubtful write nothing is written |
| CLI, doctor, probes, static declarations | none | records, files, reports | sequential |

`PROJECT.json` lists every one with its files and its status.

### What is hard here

* **Interleavings.** Application threads, one broker thread per request, timer
  threads in two processes and background refill threads share locks that are
  released and taken again inside one operation.
* **Ownership without a thread.** After an accepted turn the broker's handler
  ends with `turn_lock` still taken, on behalf of a lease; who releases it
  depends on a race between a read, a completion, a timer and `close()`.
* **Lost and late answers.** Every RPC can be lost after it was executed, and the
  extension may answer when nobody waits any more.
* **Timers that were cancelled too late.** `threading.Timer.cancel()` does not
  stop a callback that has been entered.
* **Re-entrancy.** User callbacks run inside turns, on the thread that holds the
  re-entrant locks.
* **Error paths that call out again.** `finally` blocks and handlers perform RPCs
  that can fail themselves.

The hazards, each at its line and with the properties that guard against it, are
in `PROJECT.json`.

## 2. Plan

| # | Modules | State |
|---|---|---|
| 1 | `AuthorityLane` (abstract), `Broker`, `BrokerProofs` | done |
| 2 | `AuthorityLedger` (abstract), `WriteRuntime` | done |
| 3 | `SubmissionSlot` (abstract), `ProductTransport` (extends `WriteRuntime`), `ProductTransportProofs` (of both) | done |
| 4 | `SentinelSlot` (abstract), `PreparedSend`; proofs in `TurnProofs` | done |
| 5 | `WriteFence`, `WriteFenceProofs` | done |
| 6 | `TurnContract` (abstract), `BrowserlessTurn`, `BrowserlessTurnProofs` | done |
| 7 | `Approvals`, `ApprovalsProofs` | done |
| 8 | `Authentication`, `AuthenticationProofs` | done |
| 9 | `TemporaryTab`, `ProductRuntime` (extends it), `ProductRuntimeProofs` | done |
| 10 | `RevisionSafeText`, `ProductObservations`, `StreamTurn` (extends `RevisionSafeText`, has an instance of the other); proofs in `TurnProofs` | done |
| 11 | `RichInputContract`, `GatePlans`, `ArtifactGates`, `LiveGate` (extends them); proofs in the second half of `AuthenticationProofs` | done |
| 12 | `Extension`: the one active request, reconnection of the native port, the ordinary runtime tab and its stored lease; `Bridge` composes it with `Broker` | planned |
| 13 | The collector of chunked canonical reads | planned |

Every safety property of the passing runs is proved (section 6), under the hypotheses
section 7 names.
Modules that are to be proved about use no `RECURSIVE` operator, declare their
assumptions by name and state invariants as conjunctions.

## 3. The modules and the code

A step of a model is what no other thread can see the middle of: a critical
section, one operation on a lock or a queue, one exchange with another process.
Program counters name positions between those steps.  Definitions keep the
source's names where they have one; the `map` of `PROJECT.json` gives the lines
of each.

### AuthorityLane and Broker (`browser_native_host.py`)

`AuthorityLane` is the promise in the source's words, "browser writes, canonical
reads, and runtime-tab disposal share one authority lane": one operation holds
it, or it is retained for one lease, or it is being settled.

`Broker` is the process: one handler thread per request (`pc`, `op`, `lease`,
`releaseLane`, `answer`), the lane (`turnLock`, `reservedLease`,
`reservationTimer`, and `timer`, the thread of each reservation's timer), the
queues (`pending`, `waiter`), and the main thread that serves stdin and then runs
`close()` (`main`).

| Code | Actions |
|---|---|
| `handle_local_request`, admission | `Arrive` |
| `_claim_authority_lane` | `ClaimReserved` (under the guard), `AcquireLock` (after it) |
| the exchange with the extension | `Forward`, `ForwardFails`, `TakeMessage`, `WaitTimeout` |
| `_reserve_authority_for_readback` | `Reserve`, `ArmTimer` (`timer.start()` is outside the guard) |
| the `finally` blocks | `Pop`, then `AfterExchange`: reserve, release or leave |
| `_complete_authority_reservation` | `CompleteReservation`, `ReleaseLock` |
| `_expire_authority_reservation` | `TimerFires`, `ExpireReservation`, `ReleaseExpired` |
| `route_native_message` | `Hello`, `RuntimeState`, `RouteMessage` |
| `close` and the exit of the process | `BeginClose`, `CloseReleasesLane`, `StopServer`, `DrainPending`, `ExitProcess` |

The extension is its environment: it sends intermediate frames and one answer to
each request, in any order, late, or never.  A timer is named after the request
that created it; a request creates at most one.

### AuthorityLedger and WriteRuntime (`browser_owned_write_runtime.py`, `browser_authority_lease.py`, `browser_native_client.py`, `browser_context_canonical.py`)

`AuthorityLedger` is "no tab disposal while browser authority is still required"
(docs/browser_authority_lease_pr8_8.md): leases are issued one after the other,
released at most once and only while newest, and the tab is closed only on a
newest lease that was released.

`WriteRuntime` has one record per call (a *turn* is one call of `send_text`, or of
the two halves of a split submission) and the runtime's shared fields. The broker
is seen through `lane`, the turn on whose behalf it is taken or retained, which
is the `held`/`retained` of `AuthorityLane`.

| Code | Actions |
|---|---|
| checks before the write | `Refuse` |
| `_issue_authority`, `set_browser_authority_lease` | `Issue` |
| `submit_browser_native` | `ReadBaseline`, `WriteRefused`, `Delegate`, `WriteFails` |
| `_record_write_completion`, `_release_authority_from_write_event` | `RecordWrite`, `ReleaseOnWrite` |
| `await_browser_native_final` | `PollRead`, `ReadFinal`, `ReadFails`, `CallbackRaises` |
| `acknowledge_readback`, `complete_canonical_readback` | `AcknowledgeFinal`, `AcknowledgeFailed`, `AcknowledgeAtLast` over `Completes` |
| `_release_authority_after_readback` | `ReleaseAfterReadback` |
| `_schedule_disposal` | `StoreTimer`, `StartTimer` |
| `dispose_if_still_current` | `TimerFires`, `BeginDisposal`, `DisposalRefused`, `DisposalForwarded`, `DisposalAnswered` |
| `_finalize_turn`, `_fail_turn`, `_mark_release_unknown` | `FinalizeTurn`, `FailTurn`, `MarkReleaseUnknown`, `SettleUnacknowledged` |
| the `finally` blocks | `AcknowledgeAtLast`, `CloseCall` |

A critical section of `_authority_lock` is one step that needs `LockFree`; only a
disposal holds the lock over an RPC, and `authorityLock` names it.
`Clients` are the clients the runtime may be given, and `client` the one it has:
`"legacy"` has no `complete_canonical_readback` and releases at the accepted
write, `"native"` releases after its readback.

### SubmissionSlot and ProductTransport (`browser_owned_product_transport.py`, `browser_owned_submission_lifecycle.py`)

`ProductTransport` extends `WriteRuntime`: every step of a call is guarded by the
transport's dispatch lock and its slot. `BeginSend`, `BeginSubmit`,
`RejectPending` and `BeginAwait` are the entries of
`_serialize_submission_operation` with `ensure_no_pending_submission` and
`_reserve_dispatch`; `Publish` stores `_pending`; `Return` leaves the call and
gives lock, reservation and slot up as the operation does. `caller` links a call
made from a callback to the call it is made in, which an `RLock` admits.
`SubmissionSlot` is what this promises: one slot, held from before the write until
the answer is final.

### SentinelSlot and PreparedSend (`sentinel_bundle.py`, `sentinel_transaction.py`, `prepared_text_send.py`)

Actors are the prepared sends, the refill thread each may create and explicit
prefetches. `Gate` takes the acquisition lock; `ReserveFound`, `ReserveEmpty`,
`SlotBusy`, `Acquire`, `AcquireFails`, `Install`, `GiveBack` are
`get_prepared_sentinel_bundle` and `prefetch_finalized_sentinel_bundle` over the
store's `reserve`, `install` and `release`; `Expire` is time. `Consume` is
`build_final_headers`, `RegisterRefill`, `StartRefill`, `SkipRefill` are
`start_finalized_sentinel_bundle_refill`. `ReadHook`, `SetHook`, `FinishStream`
save, replace and restore the parser hook of the shared client in separate steps,
as the code does; a hook is the set of the captures it runs through.
`SentinelSlot` is the EMPTY, AVAILABLE, RESERVED life cycle of
docs/sentinel_bundle_lifecycle.md with burned bundles.

### WriteFence (`browserless_shared_write_fence.py`, `browserless_request_scope.py`, `browserless_request_transport.py`)

Each thread has a stack of calls, which is its thread-local authority stack. A call
enters its authority (`Call`, or `Nested` from a callback, where
`Conflict` is `_authority_conflict`), takes the client's re-entrant lock
(`Acquire`, or `QueueTimeout` for a browserless request whose deadline passes in
the queue), reads the parent again (`Refresh`, `ValidatePayload`, `Attach`),
writes (`Write`) and leaves (`Exit`). `Delegate` is `send_to_conversation` calling
the client's `send`; `CallPredecessor` is a decorator calling the fenced callable
it replaced (`_consume_allowed_fence_predecessor`). A conversation is the sequence
of the parents of its messages, so that a branch is visible.

### TurnContract and BrowserlessTurn (`browserless_request_transport.py`, `browserless_request_scope.py`, `browserless_request_guards.py`, `client.py`)

`TurnContract` is what the caller of a turn may rely on: at most one write, an
answer only after it, "not submitted" only without one, and one report that stays.

`BrowserlessTurn` has one record per call of `send_text` and follows it through the
request's phases; `tree` is the conversation as the server has it (exchanges with
their parent, author and completion) and `wire` what became of each write.

| Code | Actions |
|---|---|
| the queue for the client's lock | `Start`, `Acquire`, `QueueExpires` |
| the header dispatchers of the scope | `Scope`, `Unscope` |
| the canonical parent | `Attach`, `RefuseBeforeWrite` |
| the two-phase Sentinel | `SentinelPrepare`, `SentinelFinalize` |
| `_bind_current_prepared_write` | `Bind`, `Unbind` |
| conversation preparation, headers, curl, the final write | `Prepare`, `PrepareFails`, `Headers`, `Curl`, `Dispatch`, `DispatchFails` |
| the stream | `StreamText`, `StreamIdentity`, `StreamNothing`, `StreamFails`, `CallbackRaises` |
| `_recover_stream_result_from_conversation` and polling | `SkipRecovery`, `Recover`, `RecoverFails`, `PollFinds`, `PollGivesUp`, `PollExpires` |
| the canonical finality loop with its guard | `ReadStatus`, `ReadMessages`, `FinalityFails` |
| the deadline of the call | `Expire` |

The classification of every error is part of the action that meets it (`Prewrite`,
`Report`). The environment is the server (`Accept`, `Lose`, `Complete`), other
people in the conversation (`OtherWrites`) and a caller who puts a header builder
of its own on the client (`CallerPatches`). A canonical read shows the conversation
as of some earlier moment (`Snapshots`).

### Approvals (`approval_policy.py`, `policy_approval.py`, `client.py`, `status.py`, `wait.py`)

A mapping of messages and cards (`nodes`, each with its parent, the recipient of a
card and who wrote it) is what the backend holds; a call reads it, never at the same
moment as it acts. The policy of a call is not an argument of the code that
approves: the guards are put on the client object as a wrapper around its finder
and its waiter, and the stacks `finder` and `waiter` are what is there.

`Start`, `Look`, `Idle`, `ReadFails` are the wait-and-approve loop; `EnterApproval`,
`Read`, `Prepare`, `ApprovalFails`, `Stream`, `StreamBreaks`, `Poll`,
`PollTimesOut` one approval inside the fence; `Send`, `SendFails`, `Discover`,
`Enter` `send_and_auto_approve`; `ReadStatus`, `StatusTimesOut`, `ReadMessage`,
`ReadApproval` `wait_until_completed`. The backend continues with an answer, a card
or a task (`Answer`, `CompleteMessage`, `PostCard`, `TaskEnds`), the user answers a
card or edits a message (`UserAnswers`, `UserEdits`), and an approval whose stream
broke may arrive late (`LateAllow`).

### Authentication (`auth.py`, `auth_store.py`, `auth_refresh.py`, `auth_browser.py`, `browser_profile_lock.py`, `browser_sentinel.py`)

Two processes share the auth file (`file`) and a browser profile (`profile`, with
the `flock` in `holder`). The server issues sessions one after the other, of which
`near` ones are close to their expiry and `dead` ones past it; a cookie jar holds
a session in the plain cookie, in chunks, or in both, and a name that is there may be
blank. `StartsAssumption` says what the first start may find: a profile in which the
browser has deleted what it was told to delete (`Clean`), and a file whose jar was
written by this code (`Whole`): no blank chunk, and a blank plain cookie only beside
chunks.

`Begin`, `Load` are `load_auth` and a client's construction; `AskSession` is the refresh
against the session endpoint; `BeginSave`, `EndSave` are the write of the file
under the lock of the process (`writer`); `AcquireProfile`, `ProfileBusy`, `Seed`,
`Open`, `SignedIn`, `ClearSeeds`, `SignInTimesOut`, `Close` the browser login;
`BeginCapture`, `Captured`, `CaptureFails` the Sentinel capture over the same
profile. `Crash` ends a process at any step, `Age` lets tokens expire.

### TemporaryTab and ProductRuntime (`product_runtime.py`, `product_media.py`, `product_provenance.py`, `temporary_product_runtime_pr8_13.py`, `browser_native_extension/service_worker_temporary_chat_production_pr8_13.js`)

`TemporaryTab` is the extension: the live lifecycle, the tab id it stores for the
case that the worker dies, the open tabs, and the turn it works on. `Create`,
`Store`, `Load`, `Resume`, `RefuseContinuation` open or find the tab; `Click` and
`PageSends` submit; `LetGo` and `Abort` are the interception of the page's request,
which is let go only when it is a temporary one; `Prove`, `Answer`, `Finish`,
`Detach`, `Catch` end the turn; `NormalTurn`, `Retire`, `Sweep` close tabs that
are not needed. `Restart`, `UserCloses` and `UserNavigates` come from outside.

`ProductRuntime` extends it with the Python side, one stack of calls, because a
callback of a call may call the runtime again. `Resolve`, `Refuse` are the checks of
the arguments against the transport; `Materialize`, `MediaFails` the scope of the
attachments; `Dispatch`, `RefuseDispatch`, `RequestTurn`, `Busy`, `Abandon` the turn;
`TemporaryResult`, `NormalResult`, `Read`, `Await` what the caller gets;
`DispatchEnd`, `NothingToEnd`, `EndResult` the end of a Temporary chat.

### RevisionSafeText, ProductObservations and StreamTurn (`revision_safe_streaming_pr8_9.py`, `standalone_send.py`, `product_observations.py`, `product_connector_lifecycle_pr10_0.py`, `canonical_product_observation_gate_pr9_3.py`)

`RevisionSafeText` is pure: the accumulator (`Apply`, `Reconcile`), the terminal
renderer (`Render`, `Replace`, `Finish`) and the collector of a Temporary turn
(`Collect`, `TemporaryAnswer`). `ProductObservations` is pure too: the collector
(`Consume` and its cases, `Merge`, `Correlate`) and the gate that forwards what only
the canonical message says (`Record`, `ForwardCanonical`).

`StreamTurn` puts them at the end of one channel. The product writes (`Write`), the
extension sends what it saw (`Observe`, `Report`), the channel loses, repeats or
overtakes frames (`Lose`, `Overtake`), every receiver gets the same frame (`Deliver`),
and at the end everything is reconciled with the canonical message (`Finalize`).
A text is a sequence of pieces, which tells apart what the properties tell apart: a
prefix, an extension and a revision.

### RichInputContract, GatePlans, ArtifactGates and LiveGate (`product_rich_input_live_gate*_pr9_2.py`, `product_runtime_browser_authority*_live_gate.py`, `browser_authority_*_pr8_8.py`, `temporary_chat_*_live_gate_pr8_13*.py`, `src/tools/pr10_1_*_live_gate.py`)

The live gates are sequential programs of the same shape, and so is their model:
a gate is a *plan*, a sequence of steps, and `LiveGate` is the engine that runs it.

* `RichInputContract`: what each schema of rich input (7 to 29) requires of the
  extension's claims. The code of schema *n* relabels the answer and hands it to
  the gate of an earlier schema; a level (`Level`) says which gate that is, what is
  required and what is frozen for it. `accepted[n]` is the set of answers that chain of
  calls lets through, call by call, and `Accepts` adds the label that is asked for first;
  `contract[n]` and `Meets` say what the gate is meant to ask: of every claim, what the
  newest gate that speaks of it requires.
* `GatePlans` and `ArtifactGates`: the plans, with the claims each makes when it
  passes.
* `LiveGate`: `Question`, `Support`, `LookStep` ask the extension; `TurnBegin`,
  `TurnReturns`, `TurnRaises` make a turn; `RefusedStep` makes one that has to be
  refused; `AwaitEnds`, `DisposalSeen`, `WaitExpires` wait for a tab to be closed;
  `EndStep`, `CloseStep` end a session. Around it, `Dispose` and `DisposeFails` are
  the runtime's timer, `UserCloses`, `BridgeDrops` and `BridgeReturns` the world.
  `odd` is the one answer that is not as the gate requires, chosen in `Init`.
  `Sound` is what the plans have in common: a check compares a turn with earlier ones,
  a reading repeats the promises made before it, the turns fit the budget, and each claim
  of the summary was required at some step, or follows from what was. It says nothing of
  whether what was required at a step is still true at the end.

## 4. The runs

| Run | Instance | Distinct states | What it shows |
|---|---|---|---|
| `broker` | 2 requests, 2 leases, every operation with and without lease, 1 intermediate frame per request | 455,802 | the lane has one owner, a reservation always has its live timer, the broker implements `AuthorityLane`, the lane becomes free again and again, every accepted request is answered |
| `write` | 2 calls, 2 threads, a client with the readback handshake and one without | 436,124 | disposals are fenced by the newest lease, releases are proven, the runtime implements `AuthorityLedger`, disposals happen |
| `transport` | 2 turns, 2 threads, no callbacks that call in again | 178,672 | one slot, no close during a turn, reads under the own lease on whichever thread awaits, no lifecycle of another turn, terminal turns stay terminal, calls return |
| `prepared` | 2 sends, their refills, 1 prefetch, 3 bundles, inside the fence | 298,027 | no replay, a handed-off stream is not final, the store implements `SentinelSlot`, everything ends |
| `fence` | 2 threads, 2 clients, every entry point, unbounded nesting | 79,357 | conversations stay linear, no hold and wait, every call returns |
| `browserless` | a turn that continues and one that opens a chat, 1 message of somebody else | 310,791 | answers are complete and are the message the stream named, dispatchers are put back, the transport implements `TurnContract`, every turn ends |
| `approvals` | 2 calls, 4 plans of two operations, 2 recipients, 6 nodes, 1 edit | 341,948 | approvals obey the policy of their own call, no card is approved twice, answers follow their card, every call ends |
| `authentication` | 2 processes, 5 starts, 4 plans, 3 sessions, 1 crash | 329,816 | one browser on the profile, what is saved is the session just issued, no save loses the file's session while the profile has one, every call ends |
| `product` | 3 calls, nested up to 2, 7 plans, 2 transports, 3 tabs, 1 restart, 1 intervention of the user | 601,493 | Temporary writes are proven, ended lifecycles write no more, a write carries what its call asked for, every call returns |
| `stream` | 2 messages, 4 pieces or 4 product events, 2 frames on their way, 2 faults | 2,328,824 | provisional text is what was sent, the terminal ends canonical, sources and citations agree, one story per activity |
| `gates` | all 53 gates, a tab there or not at the start, 1 odd answer, 2 disturbances | 109,816 | each schema's gate asks exactly its contract, a pass proves its summary, no write follows a doubtful one |
| `stream_temporary` | violation | | the finding of section 5 |

Each property of a passing run has a mutant in `PROJECT.json`: a definition with a
plausible bug (the `Mutant` definitions beside the originals, or the plain form
without the guard), under which TLC finds the property violated in the same run.

### Bounds, and why they are enough

* **Two actors of each kind.** The hazards are races between two actors and the
  timers they leave behind: two requests give a broker a reservation, its timer and
  one competitor; two calls give an older lease with its timer and a newer one.
  The third actor that matters is never a second competitor but a timer, a refill
  thread or `close()`, and those are not counted by the bound. Two client threads
  and two clients are what an AB/BA deadlock needs. Two processes are what a lost
  update of the auth file and a contended profile need.
* `MaxEvents = 1`: an intermediate frame only returns the handler to its wait, so
  one of them shows every position a frame can arrive at.
* `MaxBundles = 3`: one bundle per send and one that is dropped because it expired.
* `MaxCalls = 1` of the fence: calls a thread makes on its own; those made from
  callbacks are not bounded, their nesting is limited by the authority stack as in
  the code.
* `TabReports = {TRUE}`: a runtime tab that disappears only disables the liveness
  probe, which does not use the lane.
* `Turns = {t, u}`, `Continuing = {t}`, `MaxOther = 1` of `browserless`: both share
  the client and its dispatchers; only the first shares its conversation, with a
  message of somebody else, which is enough for every order of own write, foreign
  message and canonical reads.
* `MaxNodes = 6`, `MaxEdits = 1` of `approvals`: a question, two cards with their
  approvals and an answer, on one branch or, after an edit, on two. A plan gives each
  of the two calls an operation and a policy. `send_and_auto_approve` shares the
  client only with single approvals or `wait_until_completed`: two loops
  on two threads leave each other's wrappers behind (section 5), with which
  nothing can be promised.
* `MaxSessions = 3`, `MaxCrashes = 1`, `Shrinks = FALSE` of `authentication`: the
  session of the file, and one issued to each process. `Shrinks` would let the server
  go back from chunks to a plain cookie and delete the chunks, which the site has not
  been seen to do and the code is not written for.
* `MaxCalls = 3`, `MaxTabs = 3`, `MaxRestarts = 1`, `MaxTouches = 1` of `product`: a
  session that is opened, continued and ended, or interrupted and opened again; the
  plans put normal turns, attachments, profiles and split submissions between. The
  second transport can send text only, so that every refusal happens.
* `MaxWire = 2`, `MaxFaults = 2` of `stream`: two frames can overtake each other, and
  two faults can hide one another. A plan limits a turn to text or to one family
  of product events, which are collected independently.
* `MaxFaults = 2` of `gates`: the bridge drops or the user closes a tab, and once
  more. A gate is run with all its answers as required, and with each of them
  otherwise in turn.
* Larger instances were explored without an error: three turns of `write`
  (4.3 million states) and of `transport` (3.2 million), three requests of two
  leases of `broker` (safety, with symmetry), the unfenced `PreparedSend` with a
  prefetch and three bundles (9.5 million, the properties of its store).

Deadlock is checked in all runs but `approvals`, `authentication`, `product` and
`stream`, where a conversation, a program or a turn that is over may simply stay
so. In the others `Finished`, `AllDone`, `Settled`, `AllEnded` and `Ended` are the
only states in which nothing may happen: no gate, for one, waits for a tab that can
no longer be closed.

### Fairness, and why the code justifies it

Liveness is stated under weak fairness of the *system's* steps only. No request,
call, callback, frame or answer is promised, except where said.

* **Broker**: each handler, each timer and a begun `close()` go on. A handler waits
  on its queue with a deadline (`queue.get(timeout=...)`), `turn_lock` is acquired
  without blocking, and `threading.Timer` fires. The extension need not answer.
* **WriteRuntime, ProductTransport**: each call and each disposal timer go on.
  Every RPC of the provider has a socket deadline, polling has the turn's
  deadline, and `_authority_lock` is held over one RPC at most. A submission need
  never be awaited, and `Settled` is not a deadlock.
* **PreparedSend**: each send, refill and prefetch goes on; requests carry curl's
  `--max-time`, and polling a deadline.
* **WriteFence**: each call goes on; callbacks of a call end when they stop calling.
  A fair thread that waits for the lock gets it because the steps of the owner end.
* **BrowserlessTurn**: each call goes on, and its deadline passes (`Expire`). The
  server need do nothing.
* **Approvals**: each caller goes on, its wait-and-approve step is not put off for
  ever by its other steps, and its poll times out. The loop has no bound of its own:
  it ends because a conversation comes to rest, so the backend's `Answer`,
  `CompleteMessage` or `TaskEnds` is assumed too. A card that nobody answers is rest
  as well.
* **Authentication**: each call goes on; that the user signs in (`SignedIn`) or that
  a Sentinel is captured is not promised, their timeouts are.
* **ProductRuntime**: the one thread in the runtime goes on; every wait of it has a
  deadline. The extension and the page need not.
* `StreamTurn` and `LiveGate` are checked for safety only.

## 5. Findings

A place where a run shows the code doing something a doc says it does not. It was
not repaired in the model, which does what the code does.

* `stream_temporary`, `TemporaryReadbackIsWhole`
  (`temporary_product_runtime_pr8_13.py:158`). "Any sequence gap or incomplete
  delivery fails the Temporary readback instead of silently returning a possibly
  truncated answer" (docs/temporary_chat_production_graduation_pr8_13.md:147), but the
  collector compares a number only with the last one it accepted: a stream that begins
  with number 2 has no gap, and a delta is taken for the whole message. The last
  frames of a stream may be missing as unnoticed.

### Seen while modelling

Properties the code does not keep. Each is defined at the end of its module and in no
run; adding it to the named configuration, changed as said, shows the trace.

* `OnlyOwnTimerExpires` (`Broker.cfg` with `Workload <- OneLease`;
  `browser_native_host.py:148`). A reservation timer that has fired, and waits for the
  guard while a read of the same lease takes the reservation over, expires the *next*
  reservation of that lease: `_expire_authority_reservation` compares lease ids only.
  Lane ownership is not harmed; the retention is shorter than the 120 seconds and than
  "until Python has classified terminal canonical readback" (`:420`).
* `OwnReadNeverBlocksWrite` (`Write.cfg`, one turn and thread;
  `browser_native_client.py:285`). The baseline reads of a continuation carry the
  lease just issued, the broker retains its lane for it after any leased read, and
  only canonical reads may take a retained lane over, so the turn that follows is
  refused as busy.
* `DelegatedWriteIsClassified` (`Write.cfg`, one turn and thread;
  `browser_owned_write_runtime.py:931`). The acknowledgement in the `finally` block may
  raise when the bridge descriptor is gone, and replaces the classified outcome of the
  write.
* `OneTurnInFlight` (`Transport.cfg` with `Threads = {x}`, `Reentrant = TRUE`;
  `browser_owned_product_transport.py:264`). A callback may start a second turn on its
  own thread: the dispatch lock is re-entrant and a plain send publishes no pending
  slot.
* `PartialIsNeverFinal` without the fence (`Prepared.cfg` with `Fenced = FALSE`,
  `Warmups = {}`; `prepared_text_send.py:256`). Two prepared sends of one unfenced
  client restore the parser hook over each other; a handoff goes unnoticed and a
  prefix counts as the answer. Inside the fence it holds (`prepared`).
* `NotSubmittedIsProven` (`Fence.cfg`; `browserless_request_transport.py:718`). A
  callback's nested browserless request is refused as "not submitted", and the outer
  request passes that error on as its own although it has written.
* `AnswerIsOwn` (`Browserless.cfg`; `client.py:2755`). After a stream that carried no
  text, the latest message of the branch after the parent is taken for the submitted
  answer, even when the stream had named another one, and the finality guard compares
  the completed conversation with that: when somebody else has continued it, or a late
  write of another turn has arrived, the turn returns their answer
  (`browserless_request_guards.py:180`: "Require completion and readback to identify
  the submitted assistant").
* `LoopGoesOn` (`Approvals.cfg`; `client.py:1763`). The poll after an approval returns
  only at a completed status; when the approved card is followed by another one, it
  times out and the loop raises with the next card waiting and permitted, although it
  is to "Repeatedly approve pending tool actions in a conversation"
  (`client.py:2150`).

* `SessionIsKept` (`Authentication.cfg` with three actors, `client`, `client` and `force`;
  `browser_sentinel.py:76-85`). A forced login empties the profile and its sign-in times
  out; a client built before captures a Sentinel over the empty profile and saves the
  cookies it finds, so the file's session is lost. While the profile has a session it is
  not (`SessionSurvives`).

Notes without a property:

* Write runtime. A client without the readback handshake releases its lease while the
  broker still retains the lane for it, so that its disposal with a short TTL is
  refused and not tried again (a reachable end of `write` with the client `"legacy"`).
* Sentinel. docs/sentinel_bundle_lifecycle.md says a send waits for a refill that has
  begun; the refill thread is registered before it takes the acquisition lock, so a
  send that arrives in between acquires a bundle of its own. The slot stays correct,
  one acquisition is wasted.
* Extension. The lease of a canonical read is compared with the lease stored at
  the last turn (`browser_native_extension/service_worker_canonical_read.js:161`),
  which a baseline read under a newly issued lease does not carry either. The submit
  ladder (mouse, Enter, Space, a click in the page) presses on while an acknowledgement
  is late, although text_submit_commit_hardening_pr11_3.js:3 calls a second submit
  forbidden.
* Browserless. A builder the caller sets while a binding is there is lost at
  `browserless_request_transport.py:1250`, although `browserless_request_scope.py:77`
  says "Preserve a concurrent explicit caller update"; a caller's builder that does
  not delegate hides `final_write_started`; the scope's own deadline error reaches the
  caller unclassified, and so does an error of the finalization callback, after
  the answer is final.
* Approvals. Two loops on two threads nest and unnest their wrappers out of order and
  leave one behind; an unfenced pre-check can raise another call's denial; the card
  finder looks at all branches while `get_pending_approval` looks at the current one;
  a global fallback may return an unrelated message; the discovery of a new chat may
  pick somebody else's conversation; `wait(policy=None)` denies while
  `approve_pending_action(policy=None)` is not guarded at all; a connector's sign-in
  card is waited for without end.
* Authentication. A process killed outright may leave its browser running after the
  `flock` is free; the lock of the auth file is one of the process, so two processes
  can lose each other's update; a refresh leaves the browser's cookie records stale and the next
  login seeds the profile with them; a capture by a client built before a forced login
  may save the older session; a load reads the file twice and may see two versions.
* Temporary chat. A status other than 200 after a fresh Temporary turn leaves a token
  without a conversation, and every later Temporary turn is refused as without a
  route until `end_temporary_chat`; a callback on an event read after the turn can end
  the lifecycle, and the outer call stores the pair again; a write can escape the
  interception when the debugger detaches or the worker dies with a click pending (the
  model marks it `loose`); a crash between the creation of a tab and `Store` leaks it;
  `onRemoved` may erase the stored id of a newer tab.
* Product runtime. A callback's normal turn without attachments or profile inherits
  those of the outer call; the socket timeout of `_rpc` is per receive, so that events
  prolong a call past its deadline.
* Streaming. Two diagnostic providers override `_rpc` without `on_event`
  (`safe_browser_response_observation_pr8_9.py:86`,
  `browser_authority_instant_latency_pr8_8.py:72`) and raise `TypeError` when a turn
  passes it. The extension numbers frames after its own parse, so a patch it loses leaves
  no gap. A citation of commentary with the same place suppresses the canonical one.
* Gates. `browser_owned_product_transport.py:608` reports Temporary chat as supported,
  and the default, two-write, replication, phase-cost and Instant-latency gates refuse
  unless it is not: with the shipped runtime they stop before the first write, although
  docs/product_runtime_browser_authority_default_live_gate_pr8_8.md:303 tells to run
  one (its unit test uses a fake runtime without it). The PR8.13 production gate passes
  `conversation=` to a Temporary turn, which the transport forbids
  (`browser_owned_product_transport.py:329`). The plans of `InstantLatency`,
  `SelectionRepair` and `TemporaryGate` can therefore never pass. A tab the user closes
  cannot be told from one its TTL closes; a rich gate asks 22 questions one
  after the other, whose answers may mix builds when the extension reloads in between
  (the model asks them at once).

## 6. What is proved

The theorems hold for every set of requests, leases, turns and threads; TLC has only
shown them for the instances above. The assumptions are those of the modules:
sentinels are not members of the sets they mark (`BrokerAssumption`,
`WriteRuntimeAssumption`, `PreparedSendAssumption`, `SentinelAssumption`,
`WriteFenceAssumption`, `BrowserlessAssumption`, `TransportAssumption`,
`AuthAssumption`, `ApprovalsAssumption`, `StreamAssumption`), bounds are natural
numbers (`TabAssumption`), plans consist of operations and requests the code knows
(`BrokerAssumption`, `AuthAssumption`, `RuntimeAssumption`), the set of turns is
finite, and the cookies of the first start are ones the code and a browser write
(`StartsAssumption`). `LiveGateAssumption` says that the plans of the gates are `Sound`
(section 3); as they are given tables, TLC's evaluation on all 53 of the run settles it
for the code. `PlansAssumption` says what the extension and the product
guarantee of the events of a turn: one source for an address (`_pr93EnsureSource`),
canonical names that the stream does not use (`ensure_source`), and an answer that is
not marked as commentary. Five hypotheses are stated in the theorems themselves,
because without them the code does not keep the property: `~Reentrant` and the client
with the readback handshake for the transport, `~Shrinks` for saved sessions, `Fenced`
and `AutoAlone` for approvals.

### BrokerProofs

* `TypeCorrect`: `Spec => []TypeOK`.
* `LaneOwnershipHolds`: `turn_lock` is taken exactly when a handler, a reservation, an
  expiring timer or `close()` owns it, and never two of them. `LaneOwnership` is
  not inductive: an expired timer might find a lease reserved that it never had, and
  a handler that has handed the lane over might release it. `HandlerInv` says what
  a handler's position implies about its request, its `release_lane` and its timer;
  `IInv == TypeOK /\ HandlerInv /\ LaneOwnership /\ ReservationIsBounded` is
  inductive (`HandlerInvStep`, `LaneOwnershipStep`, `ReservationIsBoundedStep`).
* `ReservationIsBoundedHolds`: a reservation always has a timer of its own lease that
  was not cancelled and will fire, which is the crash-safety bound. It is part of
  `IInv` because timers do act on reservations that are not theirs (section 5): the
  invariant is what survives of that race.
* `LaneIsAccountableHolds`: the two together, the invariant the run checks.
* `BrokerImplementsLane`: the broker implements `AuthorityLane`. `LaneView`, a
  consequence of `IInv`, says that the three parts of the abstract lane exclude each
  other; `SameOwners` disposes of the steps that change no owner, `RefinementStep`
  maps each of the others to its abstract action.

### ProductTransportProofs

First of `WriteRuntime` alone. The step lemmas are about `RuntimeStep`, what any caller
may do on behalf of a turn, so that they also serve `ProductTransport`, which puts a
caller in front of the runtime.

* `TypeCorrect`: `Spec => []TypeOK`.
* `DisposalIsFencedHolds`: from the inductive
  `FenceInv == TypeOK /\ LeaseInv /\ CallInv /\ LockInv`. `LeaseInv` ties the newest
  lease to the call that knows it, `CallInv` gives each released lease one timer,
  and `LockInv` says the authority lock is held by exactly the disposal under way,
  whose lease stays newest and released; without it an issue or a second disposal
  could fall into the exchange.
* `ReleaseIsProvenHolds`: a released lease's write was accepted and its readback
  acknowledged, whatever the bridge loses. It needs `LeasePresent`, that a call keeps
  its lease on its thread until its `finally` block (this is where "a thread makes
  one call at a time" is used), and `ProvenCall`, what a call knows at each position.
* `AuthorityIsSafeHolds`: the two together, the invariant the run checks.
* `RuntimeKeepsLedger`: the runtime implements `AuthorityLedger`, with and without the
  readback handshake.

Then of `ProductTransport`, for any turns and threads, when no callback calls the
transport again (`~Reentrant`; otherwise `OneTurnInFlight` is false, section 5).
`TransportInv == TransportTypes /\ FenceInv /\ DispatchInv /\ SlotInv /\ NewestInv` is
inductive. `DispatchInv` says that one call runs under the dispatch lock. A submission
is in flight without a call, and then the lock excludes nothing: `SlotInv` says that
it is the pending one and that no other call runs beside it. `NewestInv` draws the
conclusion for the runtime: the turn in flight has the newest lease and lifecycle, and
its thread holds its lease also when it is not the thread that submitted.

* `OneTurnInFlightHolds`: from `NewestInv`, as there is one newest lease.
* `TurnsAreIsolatedHolds`: no close during a turn, reads under the own lease, records in
  the own lifecycle. A disposal under way has the newest lease (`FenceInv`), so it could
  only be a turn's own; that turn is past its readback because the client releases after
  it. With the client `"legacy"`, which releases at the accepted write, it is not.
* `TransportKeepsSlot`: the transport implements `SubmissionSlot`; `SlotPhase` describes
  the slot the mapping sees.

### PreparedSend (in `TurnProofs`)

`StoreInv == TypeOK /\ LockInv /\ OwnerInv /\ UsedInv` is inductive, for fenced
and unfenced sends alike, and for any number of sends, prefetches and bundles.
`LockInv` says that the acquisition lock is held by exactly the actor that is
acquiring and that the slot is empty until it installs, which is what lets
`Install` store a bundle without asking what is there. It also says that a send
starts its refill once. `OwnerInv`
gives each reservation one actor that is on its way to consume or release it,
and `UsedInv` says that a used bundle never returns to the slot.

* `TypeCorrect`: `Spec => []TypeOK`.
* `NoReplayHolds`, `ReservationHasOwnerHolds`: from `StoreInv`.
* `StoreImplementsSlot`: the store implements `SentinelSlot`. `SlotView` describes
  the slot the mapping sees, `SameSlot` disposes of the steps that do not touch it.
* `PartialIsNeverFinalHolds`, `HookIsRestoredHolds`: with the fence a handed-off
  stream is never final and the parser is the client's own between two sends.
  They are stated as `Spec => [](Fenced => ...)`, because without the fence they
  are false (section 5). `StreamInv == TypeOK /\ (Fenced => HookInv)` says that a
  send under way owns the fence, that it saved the client's own parser, and that
  the parser is replaced by nobody else's while it streams.

### StreamTurn (in `TurnProofs`)

For any messages, turns, texts, canonical references, frames on their way and faults.

* `ProvisionalIsSentHolds`: `TurnInv == PageInv /\ WireInv /\ OrderInv /\ AccInv /\ ColInv
  /\ VerdictInv`. A receiver sees frames only, so the invariant speaks of the log of what
  the page has sent, `Told(log, n)` as of frame `n`. `PageInv` says that the page's own texts are
  those of the newest number and that it has told nothing of a message not yet written,
  `WireInv` that a text frame on its way is the step of the log with its number (`Framed`),
  `OrderInv` that without a fault the frames on their way are the numbers the
  accumulator does not have yet, in order. Then `AccInv` and `ColInv`
  follow: a receiver that has counted as many frames as the newest number holds
  `Told` of that number. That a repeated frame is harmless is the comparison of numbers in
  `Apply` and `Collect`.
* `ScreenShowsCanonicalHolds`: `RenInv`, that the text that stands on the screen is the one
  the renderer believes it has shown, and that a renderer of the final answer only has
  written nothing marked as commentary. The first part is about `AnswerOnScreen`, what is left of
  all pieces printed after the last label.
* `ProvenanceIsConsistentHolds`: `RefsInv` says that gate and collector agree on the sources and
  citations seen, with one address per source and one source per address; `SeenInv` that a
  reference that was observed is no longer on its way, without which a late frame would
  repeat it. The canonical references are then forwarded into collectors of which
  this holds (`Forwarded`).
* `OneStoryPerActivityHolds`: `StoryInv`, what the collector remembers of an activity
  or action and that no later observation contradicts it (`StoryTold`).

`AnswerOnScreen` and `ForwardCanonical` are recursive functions. That they exist and
are what their equation says (`StandsExists`, `ForwardsExists`), that what stands on the
screen changes with each item as the renderer expects (`ScreenJoin`) and that forwarding
keeps `RefsInv` (`Forwarded`) is shown by least counterexample, from the
well-foundedness of `<`.

### WriteFenceProofs

* `TypeCorrect`: `Spec => []TypeOK`.
* `ConversationIsLinearHolds`: no conversation branches, for any threads, clients and
  calls. A linear conversation is not inductive: the write has to know that its
  parent is still the current message. The argument has three parts.
  `NestingInv` describes the authority stack of each thread: one call, or
  `send_to_conversation` and the send of the same client it has delegated to,
  because every call a callback makes is a conflict (`CallbackRefused`).
  `LockInv` says that a thread has acquired the lock of a client as often as it has
  calls past it (`Held`), so that only one thread has any (`LockExcludes`).
  `FreshInv` says that a call about to write has the current message as its parent;
  a write makes other parents stale, but only those of calls that are excluded.
  `LinearInv` is their conjunction with the linearity itself.
* `LockMatchesCallsHolds` and `NoHoldAndWaitHolds`: from `LockInv` and the nesting; the
  second is the reason why callbacks of two clients cannot deadlock.
* `OneWritePerCallHolds`: from `FrameOK`, what a call may have done at each of its
  places: the edge to the predecessor is gone before the write.

The step lemmas separate the steps that take or release the lock from those under
it (`Quiet`), which are shown once to proceed with the same call (`Proceeds`).

### BrowserlessTurnProofs

For any turns, any of which continue the shared conversation, and any number of
messages others write. `Typed` adds to `TypeOK` that a write that was accepted is in
the tree of its conversation (`Arrived`); every step either is the own step of one
turn, which changes the record of no other (`OthersStay`), or one of the server, which
only adds exchanges and completes them (`ServerKeepsTree`).

* `TypeCorrect`: `Spec => []TypeOK`.
* `NotSubmittedIsRightHolds`: a turn reported as not submitted has not written.
  `Told(t)` says, position by position, what an error on its way may claim of the
  write, and what the turn has sent by then.
* `KeepsContractHolds`: the transport implements `TurnContract`, from `Typed` and `Told`;
  `ContractStep` maps `Dispatch` to the write, `Unscope` and the refusals to the end of
  a turn, and everything else to a stutter (`ReportsAtTheEnd`).
* `AnswerIsFinalHolds`: an answer is complete, follows its parent, and is the
  turn's own when the stream has identified it. `Answering(t)` ties the identity the
  turn holds to the tree, from the stream to the last read.
* `BuilderIsRestoredHolds`: `Exclusive` says which turn has the client's lock and, by
  the place it is at (`Region`), what it has put on the client and what it saved there.

### AuthenticationProofs

For any threads, processes, plans, sessions and crashes.

* `TypeCorrect`: `Spec => []TypeOK`.
* `ProfileIsExclusiveHolds`: `HolderInv` says that a call that uses the profile, from the
  lock of the profile to the end of its browser, is the holder; `Ordered`, which phase a
  call can be in at each position, keeps an error path from releasing the lock while the
  browser is open.
* `SavedSessionHolds`: what a load takes after a save is the session just issued. From
  `SavedInv`: from the server's answer to the end of the save, the call has that session
  in its jar, whichever of the two forms of the cookie came with it.
* `SessionSurvivesHolds`: no save leaves the file without a session while the profile has
  one. The property is about one step, but needs the history of the cookies (`CookieInv`): a
  capture that saves has what the profile has (`Carried`), and neither the file nor the
  profile ever holds the half-deleted cookies (`Whole`, `Clean`) from which a load would
  take nothing.

The last two are stated for `~Shrinks`: section 4 says what `Shrinks` is.

### ProductRuntimeProofs

For any programs, transports, calls, tabs, restarts and interventions of the user.
`RuntimeInv == Typed /\ StackInv /\ RequestInv /\ TabInv /\ ResultInv` is inductive; none
of the three properties is, because the extension and Python each know half of a turn,
and a turn goes on in the extension when its call has given up.

* `StackInv`: the attachments and the profile that are bound belong to a call in
  progress, and a call past its checks asks only for what the transport has.
* `RequestInv`: lifecycles, results and writes are those of calls that have made their
  request, so that the id of a new call is new to the extension too; a message that waits
  there, abandoned or not, carries what its call asked for.
* `TabInv`: a turn that has a tab has the tab of its lifecycle, and the tab is closed
  when the lifecycle is over. This is what makes a late page request harmless.
* `ResultInv`: a result, on its way or returned, says no more than was written, and the pair
  Python keeps was opened by a write.

From it follow `TypeCorrect`, `TemporaryIsTemporaryHolds`, `DeliveredExactlyHolds` and, with
`TabKept` (what each step of the extension may do to its tab and its log),
`EndedIsFinalHolds`. The step lemmas separate what the extension does (`Extension`), which
leaves the stack alone, from what Python does (`Call`, `RuntimeStep`), which writes nothing.

### ApprovalsProofs

For any calls, policies, cards, rounds and edits of the user.

* `ApprovedByPolicyHolds`, `ApprovedOnceHolds`: inside the fence (`Fenced`), and when a
  call of `send_and_auto_approve` is the only loop of its client (`AutoAlone`; calls that
  approve one card and calls that wait for a message may run beside it). Both hypotheses
  are needed: without the fence TLC finds a card approved twice, and one approved against
  the policy of its call; with a `wait(policy=None)` beside `send_and_auto_approve` it
  finds the second. The policy of a call is on the client and not in its arguments, so
  the invariant has to say what is on the client at each position: `WaiterInv` for the
  wrapper around the loop, `FinderInv` for the one around the finder, which belongs to
  the call inside the fence. `CardInv` says that the card that call is about to approve
  is permitted and unanswered, and survives because others only add answers to cards
  when they hold the fence; `TreeInv` says it of the approvals in the mapping and of
  those that may still arrive.
* `AnswersFollowHolds`: a complete message that follows the card, without either
  hypothesis. `AnswerInv` says of each position what a poll has seen, and that a message
  once below its card stays there. A branch is a recursive function on the nodes up to
  its leaf; that it exists, is the ancestors, and does not change when the mapping grows
  (`AncestorsExist`, `AncestorsAre`, `AncestorsStay`) is shown by least counterexample
  from the well-foundedness of `<`, as induction theorems cannot be instantiated here.

### LiveGate (the second half of `AuthenticationProofs`)

For every sound plan, not only the 53 of the run, and for any number of disturbances.

* `NothingAfterDoubt`: no gate writes after a doubtful write, and its attempts and
  completions enclose its writes. `GInv == Ledger /\ Certain`: the ledger gives a write
  that may be under way its own attempt, and a gate that still runs has no doubtful
  write at all. It needs nothing of the plan.
* `AcceptsWhatMeets`: the chain of gates accepts exactly what meets the contract, for
  every answer there is; the run tries those of the 23 schemas and, of the right one,
  those with one claim otherwise. A recursive function is shown to satisfy its equation
  by least counterexample over the schemas (`Recursion`), and so is the theorem. It
  comes down to `Agrees`: what a gate freezes for the gates it builds on is what they
  require, and what it requires anew contradicts nothing of theirs that it does not
  freeze. Most gates speak of new claims only (`MostAreFresh`); schemas 20, 28 and 29
  speak again of seven claims, and of these the contract so far says what they freeze or
  require again (`ContractKeeps`, `TablesAgree`).
* `ContractIsExactHolds`: from it, and `Described`: past its first step a rich-input gate
  knows that the contract is met, and it stops there over a bridge that is up only when
  it is not.
* `PassIsProvenHolds`: `Proven` is the invariant. Where the gate is in its plan says how
  many turns it has made and that the odd answer is still ahead (`OnTheWay`); what each
  step behind it was passed for is still true (`Upheld`), although tabs come and go,
  because a tab that a step saw to be gone cannot come back: new tabs get new numbers,
  a turn is in the runtime tab or in a new one, and only the tab of the last turn is
  disposed of (`Gone`, `Tabs`). At the end of the plan (`AtTheEnd`, `BackedIsClaimed`)
  that is what the summary claims.

Before they were proved, TLC checked `Setting`, `Proven` and `Described` on the instance
of `Gates.cfg`, all but the part of `Tabs` that says `turns` is a sequence of anything.

## 7. What is only model-checked

* Every liveness property (`LaneNeverLeaks`, `EveryRequestAnswered`, `DisposalHappens`,
  `EveryCallReturns`, `EverySendReturns`, `EveryTurnEnds`, `EveryCallEnds`): liveness
  under fairness is outside what the proof system handles.
* `ApprovedByPolicy` and `ApprovedOnce` for a client without the fence, or with a second
  loop beside `send_and_auto_approve`: they are not kept there.
* `TemporaryReadbackIsWhole` of `StreamTurn`: it is what a document says and the code does
  not keep (section 5).
* `TurnsAreIsolated` where callbacks call in again, and for a client without the readback
  handshake: it is not kept there.
* The two parser properties of `PreparedSend` are proved for fenced sends only, the
  ones for which they are true.
* `TypeOK` of `Approvals` and `StreamTypes` of `StreamTurn` document the types of their
  variables and can be added to their configurations.

## 8. What is abstracted, and what is not modelled

Abstracted in the modules:

* **Time.** A deadline, a TTL or the 120 seconds may pass at any step.
* **Data.** Requests carry an operation and a lease, frames say what kind they are,
  messages are numbered by their order. Tokens, sizes, versions, texts, model names
  and diagnostics are left out, and so is the validation of frames.
* **The broker inside `WriteRuntime`** is the variable `lane`; a lost answer leaves it
  with the turn, `LaneExpires` gives it up.
* **Conversations inside `WriteFence`**: one per client, and a new chat writes into none
  of them; a raw payload with a conversation but no parent is passed through by the
  code and counts as a new chat.
* **Conversations inside `BrowserlessTurn`**: an exchange is a question with its answer.
* **The page inside `TemporaryTab`**: its mode, the request it sends and the answer it
  gets, whatever the code reads from its DOM.
* **The channel of `StreamTurn`** is worse than the real one, which keeps the order:
  the receivers are written for lost, repeated and overtaken frames, and only text
  frames are repeated or overtaken. Labels, malformed events and the classification
  of activities are left out. A range stands for a place in the answer with the type of
  the reference: the canonical gate compares no more (`citation_keys`), while the
  extension also tells citations by their number and message, so that two it sends of
  one source at one place are both observed. The page of the model has one.
* **Authentication**: cookie names and values are sessions; errors of the file system
  are left out.
* **Gates**: a support answer is one step, and a report is reduced to what it claims.

Not modelled yet:

* the extension's service worker outside Temporary chat (plan 12): `Broker` lets it
  send anything it may send;
* the collector of chunked canonical reads (plan 13);
* the assignment and deletion guards that install the fence on a class;
* UI liveness observations and the artifact manifest.

Not going to be modelled: the page automation, whose behaviour is that of a page
that is not in the repository; static declarations (`product_capabilities.py`,
`product_contract.py`, `types.py`, the governance records and their `to_dict`); the
command line, the doctor, the probes and the characterisations, which are sequential
input and output without authority over writes.

## 9. Running

`tlc -config <run>.cfg <module>` with the pairs that `PROJECT.json` lists, and
`tlapm` with `BrokerProofs.tla`, `ProductTransportProofs.tla`, `TurnProofs.tla`,
`WriteFenceProofs.tla`, `BrowserlessTurnProofs.tla`, `AuthenticationProofs.tla`,
`ProductRuntimeProofs.tla` and `ApprovalsProofs.tla`. The longest runs take about three
minutes on two workers, the longest proof (`TurnProofs`) about seven.

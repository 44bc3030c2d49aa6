# A TLA+ model of mizune-core

mizune-core is a chat agent: it receives messages from OneBot, the QQ official
bot API and a WebUI, answers them through a pipeline of model requests and
tools, and is also driven by cron jobs and by the completion of background
work.  It is one Node.js process.  There are no threads; what makes it hard is
that every step of the pipeline is suspended at an `await` while messages,
commands, timers and other runs change the session it works for.

Paths below are relative to the repository (`src/` is its source directory).

## The system

| Part | State it keeps | Operations | Talks to |
| --- | --- | --- | --- |
| Session state (`src/conversation/session`) | one `SessionState` per chat: phase, response epoch, mutation epoch, three abort controllers, queues (pending, steer, group targets, internal triggers, inline triggers), reply target, debounce timer | begin, finish, cancel, interrupt, complete; append, consume, promote, requeue; clear | called by everything below |
| Message admission (`src/app/messaging`) | nothing of its own; reads and writes the session | decide what to do with a message, then interrupt, steer, queue or start | ingress, session, debounce |
| Debounce (`src/conversation/debounceManager.ts`) | the session's timer | schedule, fire | flushes the session |
| Generation runner (`src/app/generation`: runner, orchestrator, planner) | one closure per run | `flushSession`, `runInternalTriggerSession`, `runInlineTriggerBatchSession`, `processNextSessionWork` | session, executor |
| Generation executor | the closure of a run: abort controllers, epochs, `finishedCurrent` | model requests and tools, boundaries at which steer messages are consumed, the closing `finally` blocks | session, outbound, next work |
| Trigger dispatcher (`src/app/session-work`) | nothing | queue or start scheduled instructions and background events | scheduler, shell, downloads, ComfyUI |
| Direct commands (`src/app/messaging/directCommands.ts`) | nothing | .stop, .clear, .config, .reset, .confirm, .debug ... | session, runner, character introduction |
| Outbound delivery (`messageQueue`, `generationOutbound`, `nativeStreamDelivery`, `chatMediaDelivery`) | a promise chain per session; per run the bubbles it streams and a barrier between text and media | enqueue, wait, send, record; append, finish, interrupt | channels, session history |
| Scheduler and job store (`src/runtime/scheduler`) | timers and cron objects in memory, job rows in SQLite | start, schedule, run, remove, enable, reload | dispatcher, owner's tools, data registry |
| QQ official channel (`src/services/qqOfficial`) | one gateway connection with its generation; reply permits with budgets; one text stream per answer | connect, identify, resume, reconnect; reserve, commit, release; append, flush, close | ingress, delivery |
| QQ official ingress (`eventDecoder`, `incomingMessageReceiptStore`) | durable receipts | decode, claim, handle | admission |
| Tool calls (`src/llm/toolExecutionScheduler.ts`) | the dependency graph of one model answer | start, settle, end the turn | executor, every tool |
| Transcript and history (`src/conversation`: transcript store, compressor, snapshots) | transcript, summary, boundary, revision | append, exclude, clear, backfill, compress, snapshot, restore | runs, commands, WebUI |
| Extraction queue (`src/context/contextExtractionQueue.ts`) | pending batches, timers, ready keys, running batches | enqueue, pump, cancel, reload, stop | runs, session deletion |
| Session persistence | SQLite rows per session, a chain of writes | save, restore, delete | session manager, internal API |
| Downloads (`src/services/workspace/downloadRuntime.ts`) | a task per download, its controller, temporary and finished files | start, pause, resume, cancel, remove, close; probe, download, import | tools, WebUI, file store; an event to the owner's session |
| Requests, identity, retrieval, modes, skills, content safety, LLM providers, internal API, WebUI | rows, files, caches | mostly reads, single-row writes, remote calls | runs (as awaits) |

`PROJECT.json` lists every part with its files and what is left out.

What makes each part correct:

* **Session and runs** - at most one generation works for a session; a response
  that is open will be closed, by the run that opened it; a superseded run
  touches nothing that belongs to its successor; every message is answered
  exactly once, in order; whatever waits has somebody who will start it;
  background work does not overtake messages; group threads do not mix.
* **Outbound delivery** - text and media come in order, nothing is sent after
  it was muted, what was sent is what the history records, and an interruption
  gets past every wait.
* **Scheduler** - timers, runs and rows agree; a job runs once at a time, a
  one-shot once at all; an enabled job is not forgotten, crashes included, unless a start
  was refused its schedule or could not read the table.
* **QQ official channel** - a running gateway always has something that brings
  it back; a permit's budget is never exceeded and never leaks; no message is
  shown twice, whatever the platform leaves unsaid; a message delivered twice is
  activated once.
* **Tool calls** - calls that conflict keep their order, and an answer comes, complete.
* **History** - a message is in the transcript or in the summary, whatever
  changes the transcript while the summary is made.
* **Extraction** - a turn is extracted once and in order, and not after its
  session was deleted.
* **Downloads** - the file a download names is stored and no other is kept but what could
  not be deleted, pausing and cancelling win over a concurrent import, and an owner who was
  promised a callback gets it.
* **Persistence** - once writing is over, the row is the session in memory.

The hazards behind these properties are in `PROJECT.json`, each at its line.

## Modules

| Module | What it is |
| --- | --- |
| `SessionState` | The `SessionState` object and the operations of `SessionManager`, as functions from session to session: the data part, without behaviour. |
| `SessionResponse` | The behaviour: admission, timer, dispatcher, commands and the runs, one action per turn of the event loop; fairness; all properties. |
| `ResponseTurns` | What a session promises: numbered responses, one at a time, each with at most one live generation, each closed in the end. |
| `Scheduler` | Job rows, the copies of them that timers, runs and starts hold, crash and restart, and the turn whose tool calls create jobs. |
| `OutboundQueue` | The send queue of a session beside the signals that mute it and the history it leaves. |
| `NativeStream` | The bubbles and media of one run, their barrier, and an interruption. |
| `OfficialDelivery` | Reply permit, delivery policy, discrete sends and a text stream of the QQ official channel. |
| `QqGateway` | The connection to the QQ official gateway. |
| `OfficialIngress` | Age, decoding and receipts of the messages of that channel. |
| `ToolCalls` | The concurrent tool calls of one model answer. |
| `HistoryCompaction` | The transcript, its summary, and everything that changes them. |
| `ExtractionQueue` | Turns that wait for their facts to be extracted. |
| `DownloadRuntime` | One download: the callers of its operations, its runs and the files they import. |
| `SessionStore` | One session in memory and in the database. |
| `MCSessionResponse`, `MCScheduler`, `MCServices`, `MCBackground` | What the small instances need. `MCServices` composes nine services that share nothing: a behaviour runs one of them (`which`), so that its states are the sum of theirs and not the product. `MCBackground` does the same with the scheduler and a download. |
| `SessionResponse_proofs` | One lemma per operation of the session (it keeps a session well typed), and `TypeCorrect`. |
| `SessionCoherence_proofs` | Orderly use: `CoherentSession` and what follows from it, among it the safety part of `ResponseTurns`; that waiting work is served, and users before background work. |
| `SessionQueues_proofs` | Any use: one queue entry per member, and no message lost or doubled. Where messages only steer: muting, and the order of arrival. |
| `Scheduler_proofs` | Types, timers, runs and rows of the scheduler; that one-shots run once. |
| `Delivery_proofs` | What reaches a chat: budgets, discrete sends and text streams of the QQ official channel, the send queue of a session, the bubbles and media of a run. |
| `Services_proofs` | Gateway and receipts of that channel, the order of tool calls, the files of a download. |
| `SessionData_proofs` | What is kept of a session: its row, its history, the turns that wait for extraction. |
| `MCServices_proofs` | The composition of `MCServices` behaves like each of its services, so that the theorems about these hold in the run `services`; its types. |

`SessionResponse` and `Scheduler` meet in what each knows of the other: an
instruction of the dispatcher is a member of `Triggers` in the first and a run in phase
`queued` in the second, where the session is only "no turn" or "a turn".
`OutboundQueue` has the outbound controller and the response epoch of
`SessionState`, without its queues.  The remaining services are reached from a run
through an await and change no field of the session's control state.

### How the model corresponds to the code

*An action is one turn of the event loop.* JavaScript runs to completion, so
an operation of `SessionManager` is a function, and a handler that calls
several is their composition, in the order of the code.  For instance
`InterruptResponse(s)` is
`AbortResponse(CancelGeneration(PromoteSteer(s)))` with the epoch advanced.
Between two actions of a run - at its awaits - anything else may happen.

*Microtasks and tasks.* `processIncomingMessage` takes the decision in
`resolveTriggerDecision`, an async function, and acts on it one microtask
later.  Two messages that arrive in one socket read, or that the startup gate
releases together, interleave in this gap, and so do runs resumed by the same
turn; timers and background notifications are tasks of their own and do not.
So `Decide` puts the decision into the variable `admitting`, `Admit` acts on
its head, and `DebounceFire`, `DispatchScheduled` and `DispatchEvent` require
`NextTask`, that nothing is being admitted.  Commands and run steps do not.

*A run* is a record in `session.run`: what its closure captured (epochs, its
batch, trigger or events), the state of its abort signals, and the await it is
suspended at: `prep` (preparing, from `beginGeneration` to `runGeneration`),
`exec` (inside the try block), `setup` (the completion check of a
configuration), `drain` (response open, waiting for output and post-turn
work), `closing` (the response was closed by somebody else), `done`.
Abort controllers are identified by the run they were made for (0 is null);
the outbound controller, which is replaced within a run, by its state.

*Data.* A message is its identity and sender.  Only messages that trigger a
response are modelled; the rest is written to the history and touches nothing
here.  Six generating phases are kept as three: no operation tells the other
three apart.  Histories, prompts, wording, delays and persistence calls are left out.
`flushSession` drops configuration introductions that are no longer current
(`generationSessionOrchestrator.ts:603`); the model keeps them in the batch.

*Configuration commands.*  What interrupts a response and does no more is
`InterruptCommand("skill")`: .config skill, .cancel and the .confirm of a skill.
`InterruptCommand("config")`, the .setup and .config of a character stage and its
.confirm, goes on after its answer to `Introduce`, a message of its own that flushes
the session unless a response is active by then or the introduction is no longer due.
`introducing` counts the answers on their way.  The scenario branch of .setup and
.config does not interrupt and touches nothing here; its .confirm is `ConfirmCommand`.

*Ghosts.* `arrived`, `handled`, `dropped`, `dispatched` and `settled` record
what happened to messages and instructions; no guard of the code reads them
(`Known` and the `dispatched` tests only make the environment use each
message and instruction once).

| Actions | Code |
| --- | --- |
| `Decide`, `Admit` | `messageEventHandler.ts`, `messageTriggerFlow.ts` |
| `DebounceFire` | `debounceManager.ts`, `flushSession` |
| `DispatchScheduled`, `DispatchEvent` | `internalTriggerDispatcher.ts` |
| `StopCommand`, `InterruptCommand`, `ClearCommand`, `ConfirmCommand`, `FlushCommand`, `Introduce` (all: `CommandStep`) | `directCommands.ts`, `character/introduction.ts` |
| `PrepContinue`, `PrepSkip`, `PrepFail`, `PrepWait` | `generationSessionOrchestrator.ts`, `generationTurnPlanner.ts` |
| `ExecPhase`, `ExecConsumeSteer`, `ExecConsumeEvents`, `ExecSuperseded`, `ExecEnd` | `generationExecutor.ts`, the try block |
| `SetupChecked`, `DrainEnd`, `CloseEnd` | `generationExecutor.ts`, the finally blocks |

*`Scheduler`.*  The store answers synchronously, so an operation up to its first
wait for a session is one step.  `timers[j]`, `runs[r].copy` and `pending[j]` are
the copies that a timer, `runJob` and `start` captured; each is written back
later, which is where the hazards are.

What fails in it: `new Cron` throws for an expression or zone it cannot use
(`scheduler.ts:146`; the data registry can write any).  In a start that is `LoadRefused`:
this job and all behind it stay unarmed (`unarmed`), and the caller decides the rest.  At
boot the process exits; a configuration reload is rolled back, and the scheduler's listener
stops it; an edit through the data registry fails and leaves things as they are.  In
`SetEnabled` the row has been written before and stays; `create_scheduled_job` removes the
row again.  A table that cannot be read is taken for an empty one (`jobStore.ts:31`), so a
start succeeds and serves nothing (`unread`).  Any cron job may be refused at any of these
points; the end of a run arms again the copy it had, which is not refused.  A write that
fails under a timer rejects a promise nobody handles and ends the process: that outcome
is `Crash`.  A write that fails inside a start or a tool call is left out; the one case in
which it would leave something behind is `createJob`, whose row is written after its timer
was set: the tool removes the row, and the timer still fires once.

| Actions | Code |
| --- | --- |
| `TimePasses`, `TimerFires`, `Execute`, `RunEnds` | `scheduler.ts` (`schedule`, `runJob`), the dispatcher it awaits |
| `CreateJob`, `RemoveJob`, `SetEnabled` | `schedulerTools.ts`, by a command of the owner or by a tool call of the turn, which then waits (`call`) |
| `CreateRow`, `EditRow`, `ConfigOn`, `ConfigOff` | `dataRegistryService.ts`, `configManager.ts`, `runtimeLifecycle.ts` |
| `Boot`, `LoadJob`, `LoadRefused`, `LoadEnds`, `Crash` | `start`, `recoverInterruptedJobs`, `schedule` that throws, the end of the process |
| `TurnBegins`, `TurnEnds`, `TurnStopped`, `ClearSession` | the session the instruction is for |

*`OutboundQueue`.*  A promise is the chunk that resolves it; an abort signal is a
number in `muted` or `cut`.  A chunk captures its signals when it is made and
they decide when it starts and after its delay.

*`NativeStream`.*  A bubble or media is an item, `after` the item whose promise it
waits for.

*`OfficialDelivery`.*  A slot is what a send or the stream holds of the permit:
reserved, committed or released.  A request is answered with one of four outcomes;
`arrived` says whether the message is in the chat, which the program does not
know when the outcome is unknown.

*`QqGateway`.*  An attempt remembers only whether its generation is still the
current one.

| Actions | Code |
| --- | --- |
| `ProduceText`, `EnqueueText`, `DropText`, `EnqueueMedia` | `generationOutbound.ts`, `chatMediaDelivery.ts` |
| `Start`, `DelayEnds`, `SendSucceeds`, `SendFails`, `Settled` | `messageQueue.ts` |
| `BeginResponse`, `Mute`, `Renew`, `Interrupt`, `Stop`, `Clear`, `Reset`, `StopWorking`, `Complete` | `sessionMutations.ts`, the end of `generationExecutor.ts` |
| every action of `NativeStream` | `nativeStreamDelivery.ts`; `GateOpens`, `MediaGoes`: the gate of media |
| `SendText`, `SendMedia`, `UploadEnds`, `UploadFails`, `SendAnswered`, `PermitExpires` | `client.ts`, `deliveryPolicy.ts`, `replyPermit.ts` |
| `AppendText`, `Flush`, `FrameAnswered`, `CloseStream`, `CloseRuns`, `PlainAnswered`, `FinalAnswered` | `textStream.ts` |
| every action of `QqGateway` | `gateway.ts` |
| `EventArrives`, `ReceiptExpires` | `eventDecoder.ts`, `officialMessageIngress.ts`, `incomingMessageReceiptStore.ts` |

*`ToolCalls`.*  A resource key is the set of resources it names, a wildcard several of
them; the counter of unfinished dependencies is the set it counts.

*`HistoryCompaction`.*  An item is the time it was made, a summary the set of
messages it was made from, so that "in the summary" can be told.  How much of
the history is kept is any choice.

*`ExtractionQueue`.*  A limit of 0 is extraction disabled; `notified` separates a
changed configuration from its subscriber hearing of it.

*`SessionStore`.*  A state of the session is a number; the chain of writes is a
sequence.  `unsaved` marks the two ways in which memory is left ahead of the row
on purpose: a save that failed (it is logged), and a session made anew while its
deletion is awaiting.  The rollback in memory of a restore whose save failed comes after
an await in the code (`basicAdminService.ts:445`) and is one step with the failure here;
between the two memory is ahead of the row, which is what `unsaved` says anyway.

*`DownloadRuntime`.*  A run of `runDownload` is where it is (`transfer[k]`); only the
newest can be the one a caller sees.  `staleUse` records that an operation went on after
its own await with what it had read before, `reports` the events sent to the owner.  The
engine is a vendored transport: a probe or download ends well or fails, also when it is aborted.
An import that is no longer wanted is deleted (`undoing`); a deletion that fails is only
logged (`downloadRuntime.ts:327`), the run ends all the same (`orphaned`), and its file stays.

| Actions | Code |
| --- | --- |
| `CallStart`, `StartDownload`, `StartReturns`, `PauseDownload`, `CallResume`, `ResumeDownload`, `CancelDownload`, `CallRemove`, `RemoveDownload`, `CloseDownloads`, `CleanupSettled`; `OpenTransfer` to `TransferFails` (`runDownload`) | `downloadRuntime.ts` |
| `BeginCalls`, `CallSucceeds`, `CallEndsTurn`, `CallFails` | `toolExecutionScheduler.ts` |
| `AppendHistory`, `AppendNote`, `SwitchMode`, `Backfill`, `Exclude`, `ClearHistory`, `SaveSnapshot`, `RestoreSnapshot`, `DeleteAndRecreate` | `sessionMutations.ts`, `sessionHistoryService.ts`, `sessionTranscriptStore.ts`, `sessionSnapshotStore.ts`, `sessionManager.ts` |
| `BeginCompaction`, `SummaryArrives`, `CompactionFails` | `historyCompressor.ts`, `applyCompressedHistory` |
| every action of `ExtractionQueue` | `contextExtractionQueue.ts` |
| `ChangeSession`, `PersistSession`, `WriteCommits`, `WriteFails` | `appSetupSupport.ts`, `sessionPersistence.ts` |
| `DeleteSession`, `RemoveRow`, `BeginRestore`, `ApplyRestore`, `RestoreFails` | `sessionLifecycleController.ts`, `basicAdminService.ts` |
| `Stops`, `Starts` | the end of the process, `bootstrapServices.ts` |

## Runs

| Run | Instance | Shows |
| --- | --- | --- |
| `private_runs` | private chat, 2 messages, 1 instruction, 1 event, both modes, 1 planner wait, no commands, fair | `MessagesAreDealtWith`, `TriggersSettle` |
| `orderly_commands` | private chat, 2 messages, 1 instruction, up to 2 commands among .config skill (or another that only interrupts) and .clear, fair | `CoherentSession`, `StaleRunIsInert`, refinement `TurnsEnd` of `ResponseTurns` |
| `all_commands` | private chat, setup turns, 2 messages, no instruction, up to 3 of .stop, character .config with its introduction, .reset, scenario .confirm, inline .debug | `TypeOK`, `MessageConservation` |
| `steer_order` | private chat, after_tool only, 3 messages, no planner wait | `ArrivalOrder`, `MutedExactlyForSteer` |
| `group_threads` | group of two members, 3 messages, 1 instruction, 1 event, both modes | `OneEntryPerMember`, `QueuedWorkHasWaker`, `BackgroundWaitsForChat` |
| `background_work` | the scheduler: a one-shot job for the session that works and a cron job, 2 runs at once, 2 commands, edits or crashes, any cron schedule refused, any table read failing, cron jobs disabled at the first error, fair | `TimersCarryTheRow`, `OneRunPerJob`, `EnabledJobsAreServed`, `OneShotsRunOnce`, `OneShotsComplete` |
| | a download: 2 callers of resume beside all other operations, 3 runs, deletions that fail, fair | `FilesAreAccounted`, `PromisedCallbackComes` |
| `services` | the nine services, one at a time; fair where the service is | see below |
| `stop_leaves_open` | .stop | violates `OpenResponseHasRun` |
| `config_strands_work` | .config skill | violates `QueuedWorkHasWaker` |
| `late_end_mutes` | after_tool, one .clear | violates `MutedExactlyForSteer` |
| `mixed_threads` | group, two messages decided before either is admitted | violates `OneThreadPerBatch` |
| `waits_for_itself` | the turn's own tool call creates the one-shot, no other changes, fair | violates `QueuedInstructionsExecute` |

What `services` shows of each:

| Service | Properties |
| --- | --- |
| all | `ServicesTypeOK` |
| `OutboundQueue` | `SendsInOrder`: a chunk starts only when those before it are settled. `MutedChunksStayUnsent`: what was made before its response was muted or stopped is not sent later, also when the output is live again. `HistoryMatchesChat`: the history has texts in the order the chat shows them, and all of a response its own run completed. `EnqueuedChunksSettle`. |
| `NativeStream` | `ItemsKeepOrder`: text and media come in the order produced. `InterruptionGetsThrough`: an interrupted run ends every bubble, also behind media that never end. |
| `OfficialDelivery` | `NothingIsShownTwice`, `BudgetCountsHeldSlots`, `StreamShowsWhatWasSaid`: the chat shows a prefix of what was said, all of it when the stream was sealed. `InterruptedAddsNothing`: after an interruption no new text goes out. |
| `QqGateway` | `NeverStranded`: while it should run there is an attempt, a socket or a reconnect timer. `SilentPeersAreLeft`: a peer that fell silent does not hold the connection for ever. |
| `OfficialIngress` | `MessagesCountOnce`: at most one activation per message, however its events repeat. |
| `ToolCalls` | `ConflictsKeepOrder`, `AnswerIsComplete`, `ToolCallsAreAnswered`. |
| `HistoryCompaction` | `HistoryIsWhole`: a message compressed is in the summary, one still visible is not, and the summary has nothing that was hidden before or cleared. |
| `ExtractionQueue` | `DeletedTurnsAreForgotten`: a turn is stored once, in order, never after its session was deleted. `WaitingTurnsAreTaken`. |
| `SessionStore` | `StoreIsCurrent`: with no write under way or failed, the row is the state in memory. |

`CHECK_DEADLOCK FALSE` everywhere: messages, instructions and commands are
finite in an instance, and a session with nothing to do rests.

### What the violations say

* `stop_leaves_open` - after .stop the session is delivering and without a
  generation controller; it is left to the run to close the response.  A run
  in preparation recognises its response only by that controller, so when it
  is skipped or fails it does nothing, and the response stays open
  (`generationExecutor.ts:1435`: "must never leave the response open").
* `config_strands_work` - .config skill, .cancel and the .confirm of a skill interrupt the
  response (`directCommands.ts:995`, `:1161`, `:1169`, `:1102`), promote its steer messages
  to pending and schedule nothing (`generationRunner.ts:24`: queued work is resumed "after a
  response finishes or gets interrupted").  They wait until another message arrives.  The
  character .config does not strand them: its introduction flushes the session, and takes
  them along.
* `late_end_mutes` - a run that ends promotes whatever steer messages the session
  has, also when its response was closed long ago and they belong to its successor
  (`generationExecutor.ts:1404`; the statement after it does compare the epoch).  The
  successor's output was aborted when the message came and is renewed only when a
  steer message is consumed: its answer is never sent, although it goes on
  (`docs/architecture/message-interruption.md:8`: the current response continues).
* `mixed_threads` - the reply target is read in `resolveTriggerDecision` and
  used after its await (`docs/architecture/message-interruption.md:12`: the
  triggers of other group members queue).
* `waits_for_itself` - `schedule` awaits `runJob` for a job that is due, and the
  tool awaits `schedule`.  When the job is for the session whose turn makes the
  call, the instruction is queued behind the turn, and the turn waits for the
  instruction; only .stop ends it (`internalTriggerDispatcher.ts:82`: queued work
  opens a session once the current turn winds down).

`ArrivalOrder` is checked without planner waits: a wait puts the older batch back at the
head of pending, and a message steered meanwhile is then promoted in front of it
(`generationTurnPlanner.ts:193`).

The passing runs state the same properties where they do hold, so each
violation is confined to what its run adds.

### What the properties exempt

An exemption is in the statement of a property, not in the behaviour:

* `overtaken` (`Scheduler`) - a job changed while a run, a start or a reload held a
  copy of it.  The copy is written back and scheduled when the run ends, so a
  cron job removed or disabled during its run is set again; the properties speak of the
  other jobs.  `OneShotsComplete` further exempts the scheduler being switched off, and a
  cleared session that dropped the queued instruction: its promise never settles.
* `unarmed`, `unread` (`Scheduler`) - jobs behind a refused schedule and jobs a start could
  not read.  They *are* forgotten: their rows are enabled, nothing serves them, and only
  another start (a reload, a restart) brings them back.  `EnabledJobsAreServed` and
  `OneShotsComplete` say that nothing else is forgotten; that one bad schedule takes
  the jobs of later rows with it is what the code does.  `OneShotsRunOnce` exempts
  a job a crash interrupted and the next start could not read: its row still says running,
  it was not recovered, and a later enabling runs it again.  It also exempts a job enabled
  while the scheduler is configured off.
* `replaced` (`HistoryCompaction`) - a session deleted and made anew while a
  compaction of the old one ran, whose revision starts again.
* `staleUse` (`DownloadRuntime`) - `resume` and `remove` decide on a status, await and go
  on without reading it again, `start` likewise with `closed`.  A download that is paused, resumed and
  cancelled while `resume` still waits for the old run (`downloadRuntime.ts:233`) runs again and
  completes; two resumes of one pause start two runs, which can import two files of which one is
  named; a download removed or a runtime closed meanwhile runs on.  This is against what
  `test/workspace/download-runtime.test.tsx:204` tests of an import (cancellation wins).  What
  `FilesAreAccounted` still says then is that the named file is in the store and that a
  completed download names one; its last conjunct fails without the exemption, and no run is
  spent on it.  The file of a failed deletion (`orphaned`) is not exempted but named in the
  statement: it is the only file the store may keep for nobody.
* `unsaved` (`SessionStore`) - see above.  One deletion at a time is modelled.

### Bounds

`Msgs`, `Triggers`, `Events`: each is used once, so a behaviour has at most as
many runs as there are arrivals, planner waits and commands.  Two messages are
enough for one to be steered, queued or lost while the other is answered; three
for a requeued batch, a steer and a pending message at once, and for two group
members one of whom writes twice.  `MaxWaitPasses` is a parameter of the
configuration (0 or 1).  `MaxAdmitting` bounds the handlers between decision
and admission: 2 is the smallest that interleaves.  `MaxCommands` bounds the
commands: three of them are enough for a configuration, its introduction and something that
meets either; there `all_commands` leaves out the instruction, which `orderly_commands` has
beside two commands and `NothingLostOrDoubled` beside any.  `MaxRuns` is the number of runs given fairness, and exceeds the
number of runs of every instance.

| Module | Bounds | What they let happen |
| --- | --- | --- |
| `Scheduler` | `NumJobs` 2, `MaxRuns` 2 at once, `MaxChanges` 2, `MaxErrors` 1 | two jobs in a start one of which waits for a session; a crash after a change; a refused schedule behind a one-shot; a cron job disabled by its errors (one is enough; a job that goes on after an error is scheduled as after a success, and the theorems have any limit). The cron job is the later row, so a refusal that takes a one-shot with it is not in the run; that, and what needs a third change, rests on the theorems. |
| `OutboundQueue` | `MaxChunks` 3, `MaxResponses` 2, `MaxMutes` 1 | a chunk behind a muted one, and one of the next response behind both |
| `NativeStream` | `MaxItems` 3, `MaxCancels` 1 | text, media, text, interrupted anywhere |
| `OfficialDelivery` | one send beside the stream, `MaxMessages` 1, `MaxFragments` 2 | both want the only slot; a stream with a frame and a final. Sequence numbers of several held slots rest on the theorem. |
| `OfficialIngress` | two `Messages`, `MaxReceipts` 1 | a full receipt table |
| `ToolCalls` | `NumCalls` 3, `MaxConcurrency` 2, effects over two resources with a wildcard | a chain, a fork, a call that waits only for a free place |
| `HistoryCompaction` | `MaxTime` 4, `MaxEdits` 1 | two items summarised and two arriving meanwhile, one edit before or during |
| `ExtractionQueue` | two sessions of a user, `MaxTurns` 3, `MaxTurnsPerBatch` 2, `MaxPendingTurns` 2, `MaxReloads` 2 | a full queue beside a running batch, limits switched off and on |
| `DownloadRuntime` | 2 `Resumers`, `MaxTransfers` 3 | two resumes of one pause; a run that ends beside its successor. More rests on the theorem. |
| `SessionStore` | `MaxStates` 3 | a state under a write, one behind it, one after a deletion |

`QqGateway` is finite as it is.

### Fairness

Every await of a run settles: model requests carry timeouts, the tool loop is
bounded, and preparation and delivery end with a result or an error; so a run
that can leave its stage does (`WF` of `RunEnds(r)`, for each run separately).
A debounce timer fires and a decided message is admitted.  Nothing is assumed
of users, schedules, events or commands, nor that a run ever consumes a steer
message or reports a phase.

In the services the same holds: sends, requests and tool calls end (each has a
timeout or an error), timers fire, promises run their continuations, and the
subscriber of a changed configuration is told.  That every started tool call ends is an
assumption about the tools, and `waits_for_itself` shows one that breaks it (a job created
for the turn's own session): `ToolCallsAreAnswered` is a property of the scheduling of calls,
that it adds no wait of its own to theirs.  A run of a
download goes on until it ends: the engine's requests time out, and file operations end.  In `Scheduler` time passes, a timer that
is due fires, a start goes on and a turn ends, unless its tool call waits.
`SF` is needed for `TimerFires`, `LoadJob` (or its refusal) and `Execute`: the bound on runs at
once, and for `Execute` the session being busy, can disable them between two chances;
the event loop, and the session's queue, serve them all the same.  Of `NativeStream` only the
starts and closings of bubbles are fair: media and the queue before the run may hang.  In `background_work`
a behaviour is fair to whichever of the two components it runs.  No fairness is assumed of the owner,
of crashes, of the platform's peer or of the application that starts and stops things.

## Proofs

Every theorem holds for every value of the constants, from the assumptions
named in the module that declares them: for sessions, every set of messages, users,
instructions and events, both chat kinds and any bounds; for the services any
number of jobs, sends, messages, calls and states.  `None` of `Scheduler` is assumed to be no
copy and no run, `Sends` to be finite; the other bounds are natural numbers, of which
only the turns of one extraction batch must not be zero (`MaxTurnsPerBatch`, which the
schema of the configuration has positive).  Those of `SessionCoherence_proofs` are
about orderly use (`Orderly`): of the commands, only .clear and those that do no more than
interrupt (.config skill, .cancel, the .confirm of a skill), and no
setup turns.  That restriction is needed: `stop_leaves_open` violates
`OpenResponseHasRun` outside it, and the introduction behind a character's .config flushes
without clearing a debounce timer that is set, which `CoherentSession` does not allow.  Those of `SessionResponse_proofs` and `SessionQueues_proofs`
are about any use, but for the two on steering.

| Theorem | States |
| --- | --- |
| `TypeCorrect` | `Spec => []TypeOK` |
| `CoherenceHolds` | `Spec => []CoherentSession` |
| `OneLiveGeneration` | orderly use keeps `SingleLiveGeneration` |
| `OpenResponseIsServed` | orderly use keeps `OpenResponseHasRun` |
| `LateRunsAreInert` | orderly use satisfies `StaleRunIsInert` |
| `SessionTakesTurns` | orderly use implements `ResponseTurns!Spec` |
| `WaitingWorkIsServed` | orderly use without .config skill keeps `QueuedWorkHasWaker` |
| `UsersComeFirst` | orderly use satisfies `BackgroundWaitsForChat` |
| `OneThreadPerMember` | `OneEntryPerMember`, in any use |
| `NothingLostOrDoubled` | `MessageConservation`, in any use |
| `SteersMuteTheirResponse` | `MutedExactlyForSteer`, when messages only steer (`SteersOnly`) |
| `MessagesKeepTheirOrder` | `ArrivalOrder`, in a private chat, when messages only steer and the planner never waits (`PrivateSteers`) |
| `SchedulerTypes` | `Spec => []TypeOK` of `Scheduler` |
| `TimersAreCurrent` | `TimersCarryTheRow` |
| `JobsRunAlone` | `OneRunPerJob` |
| `EnabledJobsAreKept` | `EnabledJobsAreServed` |
| `OneShotsAreNotRepeated` | `OneShotsRunOnce` |
| `GatewayNeverStranded` | `NeverStranded` |
| `MessagesAreCountedOnce` | `MessagesCountOnce` |
| `BudgetIsExact` | `BudgetCountsHeldSlots` |
| `MessagesAreShownOnce` | `NothingIsShownTwice` |
| `StreamIsShown` | `StreamShowsWhatWasSaid` |
| `InterruptedStreamsAddNothing` | `InterruptedAddsNothing` |
| `OutboundTypes` | `OutboundSpec => []OutboundTypeOK` |
| `OutboundSendsInOrder` | `SendsInOrder` |
| `OutboundMutedChunksStayUnsent` | `MutedChunksStayUnsent` |
| `OutboundHistoryMatchesChat` | `HistoryMatchesChat` |
| `NativeTypes` | `NativeSpec => []NativeTypeOK` |
| `NativeItemsKeepOrder` | `ItemsKeepOrder` |
| `ConflictingCallsKeepOrder` | `ConflictsKeepOrder` |
| `AnswersAreComplete` | `AnswerIsComplete` |
| `DownloadsKeepTheirFiles` | `FilesAreAccounted` |
| `SettledRowsAreCurrent` | `StoreIsCurrent` |
| `HistoryTypes` | `HistorySpec => []HistoryTypeOK` |
| `HistoryStaysWhole` | `HistoryIsWhole` |
| `ExtractionTypes` | `ExtractionSpec => []ExtractionTypeOK` |
| `ExtractionForgetsDeletedTurns` | `DeletedTurnsAreForgotten` |
| `ServicesWorkAlone` | `ServicesSpec` implies the specification of each of its nine services |
| `ServicesTypes` | `ServicesSpec => []ServicesTypeOK` |

### Sessions

`TypeOK` is inductive as it stands: it says more than
shapes, in that the controllers of a session belong to runs that were started
(`TypedSession`), which is what makes `CancelGeneration` and `AbortResponse`
meaningful.  `SessionResponse_proofs` has one lemma per operation of the session
(`TypedSession` is preserved), and the inductive step has one named step per
action, which only composes them.

`SingleLiveGeneration` and `OpenResponseHasRun` are not inductive: that an old run is
aborted does not follow from there being one owner, and a planner that requeues an
empty batch would leave a timer whose firing opens a second response.
`Coherent` is their common strengthening.  Its parts: the response epoch numbers
the runs; the generation controller belongs to the newest run, exactly while the
phase is a generating one; every other run that still generates is aborted and of an
older mutation epoch; a delivering session has a newest run that finished and
will close it; a timer runs only beside pending messages and never during a response;
a requeueable batch and a queued thread have messages.

The proof has one lemma per operation (it keeps `Coherent` when its caller's
conditions hold) and, between operations of one action, two weaker states:
`Closable`, where only the phase and the controller are left to be reset (the run
that held them returns), and `Cancelled`, where every run is aborted and only the mutation
epoch is left to advance (interrupting, clearing).  Each lemma also says how the operation
moves the responses: `Keeps` (opens none), `Closes`, `Moves` (or opens the
next one).  `SessionTakesTurns` needs no more than `Coherent` before and after a
step and `Moves` between; `LateRunsAreInert` follows from `OthersAreAborted`,
because every branch that would touch the session is guarded by the abort
signal, the controller or an epoch.

`WaitingWorkIsServed` strengthens `QueuedWorkHasWaker` for the steps in which neither a
timer nor a response is there yet: it is enough that a run that closes a response
resumes what waits, in the same turn.  It needs the absence of the commands that only interrupt, which
`config_strands_work` shows.  `UsersComeFirst` follows from the branches that
start a background run: each is taken only when no message waits.

`SessionQueues_proofs` cannot use `Coherent`, because .stop and setup turns break it.
`QueueInv` says that messages arrive once, that those being admitted are
distinct and have not arrived, and that each entry of the group queue is one member's messages, sorted by arrival.
It is what `MessageConservation` rests on: `EnqueueGroupReplyTarget` adds a message to the entry of
its sender, and were there two such entries, the message would be in two places.
`Ledger` is conservation without cardinalities: each place holds a message at most
once, no two places hold the same one, and together they hold exactly what has
arrived.  Each operation either moves no message (`SameLedger`) or has a lemma that says
from where to where; `LedgerCounts` turns the result into the cardinality of `Places`.

The two theorems on steering assume of the constants what the run `steer_order` fixes
(interruption mode after_tool only, no commands, no setup turns).  `Steered` says why
it is enough: a run that has not returned is the newest one and serves the open response
(`Solo`), so no late run promotes the steers of a successor, which is what
`late_end_mutes` shows otherwise.  `MutedExactlyForSteer` is then a conjunct (`Muting`).
For `ArrivalOrder`, `InRows` adds that the steers followed by what is pending are in order, and
so are the input of the run that owns the controller followed by the steers, because that
run may take them; and that nothing is pending while it generates.  It is kept because
nobody who decided to reply at once is still to be admitted when a response opens (`Asked`):
timers and notifications do not come between a decision and its admission, and a run
step needs a response that is open already.

### Services

None of the properties is inductive by itself; each is proved from an invariant
that says what the code relies on.

* **Scheduler** (`SchedulerInv`).  `JobFits` describes one job that nobody overtook:
  what a timer, a run or a start holds of it is its row, up to what that place has
  itself written, a run excludes a timer and a place in a start, and an enabled row
  has one of the three.  Beside it: a one-shot row marked running is due, and what a start has still to
  schedule was recovered (`RunningRows`), so that recovery takes away no job that was still to
  come; a job not made yet is held nowhere
  (`Untouched`); nothing is in memory while the process is down.  The enabled row of a job in
  `unarmed` or `unread` need have none of the three: `JobFits` says so job by job, and the
  actions that put a job there or take it out are the only ones that may change it.  The three
  properties are read off `JobFits`; one lemma per action.  `OneShotsRunOnce` adds
  `BegunRow`: the row of a one-shot whose instruction was dispatched is gone or marked
  running, whoever writes to it, and a crash leaves only that row; recovery does not
  arm it, and a run that still holds an older copy was overtaken, or the start that should
  have recovered it did not read it.
* **Gateway** (`GatewayInv`).  A stopped gateway has no socket, no current attempt
  and no timer, so nothing connects it again; without a socket there is no
  watchdog and no heartbeat that could act on the next one.
* **Receipts** (`IngressInv`).  A receipt, what was handled under it and the activations
  agree, and an activated message has its receipt or is too old to be activated again
  (`Consistent`).
* **Permit** (`PermitInv`).  A slot is reserved only during an upload, so the
  branches that release only a reserved slot release all that are held; numbers
  once given are below `nextSequence` and differ (`Sequences`); the count is the
  cardinality of the held slots.  `NothingIsShownTwice` is kept where `PermitInv` holds: a
  fallback begins only where the message is not in the chat.
* **Stream** (`StreamInv`).  Until something of it is given up, what was said is what was
  accepted, what is under way, what is buffered and what is pending, in this order, and pending
  text has a flush to come (`StreamWhole`).  With a reply slot the stream message shows a
  beginning of it and the plain message nothing, with a proactive one it is the reverse
  (`StreamShown`).  `StreamLife` says which requests are possible in which state, so that
  no frame is out when the final request or the plain message goes.
* **Send queue** (`OutboundInv`).  The chunks that have not ended stand in line (`InLine`):
  each waits for the one before it, the first for nobody, and the tail is the last one.  A chunk not sent yet
  holds the live controller or an aborted one, and what was disturbed is aborted
  (`SignalsHold`).  A run that completed its response waits for no text, and what the chat shows of the
  open response is recorded (`RunsAnswer`): that a text is recorded only while its response is open
  costs no text of a response its own run completed.
* **Bubbles and media** (`NativeInv`).  An item waits for one promise only, that of the barrier when it
  was produced.  It is enough, because between the two are only bubbles that are over, a bubble
  waits for media, media was cancelled together with the bubbles before it, and what has begun has
  everything before it behind it (`ItemFits`).  It holds of the items up to the first failure; what
  is produced after it fails at once (`Flows`).
* **History** (`HistoryInv`).  Times rise along a transcript, an item that is seen is in no summary, a
  message that is seen is later than all the summary tells, and the summary stays before the boundary,
  so that a backfill, which is after it, is told by none (`Sound`, of the session and of its
  snapshot).  A compaction whose revision is still current will add to the summary exactly the visible items it
  covers (`Fits`).
* **Extraction** (`ExtractionInv`).  Per key, the turns stored, under way and waiting rise in this
  order (`InTurn`); a deleted turn is in none of them but in a batch that is aborted; two
  keys have no turn in common.  A key that is ready has no timer.
* **Tool calls** (`CallsInv`).  A call is ready, running, ended or waits, and it waits
  for exactly those it conflicts with that have no result (`Tracked`).
* **Download** (`DownloadInv`).  `NamedFileStays` needs nothing of the callers: a run names the
  file it has just imported, and no run deletes the import of another.  While nobody acted on
  a stale status, every run but the newest has ended, and none is before its import once the
  download is completed (`OneAtATime`); so the run that completes finds no file of another but
  what could not be deleted.
* **Store** (`StoreInv`).  `Goal` is the state the chain of writes ends with, or the row;
  it is the state in memory unless a save is still to be asked for
  (`HeadsForMemory`).

### Only model-checked

Liveness (`MessagesAreDealtWith`,
`TriggersSettle`, `OneShotsComplete`, `EnqueuedChunksSettle`, `InterruptionGetsThrough`,
`SilentPeersAreLeft`, `ToolCallsAreAnswered`, `PromisedCallbackComes`, `WaitingTurnsAreTaken`, the fair part of `TurnsEnd`)
needs fairness and ENABLED, which are out of the prover's reach.  Every invariant and every action
property of a passing run is proved; those on steering and of `SessionCoherence_proofs`
under the restrictions named above, which the runs that check them have too.

Conversely `SingleLiveGeneration` (a part of `CoherentSession`) and the types of `Scheduler`
and `DownloadRuntime` are proved and no run repeats them.

## Not modelled, and the plan

In this order:

1. What a restart does to the pending messages of `SessionResponse`
   (`sessionStateFactory.ts:50` keeps them, without a timer), with the restored
   epochs of `sessionManager.ts:588`, as crash actions.
2. The ingress of OneBot: the duplicate check of `messageEventHandler.ts`, backfill,
   and the queue of the startup gate; `OfficialIngress` is its counterpart.
3. The other background runtimes whose completion is an event (shell, ComfyUI), and
   the instance lock.
4. The rollback of a failed configuration reload for the other subscribers (the extraction
   queue); the scheduler's is `LoadRefused`.
5. Proofs: that the two parts of `MCBackground` behave as they do alone, as
   `ServicesWorkAlone` says of `MCServices`.

Left out inside what is modelled, as `PROJECT.json` says of each part: how text
is cut into segments and routed to a channel, the parts of an upload, tokens,
several targets of one scheduled job, two starts of the scheduler at once, the
projections of a history for a prompt.

Not planned: model providers and the tools' own work (remote protocols), prompts,
retrieval, content safety (external classification), requests and social access (single
synchronous transactions), the data registry beyond its edits of job rows, the HTTP
API and the WebUI.  These are most of the repository's lines; they add no interleaving
to the state modelled here, and what a run does with them is an await that settles.

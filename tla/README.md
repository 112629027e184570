# Formal verification of Gugacode

TLA+ models of the concurrent core of Gugacode, a desktop IDE with an AI
companion: a Go backend (`services/`, Wails v3) and a Vue frontend
(`frontend/src`). TLC checks the models on small instances; TLAPS proves their
main invariants for every value of the constants.

## 1. The system

`main.go` takes the instance lock, wires the services of `bootstrap_services.go`
into one process, opens up to two windows (the main window and the AI companion
window, each a webview with its own Pinia stores) and runs until the windows are
closed. Then it stops the services in order: `terminalService.Shutdown`,
`agentService.Close`, `mcpService.Close`, `lspService.StopAll`,
`instanceLock.Release`.

Three facts of the platform shape every model:

- a call of a window to a service (a *binding call*) runs in a goroutine of its
  own, so calls overlap and run in any order, also those of one window;
- an event emitted by the backend goes to *every* window; the windows get the
  events in the order they were emitted, but nothing orders the answer of a call
  against an event;
- the services keep their state under mutexes that are released around slow
  work (a provider, a tool, a pipe, a file), and what was read before is used
  after it.

### Components

| Component | State | Operations | Talks to | What is hard | What makes it correct |
|---|---|---|---|---|---|
| AI chat streaming: `services/ai_service.go`, `frontend/src/stores/ai.ts` | the one stream slot (`cancel`, `activeStreamID`), the configuration; per window `streaming`, `globalStreamBusy`, `activeStreamId`, the message being assembled | `SetConfig`, `StartStream`, the stream goroutine, `StopStream`; `sendMessage`, `stopStreaming`, the `ai:*` listeners | provider, settings, both windows | stops race ends race new starts; busy events leave the lock and overtake each other; the stream id arrives after the stream's events | one live stream, always the stoppable one; Send is never disabled for good; a window shows its own text only |
| AI goals: `services/ai_goal_service.go` | a goal: status, counters, checkpoints, limits | `RunGoal` (loop of rounds), pause, resume, abort, checkpoint, rollback | executor adapters (model, tools) | a second loop starts while the first is inside a round; rollbacks under a running loop | the budget, the history, no running goal without a loop, every run returns |
| AI plans: `services/ai_plan_service.go`, `frontend/src/stores/aiPlan.ts` | a plan: its status and that of each step | approve, edit, reject, execute, skip, replan, abort | executor adapters, both windows | a tool runs outside the lock and writes its result through an old pointer | an approval is used once, finished work stays, completed means settled |
| Language servers: `services/lsp_service.go` | a table of servers; per server document versions, hashes and contents, a request table | start, stop, sync, close, request, read loop | server processes over pipes | versions are allocated and written in different critical sections; servers die | the server has the live buffer; no orphan process; no request waits for a dead server |
| Terminals: `services/terminal_service.go`, `frontend/src/stores/terminal.ts` | a table of sessions, their PTYs and reader goroutines; the window's sessions and pending commands | start, write, kill, shutdown, read loop; run a command and wait for its exit code | shells, workflows | start, kill, exit of the shell, exit of the application in any order | table and PTY agree, shutdown ends, an exit code is taken for its own command |
| Conversations: `services/conversation_service.go`, `ai.ts`, `ConversationSidebar.vue`, the AI views | one file per conversation with a revision; per window the conversation it shows and the revision it knows; the sidebar's list | save with revision check, fork on conflict, rename, save by the sidebar, load, select, new | file system, both windows | check and write without a mutex; renames raise the revision unseen; loads and answers arrive after the window moved on | a turn that was saved disappears only by a save that may overwrite what it has not seen |
| Settings and profiles: `services/settings_service.go`, `profile_service.go` | one settings file with a revision, profiles | load with migration, save, switch profile | file system, both windows | the compare-and-set is made under a read lock | no lost update |
| MCP client: `services/mcp_service.go` | a table of clients, each with a transport and a mutex; the configured servers | save, connect, disconnect, delete, call, close | MCP servers behind pipes, the agent, the windows | a call holds the mutex over a receive without a deadline; connect works between two critical sections; answers are not matched by id | an answer is that of its own request; no process is left behind; every call returns |
| Snapshots: `services/snapshot_service.go`, `atomic_write.go` | a metadata file and content-addressed blobs | create, restore, delete, clean up | file system | a crash between blobs and metadata | every snapshot that is listed can be restored |
| Workflows: `frontend/src/stores/workflows.ts` (and `services/workflow_engine.go`, which the windows do not call) | per window the latest run of each workflow: the status of its steps | order the steps, evaluate conditions, run in a terminal session, trigger on saved files and on other workflows | terminals, both windows | workflows trigger one another, in every window at once; a parser evaluates while it consumes | dependencies first; a condition means what is documented; a cascade ends |
| Plugins: `frontend/src/lib/pluginRegistry.ts`, `pluginSandbox.ts`, `stores/plugins.ts`, `main.ts` | the registry with a status per plugin, the owners of commands, the sandbox entries with their workers and pending calls | bootstrap, activate, run a command, disable, enable, retry, reload | web workers, the plugin service, the other window | statuses are written after awaits; workers crash, are replaced and terminated while calls wait | no command runs its empty stub; every waiting call has a worker; no plugin stays activating; bootstrap ends |
| Instance lock: `services/instance_lock.go` | a lock file with a process id | acquire, release | other processes | two processes find the same stale lock | one instance runs |
| AI permissions: `services/ai_permission_service.go` | assignments of models, usage records | assign, resolve, record | settings, AI service | saved outside the mutex | what was recorded stays recorded |
| Agent execution: `services/agent_service.go`, `frontend/src/stores/agent.ts` | an audit log; the store's loop | check and execute a command | shells, the user | timeouts of the child process | nothing runs that the filter refused |
| Files, projects and git; debugging and testing; the backend of extensions and toolchains; windows, layout and looks; messaging and computer use | little or none of their own | wrappers of the file system and of external programs | - | - | - |

The hazards of each component, at the line where they bite, are in
`PROJECT.json` under `hazards`, each with the properties that cover it.

## 2. The modules

| Module | Models | Checked by | Proved in |
|---|---|---|---|
| `SingleStream` | the abstract promise of the AI service: a slot for one stream | refined by `AIStream` | `AIStreamProofs` |
| `AIStream` | the AI service's streams, the binding and the chat stores of the windows, composed | `MCAIStream` | `AIStreamProofs` |
| `AIGoal` | one goal and several runs of it | `MCAIWork` | `AIGoalProofs` |
| `AIPlan` | one plan and several executions of its steps | `MCAIWork` | `AIGoalProofs` |
| `LanguageServer` | the servers of a language, one document, several calls of the editor | `MCLanguageServer` | `LanguageServerProofs` |
| `Exchange` | the abstract promise of `request()`: one end per call, its own answer | refined by `JsonRpc` | `LanguageServerProofs` |
| `JsonRpc` | the requests on the connection to one server | `MCPipes` | `LanguageServerProofs` |
| `Terminal` | sessions of the service, their shells, and the window's side, composed | `MCPipes` | `TerminalProofs` |
| `Plugins` | the plugins of one window: registry, store, sandbox host and workers, composed | `MCPlugins` | `PluginsProofs` |
| `Conversation` | the files of the service, the windows and their sidebars, composed | `MCConversation` | `ConversationProofs` |
| `Workflow` | the order, the runs and the triggers of workflows in all windows | `MCWorkflow` | `WorkflowProofs` |
| `WorkflowConditions` | the parser of conditions and what an expression means, added to `Workflow` | `MCWorkflow` | `WorkflowProofs` |
| `MCP` | the table of clients, the client of each connect, the server processes, composed | `MCMCP` | `MCPProofs` |

Two proof modules serve two components each: plans are proved beside goals, and
requests beside the language server that asks them. That is why `AIPlan` and
`JsonRpc` prefix their names (`PlanSpec`, `RpcNext`, ...).

The MC modules add the names of model values, `MCConversation` a symmetry and a
start, `MCPlugins` a bound for each of the two modes, `MCLanguageServer` which
increments are exact, and `MCWorkflow` the definitions of
workflows to check. `MCAIWork` and `MCPipes` hold two components each, for one
run: the two share nothing, so a behaviour moves one of them, its `part`, and
leaves the other as it was at the start, and the states add up instead of
multiplying; each component reaches there what it reaches alone. The mutants, definitions
that stand next to the one they change (`StartClaimUnchecked`, `KeptAll`, ...),
are plausible bugs; `PROJECT.json` says which property each of them breaks.

### AIStream

A *call* is one `sendMessage` of one window. Since a call makes at most one
stream and one assistant message, it names both.

| Model | Code |
|---|---|
| `active` | `AIService.cancel` and `activeStreamID`, always written together |
| `pc`, `cancelled`, `chunks` | where a `StartStream` and its goroutine are, its context, how much it emitted |
| `queue`, `reply`, `stop` | events on their way to a window, the answer of `startStream`, the call of `StopStream` |
| `streaming`, `busy`, `activeId`, `pending` | the store's `streaming`, `globalStreamBusy`, `activeStreamId`, `pendingAssistantMessage` |
| `SetConfig`, `StartRefused`, `StartClaim`, `StartAnnounce` | the not awaited `setConfig`; `StartStream` with its refusals, its critical section, and the busy event after it |
| `StreamChunk`, `StreamEnd`, `StreamCleanup`, `StreamIdle` | the goroutine: chunks, done or error, the deferred release that looks whether the slot is still its own, the idle event |
| `StopCancel`, `StopAnnounce` | `StopStream` |
| `Send`, `Started`, `Refused`, `Stop`, `Stopped`, `Deliver` | the store and its listeners, with `isOwnedStreamEvent` as `Owned` |

The text is abstracted to who appends to whose message; a configuration to
whether a key is present. The calls of the model are interchangeable until they
are made, so `Send` takes any fixed one that is unused (`NextCall`).

### AIGoal

A *run* is one call of `RunGoal` or `ResumeGoal`. One action for each stretch of
code between two slow calls or under one lock: the check at the head of the
loop (`LoopStops`, `LoopFails`, `RoundBegins`), what the executor returns
(`RoundErrs`, `RoundExecuted`), the checkpoint (`DecideCheckpoint`,
`AutoCheckpoint`), the evaluation (`NotAchieved`, `Achieved`). The user's calls
are actions of their own and may come between any two of them. `RoundExecuted`
adds any cost up to `RoundCost`; `Expire` stands for `MaxDuration` passing. Two
runs of one goal may overlap: `RunGoal` looks at the status only, and a goal that
is paused while its loop is inside a round is runnable again before that loop
has seen the pause. `stranded` is history: a `ResumeGoal` was refused by its own
`RunGoal` while nobody else drove the goal, and the goal has not been paused,
aborted or rolled back since.

### AIPlan

A step is an identity, and the window may hit any step, because it names steps
by their index in the plan it saw last. `Execute` is the first critical section
of `ExecuteStep`; `Succeed` and `Fail` are the second one, in which a call that
became `detached` by a replan writes into a step nobody sees. `PlanInit` keeps the
statuses that the caller of `CreatePlan` gives its steps. `EditStep` changes
what a step does and is otherwise an approval.

### LanguageServer

`entry` is the row of the language in `LSPService.servers`, `version` and
`content` the bookkeeping of the document (the hash always agrees with the
content and is not kept twice), `wire` the pipe, `peer` the document as the
server has it. A call first finds the server (`Begin`), then skips the sync
(`SkipSync`), or records a new version and prepares the notification under
`docMu` (`Allocate`, `Forget`) and writes it after the unlock (`Notify`). An
increment carries the text it was computed from; applied to another one it
makes a garbled text (`Fits`, `Garbled`). So may one that is applied to the right
text: `buildIncrementalChange` counts columns in bytes and sends them as the
characters of the protocol, which are UTF-16 units. The constant `Exact` is the
set of changes, pairs of an old and a new text, for which the two agree; what is
proved holds for any such set. `skewed` is history: an increment since the
document was opened was not exact. Servers can crash at any time and are not waited for, so
the table keeps them, as the code does.

### JsonRpc

`request()` is `Register`, `WriteRequest` or `WriteFails`, `Wake` or `Timeout`,
`Unregister`. The reader is `ReadOther`, `ReadAnswer` (looks the channel up under
the lock), `HandOver` (sends after the unlock, into a slot of one, without
waiting), `StopReading` (the connection has ended: the table is emptied and each
channel gets a nil). The server answers in any order, talks, sends garbage, or
dies.

`Exchange` is what a caller may rely on: where its request is (still with it, with
the server, back with an answer, or lost) and what it was told, each for a
reason that is true. `Exchanged` maps the pipes, the reader's hand and the
channels to these places: an answer is *back* as long as it is in the pipe, in
the hand or in the channel.

### Terminal

The service's goroutines are program counters: `start` for `StartSession`,
`loop` for `readLoop`, `kill` for `KillSession`, `writing` and `holding` for the
calls of `WriteSession` before and after the lock, `shutdown` for `Shutdown`.
The shell reads what was typed, runs the commands one after the other and prints
the exit code of each; or it ends. The window is `view`, with `promise` for the
promise of `runCommandAndWait`, `Answers` for the sentinel it looks for.
`Created` and `Removed` are the answers of the awaited calls; they are not
ordered against the events.

### Plugins

An activation is an attempt with a number, and in sandbox mode attempt *k* starts
worker *k*, so that a late callback of a replaced worker is told apart from its
successor. JavaScript runs to the next await, so everything between two awaits is
one action.

| Model | Code |
|---|---|
| `status`, `owner`, `sandbox` | `plugins` and the command and view maps of the registry, `sandboxes` of the host (an entry is its worker) |
| `Begin`, `Launch`, `LaunchFails`, `Activated`, `Fails`, `Settle` | `activatePlugin`: up to the import of the worker, the worker's start, and what is written after the await |
| `Crash` | `onerror` of a worker: its activation and its waiting calls are rejected; its entry and its commands stay |
| `StartLoop`, `Listed`, `ScanActivate`, `Resume`, `ScanEnd` | `loadPlugins` up to its await and behind it, with `activateOnStartup`; and the loop of `executePluginCommand` over the lazy plugins, which is the same but for its end |
| `Answer`, `Register` | a worker that answers a command, and one that registers a contribution |
| `Toggle`, `Disable`, `Enable` | `togglePluginEnabled` up to the answer of `setPluginEnabled`, and `disablePlugin` or `enablePlugin` behind it |
| `Retry`, `Leave` | `retryPluginActivation`, and what follows a `deactivate()` that a plugin in the window was awaited for |
| `Mount`, `Mounted` | `PluginsView` is mounted: `loadPlugins` up to its await and behind it |
| `DiskChanges` | what the other window or an installation does |

An await of a promise that is settled already is not a step of its own: nothing
but other such continuations runs before it goes on. `acting` and `mounting` hold
the acts of the user that await something. `Leave` begins an attempt whatever the
status has become, since `deactivatePlugin` sets it to loaded first
(`pluginRegistry.ts:579`), unless the entry it holds was removed meanwhile.

`AttemptsSuffice` says that the bound on attempts never disables a step.

### Conversation

A conversation is a set of turns, a turn being one message sent with what
followed it; the text is left out. Each turn has a task, its
`persistConversation`: the id (`IdGiven`), the title it may wait for
(`TitleGiven`), then `Save` in its two halves, the comparison (`Check`) and the
write (`Write`), and the answer (`Answered`), or on a conflict the fork (`Fork`,
`ForkAnswered`). Renames and the sidebar's saves (`StartRename`,
`StartSoftSave`) are tasks that go through `Save` too, without an expected
revision. A window gets an event of each save of the other one (`Announce`,
`Deliver`), loads (`Read`, the answer `Loaded`), selects and begins anew
(`Select`, `NewConversation`). A send adds its turn and drops what exceeds
`MAX_AI_MESSAGES` (`Send`); the `catch` of one that is refused (`Refused`) ends
whatever the window has under way and takes the last message off (`Pop`), which
is its own empty reply (`tail`) unless the messages were replaced meanwhile. Which
sends are refused is the business of `AIStream`; here any may be, and a window may
send while the other one streams.

History variables: `raced`, two saves have met between comparison and write;
`mixed`, what a window shows was replaced while a save of its own was out, or
named anew by a selection, and neither loaded nor begun anew since with none out;
`tainted`, a save that left a mixed window, so that its revision may be another
conversation's;
`dropped`, the turns a window took off its own messages, by a refused send or by
the cap, since it last got other ones; `cut`, those it had taken off when a save
left.

### Workflow

`topologicalSort` is a depth-first search by a recursive function. The model
makes its open calls explicit, the innermost first: `Visit` is what the
innermost call does next (`Enter` a dependency, return and `Push` its step, or
refuse), `Turn` one such step, and `Sorting` the search after any number of
them; `MaxTurns` bounds it. A step *in progress* is one whose call is open.

A run belongs to a window and a workflow. `Proceed` is the loop of
`runWorkflow` up to the next command or to its end: it skips the steps whose
condition does not hold (`Skipped`) and stops at the first one that runs, or
behind the last (`StopAt`). The outer `catch` of `runWorkflow` (756-766) is left
out: everything the run calls or awaits catches its own errors (`createSession`
answers an empty id, the commands never reject, `extractOutputValue` and
`killSession` catch), so it is not reached. `Deliver` is an event in a window's queue: a saved
file, or the completion of a workflow, which starts those that follow it at a
greater depth.

What a condition decides is the constant `Holds` of the module, so that what is
proved holds whatever the parser answers. `WorkflowConditions` gives it, and the
run checks the two together: the parser is a recursive descent over tokens that
evaluates while it consumes, an operator per function of the source
(`ParseOr`, `ParseAnd`, `ParseNot`, `ParsePrimary`), with the rest of a loop
behind its operator as one more (`OrTurn`, `AndTurn`). Whatever calls another
has consumed a token first, so that `Parser` is a recursive function over the
tokens that may still be consumed, not a recursive operator. What an expression
should mean is independent of the parser: `Forest` is a sequence of nodes, each
behind its operands, with the tokens it is written in (`WellFormed`: `!` binds
stronger than `&&`, and `&&` than `||`, both from the left; a weaker operand is
in parentheses), and `Meaning` evaluates the nodes. A condition that is no
expression has no node: the parser answers something, and nothing is said of it.

### MCP

A task is one call of the service in its goroutine; a client has the name of the
`ConnectServer` that makes it. `holder` is the mutex of the service where the
code keeps it while it waits (`DeleteServer` and `Close`, for `StopServer`);
`busy` is the mutex of a client, which `call` holds from its write (`Send`) to
its read (`Receive`, `ReceiveGarbage`, `ReceiveEnd`). `lost` is history: clients
that another connect has replaced in the table. The process answers its
requests in order, may send one line that answers nothing, and may die.

## 3. What is checked

Each run is one configuration; `MaxX` constants and the sizes of the sets are
bounds of the model, named at their declaration.

| Run | Instance | States | Question |
|---|---|---|---|
| `stream` | two windows, two sends, one chunk per stream, events one behind | 804,313 | Is there ever a second live stream, a stream nobody can stop, a window locked out? |
| `stream_foreign` | the same | - | Does a window append foreign text? (it does) |
| `work` | a goal: two runs, three rounds, a budget of one, a checkpoint every second round, two marks; beside it a plan: three steps, three executions | 158,941 | Budget, history, drivenness, termination of overlapping runs; double execution, lost work, false completion; deadlock is checked too |
| `goal_resume` | the same, no marks | - | Is a goal that says running always driven? (it is not: `ResumeGoal`) |
| `language_server` | three calls, two texts, increments exact in one direction, two servers, a pipe of two | 169,272 | Does the server have the buffer, does a process leak, does a call hang? |
| `language_server_synced` | the same with one server | - | Does a server that is told everything in order have the text? (it does not, behind a character that is not ASCII) |
| `pipes` | a connection: three requests, pipes of one; beside it a terminal: one session, two commands, the shutdown | 69,024 | Does the client implement `Exchange`? Lost wake-ups, waiting for the dead; agreement of table, PTY and reader; ends of shutdown and commands; own exit code |
| `mcp` | one server, two connects, two other calls, one line out of turn | 149,493 | Does a call take another's answer, does a process stay behind, does the shutdown hang? |
| `plugins` | two plugins that want one id, one started by bootstrap and by a command, one by the user; one bootstrap, one command; two acts in a sandbox, three without one, where the second plugin stays disabled | 474,926 | Empty stubs, calls without a worker, stuck statuses, the end of bootstrap |
| `workflow` | every graph of three steps, some 320 conditions and four malformed ones, two workflows with every pair of triggers, two windows | 323,168 | Order, meaning of conditions, end of a cascade |
| `conversation` | two windows that show the conversation of one turn, a sidebar in one, two turns, windows that retain two, a rename, a save of the sidebar, three acts | 1,603,453 | Which saves may make a saved turn disappear? |
| `conversation_overwrite` | two windows, a sidebar in one, one turn, no rename, a save of the sidebar, two acts, nothing dropped | - | Does the sidebar overwrite a turn silently? (it does) |

### Why the bounds are enough to be interesting

- *stream*: the hazards need a stream that ends or is stopped late, another
  one that takes the slot meanwhile, and a window that acts while it is behind.
  Two sends and two windows give all of these; the invariants are proved
  for any number of both.
- *work*, the goal: two runs suffice for one loop to be inside a round while another
  starts; three rounds reach an automatic checkpoint and the iteration limit;
  a budget of one round is overspent by the second run.
- *work*, the plan: three calls hold a detached, a running and a finished execution at
  once; three steps allow one that is dropped, one that stays, one that is new.
- *language_server*: two servers are a restart; three calls are an open, a change and
  a close or a reopening, and allow two that swap; with one pair of texts exact
  and the other not, an increment of each kind follows one of each kind.
- *pipes*, the connection: three requests on pipes of one fill the pipe; with one handed
  over, one in the table and one about to register when the connection ends.
- *pipes*, the terminal: sessions share nothing but the table (a set of which every action
  touches its own element) and the shutdown. Two commands are the least for a
  late exit code to meet a waiting command.
- *mcp*: two connects on one name follow one another or overlap; two other calls
  are a call against a disconnect, a delete or the shutdown, or two calls that
  contend for one client. (The invariants also hold with three other calls, 609,727 states.)
- *plugins*: bootstrap and a command ask for the same plugin, so that each finds the
  attempt of the other under way or failed; the second plugin competes for the
  id. Two acts let a toggle or a retry meet an activation under way, and
  another one meet its outcome. Without a sandbox three acts are needed for an entry
  that is removed from the registry while `deactivate()` of its plugin runs (the
  retry, the deletion, the loading); without workers the second plugin adds little.
- *workflow*: three steps have every shape of dependency (chain, fork, diamond
  without its last step, cycle, self-cycle); conditions reach depth three, where
  the two binary operators, the negation and parentheses meet in every order; two
  workflows that trigger each other without end are stopped at a depth of two.
  Sixteen turns are what `SortEnds` asks for three steps of at most three
  dependencies; ten give the same states.
- *conversation*: the turn that is there from the start is a base, of the two
  others one is late and the other one is what it meets; three acts are two sends
  with a selection, a rename or a save of the sidebar between them; a window that
  retains two has to drop one at its second send; two windows are what the
  application has. Both show that conversation at the start, the case in which they
  can disturb each other; a window without one is a new conversation (an act) away. The overwriting shows with one turn and two acts already, and
  the smaller instance keeps its trace short.

### What the properties say

- `LiveIsStoppable`, `ImplementsSlot`: the slot, whatever late goroutines and
  foreign stops do. `QuietMeansSendable`, `SendEventuallyEnabled`: the busy flag
  recovers though its events leave the lock and may be overtaken.
- `BudgetBound`: the budget is overspent by less than one round per run, no more
  and no less being guaranteed. `RunningIsDriven`: a goal that says running is driven,
  except while it is `stranded`; `ResumedIsDriven` is the same without the
  exception, which fails. `CheckpointsAreHistory`, `RunsReturn`.
- `RunsOnce`, `CompletedIsSettled`, `WorkIsKept` (an action property).
- `BufferKnown`: if no two notifications were prepared at once, a server that
  has read everything has the version the client counts, and, unless an increment
  since the opening was not exact, the text of the latest call. Both premises are
  history. `SyncedIsKnown` is the statement without the second one, which fails.
  `NoOrphan`, `CallsReturn`.
- `ForgottenIsWoken`, `DeathWakesAll`, `AnswerArrives`; `Exchanged`: `JsonRpc`
  implements `Exchange`, so that no call takes another's answer and none is
  dropped while its caller waits.
- `RunningIsOpen`, `CodeIsOwn`, `ShutdownEnds`, `DeathEndsCommand`. (Typing and
  `NoLeak` of `JsonRpc`, typing and `TableIsRead` of `Terminal`, and
  typing of `AIPlan` are proved, see section 4, and no run repeats them.)
- `OwnAnswer`: what a call receives answers its own request, though ids are not
  compared, as long as the server sends nothing but answers. `NoStray`: a
  process that runs is in the table or somebody is about to deal with it, except
  that of a client which an overlapping connect replaced. `AllCallsReturn`.
- `StubNeverRuns`, `CallsHaveWorker`, `NoStuckActivating`, `BootstrapEnds`: the
  last two name their one exception each (`Orphaned`, `Stranded`).
- `DependenciesFirst`, `CascadeEnds`; `ConditionsMean` compares the parser with
  the meaning of the expression the tokens were made from.
- `SavedTurnsStay` (an action property): a saved turn disappears only by a save
  that may overwrite what it has not seen (`Unguarded`: a save of the sidebar, of
  a rename or of a new conversation, one whose window knows no revision, and a
  tainted one), by the second of two saves that met inside `Save` (`raced`), or
  because the saving window had taken it off its messages itself (`cut`). So it
  does not catch these; it says that the order of events, loads, sends, forks and
  waits adds no other way. `NoSilentOverwrite` is the stronger statement of the
  changelog, which fails.

### Fairness

Weak fairness, and only of what the platform schedules: goroutines that can run
do, calls are answered and events delivered. No user is made to act.

- `AIStream`: only a *cancelled* stream must end: `aiStreamHTTPClient` has no
  total timeout, so a stream the provider keeps open may last.
- `AIGoal`: the executor returns (it runs commands under a timeout).
- `LanguageServer`: a server that is alive reads its stdin. The code needs this:
  the write has no deadline and holds `writeMu`.
- `JsonRpc`: the waiting calls and the reader run; no deadline is assumed to
  pass and nothing is assumed of the server, not even that it answers.
- `Terminal`: no shell answers or ends, no timer fires and no shutdown begins
  unless it happens to.
- `MCP`: the goroutines run, and a server that runs answers its requests. The
  code needs the latter: nothing else ends the wait of a call.
- `Plugins`: continuations run and a plugin's `activate()` returns or throws; no
  command handler must ever answer.
- `Workflow`: sessions answer, a command ends or times out, events arrive.
- `Conversation` states no liveness: every save ends in one or two answers.
- `AIPlan` states no liveness: a tool may hang, and a plan waits for its user.

Deadlock is checked where the system never stops (`work`, by its plan); elsewhere it stops
when the bounded calls are used up.

### Disagreements found

Four runs end in a counterexample, and each is a place where a comment or the
changelog says more than the code does (`findings` in `PROJECT.json`):

- a window that has sent and not got its stream id yet takes in the other
  window's text (`ai.ts:127`);
- `ResumeGoal` says that it re-enters the loop, but sets the status that its own
  `RunGoal` refuses; unless a pause slips in between, the goal stays running and
  nobody drives it (`ai_goal_service.go:448`);
- `syncDocument` says that it makes the live buffer known, but an increment counts
  its columns in bytes where the protocol counts UTF-16 units, so one edit behind
  a character that is not ASCII leaves the server with another text
  (`lsp_service.go:1030`);
- a favorite set in the sidebar writes a conversation back as it was listed and
  takes a turn with it (`ConversationSidebar.vue:178`).

### What else the modelling showed

The properties above name these as their exceptions, or they lie outside them.

- Goals: a goal that was aborted or paused while its last round is evaluated
  becomes completed (`ai_goal_service.go:400`); no property excludes it.
- Language servers: `syncDocument` is documented to send "a monotonic version"
  (`lsp_service.go:900`), but the version is allocated under `docMu` and written
  after it (944), so versions may arrive in the other order; `BufferKnown`
  excuses a document to which that happened. A write that fails is only logged
  (977), and a server that died is not started again until it is stopped (244);
  no property excludes either.
- Plans: the result of a tool whose step was replaced by a replan is lost.
- Terminals: an exit that is delivered before `createSession` has returned is
  forgotten (`terminal.ts:158`), and a command in that session waits its five
  minutes; the premise `ExitToCome` of `DeathEndsCommand` excludes it.
- MCP: of two connects of one name that overlap, the later one to finish replaces
  the other in the table, whose process nobody stops, so `Close` does not quite
  "shut down all running MCP clients"; a connect under way may also enter the
  table after `Close` or `DeleteServer`. After a line that is no answer, every
  call gets the answer of the one before it. The process belongs to the context
  of the call that started it.
- Plugins: `retryPluginActivation` of a plugin in error does not deactivate it
  first, as its comment says, since `deactivatePlugin` returns unless the status
  is "activated"; `disablePlugin` during an activation is overwritten by
  "activated"; a plugin removed by a sync keeps its worker, whose contributions
  may reappear; bootstrap waits for ever if the worker it awaits is replaced or
  terminated.
- Workflows: `running` is kept per window, so an event that reaches two windows
  starts a workflow in both; a workflow emits its completion before its session
  is killed and `running` reset, so that a chain back to it is missed meanwhile;
  `steps.build.success || steps.build.failed`, documented as "always run"
  (`workflows.ts:258`), does not run after a fatal failure, which skips all steps
  behind it.
- Conversations: a rename makes the next save of its own window conflict with it
  and fork; the answer of a save sets the revision of whatever the window shows
  by then; two saves that meet inside `Save` give two contents one revision; a
  load answered after a send has begun replaces the messages of that send. If
  that send is then refused, its `catch` (`ai.ts:461-463`) removes the last message
  of the conversation just loaded, and the next save, whose revision is right,
  writes the loss to the disk. `trimMessagesIfNeeded` (131-136) drops the oldest
  messages of a window for good: the next save writes the conversation without
  them.
- Agent, by reading only: `applyApprovalPolicy` (`agent.ts:619`) approves `write`
  by itself, which the comment above `shouldAutoApprove` excludes; and the second
  of two calls approved at once loses its observation, since `sendMessage`
  refuses while the window streams.

## 4. What is proved

The proof modules hold for every value of the constants that satisfies the
assumption of the component's module (`StreamAssumption`, `GoalAssumption`,
`PlanAssumption`, `LanguageServerAssumption`, `RpcAssumption`,
`TerminalAssumption`, `PluginsAssumption` with `AttemptsSuffice`,
`ConversationAssumption`, `MCPAssumption`, `WorkflowAssumption`): bounds are
naturals, positive where an empty instance would be meant otherwise, and `None`
is not one of the things it stands for the absence of. `LanguageServer` assumes
of `Exact` that it is a set of pairs of texts, and of `Garbled` that it is no text.
`ConditionAssumption` says what a well-formed expression is. `AIGoal` also assumes that there are finitely many runs, since the
budget's bound counts them, and `Conversation` finitely many turns, since they
number the conversations. Nothing else is assumed.

Each module has a typing theorem and, on top of it:

- **AIStream**. `StoppableSlot` (`LiveIsStoppable`): the invariant alone is not
  inductive, since a stream could be cancelled before it claims the slot and
  then take it; `SlotInv` adds `CancelledClaimed` (only a stream past its claim
  is ever cancelled). `SlotRefinement` (`ImplementsSlot`) maps `LiveStreams` to
  `SingleStream`: under `SlotInv` a claim is `Begin`, an end or a stop of a live
  stream is `Leave`, the rest stutters. `NoLockout` (`QuietMeansSendable`):
  `BusyInv` says of every window why it is busy: a stream is there, or an idle
  event is in its queue or still owed, or its own send has not been answered;
  and that a queue that ends with a busy event has a stream behind it.
- **AIGoal**. `CheckpointHistory`, from what a rollback keeps of the list
  (`KeptPrefix`) and what an append adds (`HistoryExtends`). `Budget`
  (`BudgetBound`): the bound is not inductive; `BudgetInv` adds that each run
  inside a round may still add a `RoundCost`, so cost plus what the
  runs in a round may add stays within the bound. `Driven` (`RunningIsDriven`)
  is inductive on the types.
- **AIPlan**. `ApprovalIsForOneRun` (`RunsOnce`) through `ExecutedIsSpent`: a
  step that was ever the target of a call is past approval for good. `Settled`
  and `KeepsWork` rest on the lemma `Running`: what a call that is still
  attached to the plan may find at its pointer.
- **LanguageServer**. `OneServer` (`NoOrphan`), inductive on the types, which
  hold that a call past its start has a server (`CallsEquipped`). `LiveBuffer`
  (`BufferKnown`) through `BufferInv`: there is a path from what the server has
  over what each message in the pipe makes of it (`Path`), and the one message
  that may be out of `docMu` leads from its end to what the client has recorded
  (`Leads`), except for the text when an increment was not exact (`Matches`); and
  the client's record is what the latest call wanted. The path is a function from
  the places in the pipe, so that reading or appending a message shifts or extends
  it, and no induction over the pipe is needed.
- **JsonRpc**. `Leakless` (`NoLeak`) and `NoLostWakeup` (`ForgottenIsWoken`).
  `KeepsPromise` (`Exchanged`) maps each step to one of `Exchange` or to none.
  Under `ExchangeInv` a request is in one place only (`OnePlace`) and nowhere
  before it was written (`Written`), what a caller was told agrees with where
  its call is (`Told`), and a call that has not returned is in the table as long
  as somebody reads (`Connected`): hence an answer that nobody is found for is
  one whose caller has returned.
- **Terminal**. `OpenWhileRunning` (`RunningIsOpen`) through `OpenInv`: a
  session whose start is under way is not in the table and cannot be killed,
  since the window does not know it; a kill past the lock has taken it out for
  good. `NoDeadSession` (`TableIsRead`), inductive. `OwnExitCode` (`CodeIsOwn`)
  through `CodeInv`: every exit code in the PTY or in an event is that of a
  command the shell has finished.
- **Plugins**. `HostInv` says of the sandbox host that an attempt that began has
  its plugin, that a worker that runs is the entry of its plugin, and an entry a
  worker of its own plugin (`HostCorrect`). On it rest `StubSafe`
  (`StubNeverRuns`), `CallsSafe` (`CallsHaveWorker`) and `NeverStuck`
  (`NoStuckActivating`), each with what it adds about owners, waiting calls, and
  attempts under way.
- **Conversation**. `SavedStay` (`SavedTurnsStay`) through `KnowsInv`. A revision
  with a content *knows* a file if it is not newer, and if equal to the file's
  revision then its content holds every turn of the file, unless two saves have
  met there. The invariant says so of what every window shows, of every load and
  its answer, and of every save from its start to its fork, except where a
  window is mixed or a save tainted; the content of a window is what it shows
  with what it has taken off itself since (`Had`), that of a save its messages
  with what had been taken off by then. `FilesGrow` and `KnowsStays` carry it over
  the writes; and a guarded write, which saw the revision it expects, therefore
  writes all that was there but for what its window had taken off.
- **MCP**. `AnswersOwn` (`OwnAnswer`): the invariant is not inductive, since it
  is about what has arrived. `AnswerInv` says of each client who is inside its
  call: the holder of `busy` and nobody else (`MutexInv`); and that the pipes
  then carry its request or its answer and nothing more (`PipesInv`, `Paired`),
  unless the server has talked out of turn, which no later call makes good.
  `NothingStrays` (`NoStray`) through `StrayInv`: who keeps the service's mutex
  (`Kept`), that a client in the table or in use by another task has finished
  its connect (`Listed`, `Known`) and one that has not spawned has no process
  (`Fresh`), and that what a delete or the shutdown is about to stop is still
  what the table names (`Stopping`).
- **Workflow**, for any `Holds`. `SortOrders`: the search succeeds with every
  step exactly once, behind all its dependencies. `SortRefuses`: it refuses only
  what has no order: a dependency that is no step, or a cycle, which the open
  calls exhibit, each a dependency of the one below it. Both need an invariant
  of the search over its turns (`SearchInv`: what is pushed is in order, what is
  open is not pushed, no step is forgotten), by induction over the turns; that
  the recursive function exists at all is `SearchExists`, from well-founded
  induction. `SortEnds`: for n steps of at most m dependencies the search ends
  within n(m + 2) + 1 turns. `Paid` is a sum without a sum: a function that pays,
  from each open call outwards, a turn for every step to visit and every return,
  beside a fixed price for each untouched step; every turn lowers what is owed.
  Hence `SortDecides`: given these turns, the search succeeds exactly on the steps
  that can be ordered (`OrderedAcyclic`: along a cycle the places in an order
  would grow for ever). `StepsWait` (`DependenciesFirst`) then follows from `RunInv`: the
  steps a run has left are the pending ones, each once, none before a step that
  it depends on (`Planned`), and at most one step runs (`OneRuns`).
- **WorkflowConditions**, for any well-formed forest (`ConditionAssumption`, which
  the run evaluates on its 320 expressions). `ParserMeans`: the parser finds the
  meaning of every expression, however deep, in every state of a run, and
  `ConditionsHold` (`ConditionsMean`) follows. The induction over the nodes needs
  more than that: `Reads` says of an expression written anywhere among the
  tokens, and of any level of the parser with enough left for what follows
  (`Enough`), what each of the parser's functions returns there, a loop being
  left where it stands behind the expression. `AllRead` proves it node by node
  (`NodeReads`); `ParserExists` and `MeaningExists` that the two recursive
  functions exist. A weaker operand without parentheses, or `||` looping over
  the operands of `&&`, breaks `NodeReads` at the case of the operator.

### Only model-checked

The liveness properties (`SendEventuallyEnabled`, `RunsReturn`, `CallsReturn`,
`DeathWakesAll`, `AnswerArrives`, `ShutdownEnds`, `DeathEndsCommand`,
`BootstrapEnds`, `CascadeEnds`, `AllCallsReturn`): fairness and ENABLED are out of the reach
of the prover used here. Every invariant and every action property that a run
checks is proved.

## 5. What is not modelled

- The components without a module in section 1; the planned ones follow below.
  The others are wrappers of the file system or of external programs, pure
  checks, or preference files, and have nothing a model could tell apart. Most
  of the repository's lines are of this kind or are not behaviour at all:
  templates and styles of the views, three locales, type declarations. The models
  cover the state machines between them, a small share of the lines.
- Plugins: the permissions and file access of a plugin's requests, which are
  checks; `lib/extensionHost/`, which only tests use.
- Conversations: the removal of expired trash, the
  prompt and mode. Workflows: loading, validating and editing, globs, the text
  of outputs; and the engine of the backend. MCP: the SSE and HTTP transports,
  secrets, the audit log, the risk of a tool.
- AI: the contents of messages, the tool calls of agent mode, the retries of
  `doWithRetry`, and the calls of the service that do not stream.
- Language servers: what the requests ask, the parsing of answers, detection
  of installed servers. What a call asks after the sync is `JsonRpc`; the two
  modules share the pipe in the code and are modelled apart: `LanguageServer`
  needs only that the pipe drains or fails, and `JsonRpc` only that messages
  arrive in order.
- Terminal: the PTY of Windows. On Windows the exit marker of
  `wrapCommandWithExitMarker` is written for another shell's variables; the
  model takes the shell of Unix, whose marker works. The output buffer that
  batches output keeps its order and is left out. After `Shutdown` the window
  is gone, so nothing of it is asked.
- The order of shutdown in `main.go`: each step is a call that ends
  (`ShutdownEnds` for the terminals) or, for MCP and the language servers, may
  wait for a mutex that a blocked pipe holds.

## 6. Plan

What is left, in the order of what users lose when it goes wrong.

| Next | Module | Abstract specification | Properties | Theorems |
|---|---|---|---|---|
| 1 | `Settings`: load with migration, save under a read lock, switch of profiles | a register with compare-and-set | no lost update; a migration does not undo a save | the counterpart of `SavedStay` |
| 2 | `Snapshot`: create, clean up and delete with crashes | a set of restorable snapshots | what is listed can be restored after a crash | the blobs named by metadata exist |
| 3 | `InstanceLock`: acquire and release of several processes | mutual exclusion | one instance; a stale lock is recovered | mutual exclusion under the assumption the code makes |

For `Snapshot` the survey found: `CleanupSnapshots` removes blobs
(`snapshot_service.go:562`) before it saves the metadata that no longer names
them (566), so that a crash or a failed save leaves snapshots listed whose files
are gone until the same content is stored again; a crash within `CreateSnapshot`
leaves blobs that nothing names and nothing cleans. For `Settings`: the
comparison and the write are under `pathMu.RLock` (`settings_service.go:393`),
which several savers and a load that migrates share.

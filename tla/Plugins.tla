------------------------------ MODULE Plugins ------------------------------
(***************************************************************************)
(* The plugins of one window: the registry (frontend/src/lib/              *)
(* pluginRegistry.ts), the store over it (stores/plugins.ts), the sandbox  *)
(* host (lib/pluginSandbox.ts) and the worker of each sandboxed plugin     *)
(* (lib/pluginWorkerBootstrap.ts).                                         *)
(*                                                                         *)
(* An activation is an attempt with a number; in sandbox mode attempt k    *)
(* starts worker k.  Everything between two awaits is one step, and an     *)
(* await of what is settled already goes on before the next event.         *)
(* Commands and views follow the same rules and are both called            *)
(* contributions.  A task is a caller that awaits activations one after    *)
(* the other: a loadPlugins with its activateOnStartup, or an              *)
(* executePluginCommand.  What the user does has awaits of its own.        *)
(***************************************************************************)
EXTENDS Naturals, FiniteSets

CONSTANTS
  Plugin,       \* the plugins
  Id,           \* the ids of contributions
  Loop,         \* bootstrap and reloads: loadPlugins; activateOnStartup
  Call,         \* calls of executePluginCommand, each of some id
  Startup,      \* the plugins with the activation event onStartup
  Lazy,         \* per plugin the ids it declares onCommand for
  MaxAttempt,   \* attempts (bound)
  MaxAct,       \* acts of the user and of the other window (bound)
  NoPlugin, NoId

Task == Loop \cup Call
Attempt == 1..MaxAttempt

\* Every activation the tasks and the acts ask for fits: the bound on the
\* attempts never disables a step.
ASSUME PluginsAssumption ==
  /\ Startup \subseteq Plugin /\ Lazy \in [Plugin -> SUBSET Id]
  /\ NoPlugin \notin Plugin /\ NoId \notin Id /\ Loop \cap Call = {}
  /\ MaxAttempt \in Nat /\ MaxAct \in Nat

ASSUME AttemptsSuffice ==
  /\ IsFiniteSet(Plugin) /\ IsFiniteSet(Task)
  /\ MaxAttempt >= Cardinality(Plugin) * Cardinality(Task) + MaxAct

VARIABLES
  sandboxed,  \* setSandboxMode, called once by bootstrap before any plugin
  disk,       \* per plugin what PluginService.ListPlugins says of it
  status,     \* per plugin its activation status; "none": not in the registry
  owner,      \* per id the plugin in the commands or views map
  sandbox,    \* per plugin the worker of its entry in sandboxes; 0: none
  used,       \* the attempts begun
  of,         \* per attempt its plugin
  stage,      \* per attempt where its activatePlugin is
  bound,      \* per attempt whether its entry is still the one in the registry
  worker,     \* per attempt its worker
  at,         \* per task where it is
  todo,       \* per task the plugins its loop has not come to
  on,         \* per task the attempt it awaits, or the worker it has called
  asked,      \* per call the id
  listed,     \* per task what ListPlugins has answered it
  acting,     \* the acts of the user on a plugin that are under way
  mounting,   \* the mounts of PluginsView under way
  acts
attemptVars == <<used, of, stage, bound>>
taskVars == <<at, todo, on, asked, listed>>
actVars == <<acting, mounting>>
vars == <<sandboxed, disk, status, owner, sandbox, attemptVars, worker, taskVars, actVars, acts>>

-----------------------------------------------------------------------------
Live == {"starting", "running", "errored"}    \* the worker's thread runs
Crashed == {"errored", "crashed"}             \* entry.crashed
Nothing == [p \in Plugin |-> "absent"]        \* no list, or the empty one

Listing == [Plugin -> {"enabled", "disabled", "absent"}]

\* An act awaits setPluginEnabled ("set"), or the deactivate() of a plugin in
\* the window ("module"; "gone": the plugin's entry was removed meanwhile).
Acting == [act : 1..MaxAct, plugin : Plugin, what : {"enable", "disable", "retry"},
           at : {"set", "module", "gone"}]
Mounting == [act : 1..MaxAct, list : Listing]

Init ==
  /\ sandboxed \in BOOLEAN
  /\ disk \in [Plugin -> {"enabled", "disabled"}]
  /\ status  = [p \in Plugin |-> "none"]
  /\ owner   = [i \in Id |-> NoPlugin]
  /\ sandbox = [p \in Plugin |-> 0]
  /\ used    = 0
  /\ of      = [k \in Attempt |-> NoPlugin]
  /\ stage   = [k \in Attempt |-> "free"]
  /\ bound   = [k \in Attempt |-> FALSE]
  /\ worker  = [k \in Attempt |-> "none"]
  /\ at      = [t \in Task |-> "idle"]
  /\ todo    = [t \in Task |-> {}]
  /\ on      = [t \in Task |-> 0]
  /\ asked   = [t \in Task |-> NoId]
  /\ listed  = [t \in Task |-> Nothing]
  /\ acting  = {} /\ mounting = {}
  /\ acts    = 0

\* activatePlugin up to its first await, for a plugin whose status (possibly
\* set by the same step) lets it begin.
Begin(p) ==
  /\ used < MaxAttempt
  /\ used' = used + 1
  /\ of' = [of EXCEPT ![used + 1] = p]
  /\ stage' = [stage EXCEPT ![used + 1] = "import"]
  /\ bound' = [bound EXCEPT ![used + 1] = TRUE]
  /\ status' = [status EXCEPT ![p] = "activating"]

\* Mutant: the catch block forgets the status.
SettleOnlySuccess(k, outcome) ==
  /\ stage' = [stage EXCEPT ![k] = "settled"]
  /\ status' = IF bound[k] /\ outcome = "activated" THEN [status EXCEPT ![of[k]] = outcome] ELSE status
  /\ UNCHANGED <<used, of, bound>>

\* The end of activatePlugin: it writes the status of its own entry, whatever
\* that status has become meanwhile.
Settle(k, outcome) ==
  /\ stage' = [stage EXCEPT ![k] = "settled"]
  /\ status' = IF bound[k] THEN [status EXCEPT ![of[k]] = outcome] ELSE status
  /\ UNCHANGED <<used, of, bound>>

\* unregisterPluginContributions
Unregistered(p) == [i \in Id |-> IF owner[i] = p THEN NoPlugin ELSE owner[i]]

\* Mutant: without the loop over pendingCalls.
NoneRejected(k) == at

\* Calls that wait for worker k are rejected (terminate, onerror).
Rejected(k) == [t \in Task |-> IF at[t] = "wait" /\ on[t] = k THEN "ended" ELSE at[t]]

\* PluginSandboxHost.terminate: rejects the pending calls; the promise of an
\* activation under way is left as it is.
Terminated(k) == IF k = 0 THEN worker ELSE [worker EXCEPT ![k] = "terminated"]

\* The guard of activatePlugin.
MayBegin(p) == status[p] \in {"loaded", "error"}

-----------------------------------------------------------------------------
(* The registry follows the disk (syncPlugins).                            *)

\* Mutant: the word of the list is taken for a status.
SyncedWord(p, list) == IF list[p] = "absent" THEN "none" ELSE list[p]

Synced(p, list) ==
  CASE list[p] = "absent" -> "none"
    [] list[p] = "disabled" -> "disabled"
    [] list[p] = "enabled" /\ status[p] \in {"none", "disabled"} -> "loaded"
    [] OTHER -> status[p]

Removed(list) == {p \in Plugin : list[p] = "absent" /\ status[p] # "none"}

Sync(list) ==
  /\ status' = [p \in Plugin |-> Synced(p, list)]
  /\ owner' = [i \in Id |-> IF owner[i] \in Removed(list) THEN NoPlugin ELSE owner[i]]
  /\ bound' = [k \in Attempt |-> bound[k] /\ of[k] \notin Removed(list)]
  /\ acting' = {IF x.at = "module" /\ x.plugin \in Removed(list) THEN [x EXCEPT !.at = "gone"] ELSE x : x \in acting}
  /\ UNCHANGED <<used, of, stage>>

\* The window's bootstrap, or reloadPlugins: loadPlugins, up to its await; the
\* service lists what is on the disk.
StartLoop(t) ==
  /\ t \in Loop /\ at[t] = "idle"
  /\ at' = [at EXCEPT ![t] = "list"]
  /\ listed' = [listed EXCEPT ![t] = disk]
  /\ UNCHANGED <<sandboxed, disk, status, owner, sandbox, attemptVars, worker, todo, on, asked, actVars, acts>>

\* The answer, or an error, which loadPlugins swallows; then the loop.
Listed(t) ==
  /\ at[t] = "list"
  /\ \/ Sync(listed[t])
     \/ UNCHANGED <<status, owner, attemptVars, acting>>
  /\ listed' = [listed EXCEPT ![t] = Nothing]
  /\ at' = [at EXCEPT ![t] = "scan"]
  /\ todo' = [todo EXCEPT ![t] = Plugin]
  /\ UNCHANGED <<sandboxed, disk, sandbox, worker, on, asked, mounting, acts>>

\* executePluginCommand, which begins with activateOnCommand.
StartCall(t, i) ==
  /\ t \in Call /\ at[t] = "idle"
  /\ at' = [at EXCEPT ![t] = "scan"]
  /\ todo' = [todo EXCEPT ![t] = Plugin]
  /\ asked' = [asked EXCEPT ![t] = i]
  /\ UNCHANGED <<sandboxed, disk, status, owner, sandbox, attemptVars, worker, on, listed, actVars, acts>>

\* The loops skip what is not in the registry, disabled, activated or without
\* the event; activateOnStartup also what has failed before; and activatePlugin
\* returns at once for what is activating.
Wanted(t) ==
  {p \in todo[t] : IF t \in Loop THEN p \in Startup /\ status[p] = "loaded"
                                      ELSE asked[t] \in Lazy[p] /\ MayBegin(p)}

ScanActivate(t, p) ==
  /\ at[t] = "scan" /\ p \in Wanted(t)
  /\ Begin(p)
  /\ at' = [at EXCEPT ![t] = "await"]
  /\ on' = [on EXCEPT ![t] = used + 1]
  /\ todo' = [todo EXCEPT ![t] = @ \ {p}]
  /\ UNCHANGED <<sandboxed, disk, owner, sandbox, worker, asked, listed, actVars, acts>>

Resume(t) ==
  /\ at[t] = "await" /\ stage[on[t]] = "settled"
  /\ at' = [at EXCEPT ![t] = "scan"]
  /\ on' = [on EXCEPT ![t] = 0]
  /\ UNCHANGED <<sandboxed, disk, status, owner, sandbox, attemptVars, worker, todo, asked, listed, actVars, acts>>

\* The loop is through.  A command goes to the worker of its owner (callMethod),
\* fails if there is none to ask, and is run in the window otherwise.
ScanEnd(t) ==
  /\ at[t] = "scan" /\ Wanted(t) = {}
  /\ LET p == IF t \in Call THEN owner[asked[t]] ELSE NoPlugin
         k == IF p \in Plugin THEN sandbox[p] ELSE 0
         asks == k # 0 /\ worker[k] \notin Crashed
     IN \/ /\ asks
           /\ at' = [at EXCEPT ![t] = "wait"] /\ on' = [on EXCEPT ![t] = k]
        \/ /\ ~asks
           /\ at' = [at EXCEPT ![t] = "ended"] /\ UNCHANGED on
  /\ todo' = [todo EXCEPT ![t] = {}]
  /\ UNCHANGED <<sandboxed, disk, status, owner, sandbox, attemptVars, worker, asked, listed, actVars, acts>>

\* The worker answers a call: rpc-call, the handler, rpc-result.
Answer(t) ==
  /\ at[t] = "wait" /\ worker[on[t]] \in Live
  /\ at' = [at EXCEPT ![t] = "ended"]
  /\ on' = [on EXCEPT ![t] = 0]
  /\ UNCHANGED <<sandboxed, disk, status, owner, sandbox, attemptVars, worker, todo, asked, listed, actVars, acts>>

-----------------------------------------------------------------------------
(* An attempt                                                              *)

\* Behind the first await: the host starts a worker and sends it init, and the
\* worker of an older attempt is terminated; without a sandbox the window
\* imports the module and calls its activate().
Launch(k) ==
  /\ stage[k] = "import"
  /\ stage' = [stage EXCEPT ![k] = "await"]
  /\ \/ /\ sandboxed
        /\ worker' = [Terminated(sandbox[of[k]]) EXCEPT ![k] = "starting"]
        /\ at' = Rejected(sandbox[of[k]])
        /\ sandbox' = [sandbox EXCEPT ![of[k]] = k]
     \/ ~sandboxed /\ UNCHANGED <<worker, at, sandbox>>
  /\ UNCHANGED <<sandboxed, disk, status, owner, used, of, bound, todo, on, asked, listed, actVars, acts>>

\* The entry point is missing.
LaunchFails(k) ==
  /\ stage[k] = "import"
  /\ Settle(k, "error")
  /\ UNCHANGED <<sandboxed, disk, owner, sandbox, worker, taskVars, actVars, acts>>

\* activate() of the plugin returned: the message activated.
Activated(k) ==
  /\ stage[k] = "await"
  /\ \/ sandboxed /\ worker[k] = "starting" /\ worker' = [worker EXCEPT ![k] = "running"]
     \/ ~sandboxed /\ UNCHANGED worker
  /\ Settle(k, "activated")
  /\ UNCHANGED <<sandboxed, disk, owner, sandbox, taskVars, actVars, acts>>

\* It threw: the message activation-error.  The worker is not stopped.
Fails(k) ==
  /\ stage[k] = "await"
  /\ \/ sandboxed /\ worker[k] = "starting" /\ worker' = [worker EXCEPT ![k] = "errored"]
     \/ ~sandboxed /\ UNCHANGED worker
  /\ Settle(k, "error")
  /\ UNCHANGED <<sandboxed, disk, owner, sandbox, taskVars, actVars, acts>>

\* Mutant: onerror rejects the calls and forgets the activation.
CrashUnsettled(k) ==
  /\ worker[k] \in Live
  /\ worker' = [worker EXCEPT ![k] = "crashed"]
  /\ at' = Rejected(k)
  /\ UNCHANGED <<sandboxed, disk, status, owner, sandbox, attemptVars, todo, on, asked, listed, actVars, acts>>

\* worker.onerror
Crash(k) ==
  /\ worker[k] \in Live
  /\ worker' = [worker EXCEPT ![k] = "crashed"]
  /\ at' = Rejected(k)
  /\ \/ stage[k] = "await" /\ Settle(k, "error")
     \/ stage[k] # "await" /\ UNCHANGED <<attemptVars, status>>
  /\ UNCHANGED <<sandboxed, disk, owner, sandbox, todo, on, asked, listed, actVars, acts>>

\* The plugin registers a command or a view: an RPC request of its worker, or
\* a call of the context that a plugin in the window keeps for ever.  An id of
\* another plugin is refused.
Register(k, i) ==
  /\ IF sandboxed THEN worker[k] \in Live ELSE stage[k] \in {"await", "settled"}
  /\ owner[i] = NoPlugin
  /\ owner' = [owner EXCEPT ![i] = of[k]]
  /\ UNCHANGED <<sandboxed, disk, status, sandbox, attemptVars, worker, taskVars, actVars, acts>>

-----------------------------------------------------------------------------
(* The user                                                                *)

\* Mutant: deactivatePlugin without unregisterPluginContributions.
TerminateOnly(p) ==
  /\ worker' = Terminated(sandbox[p])
  /\ at' = Rejected(sandbox[p])
  /\ sandbox' = [sandbox EXCEPT ![p] = 0]
  /\ owner' = owner

\* What deactivatePlugin does at once in sandbox mode.
TerminatePlugin(p) ==
  /\ worker' = Terminated(sandbox[p])
  /\ at' = Rejected(sandbox[p])
  /\ sandbox' = [sandbox EXCEPT ![p] = 0]
  /\ owner' = Unregistered(p)

\* Acts alike in everything are told apart by a number: the least one free.
Fresh(n, alike) == LET taken == {x.act : x \in alike} IN n \notin taken /\ 1..(n - 1) \subseteq taken

\* Where an act goes on, and its end.
Moves(x, place) == acting' = (acting \ {x}) \cup {[x EXCEPT !.at = place]}
Ends(x) == acting' = acting \ {x}

\* The user acts on a plugin, and the act awaits something.
Acts(p, what, place) ==
  \E n \in 1..MaxAct :
    /\ Fresh(n, {x \in acting : x.plugin = p /\ x.what = what})
    /\ acting' = acting \cup {[act |-> n, plugin |-> p, what |-> what, at |-> place]}

\* togglePluginEnabled up to its await: SetPluginEnabled writes the file.
Toggle(p) ==
  /\ acts < MaxAct /\ acts' = acts + 1
  /\ status[p] # "none"
  /\ \E what \in {"enable", "disable"} :
       /\ Acts(p, what, "set")
       /\ disk' = [disk EXCEPT ![p] = IF @ = "absent" THEN @ ELSE IF what = "enable" THEN "enabled" ELSE "disabled"]
  /\ UNCHANGED <<sandboxed, status, owner, sandbox, attemptVars, worker, taskVars, mounting>>

\* The file is written: disablePlugin.  An activated plugin is deactivated
\* first, and without a sandbox disabled when its deactivate() has returned.
Disable(x) ==
  /\ x \in acting /\ x.at = "set" /\ x.what = "disable"
  /\ LET p == x.plugin
     IN \/ /\ status[p] = "activated" /\ sandboxed
           /\ TerminatePlugin(p) /\ Ends(x)
           /\ status' = [status EXCEPT ![p] = "disabled"]
        \/ /\ status[p] = "activated" /\ ~sandboxed
           /\ Moves(x, "module")
           /\ UNCHANGED <<worker, at, sandbox, owner, status>>
        \/ /\ status[p] # "activated" /\ Ends(x)
           /\ status' = [status EXCEPT ![p] = IF @ = "none" THEN @ ELSE "disabled"]
           /\ UNCHANGED <<worker, at, sandbox, owner>>
  /\ UNCHANGED <<sandboxed, disk, attemptVars, todo, on, asked, listed, mounting, acts>>

\* The file is written: enablePlugin.
Enable(x) ==
  /\ x \in acting /\ x.at = "set" /\ x.what = "enable" /\ Ends(x)
  /\ LET p == x.plugin
     IN \/ status[p] = "disabled" /\ p \in Startup /\ Begin(p)
        \/ /\ status[p] = "disabled" /\ p \notin Startup
           /\ status' = [status EXCEPT ![p] = "loaded"] /\ UNCHANGED attemptVars
        \/ status[p] # "disabled" /\ UNCHANGED <<status, attemptVars>>
  /\ UNCHANGED <<sandboxed, disk, owner, sandbox, worker, taskVars, mounting, acts>>

\* retryPluginActivation: deactivatePlugin, which does nothing unless the
\* plugin is activated, then activatePlugin.
Retry(p) ==
  /\ acts < MaxAct /\ acts' = acts + 1
  /\ \/ MayBegin(p) /\ Begin(p) /\ UNCHANGED <<worker, at, sandbox, owner, acting>>
     \/ status[p] = "activated" /\ sandboxed /\ TerminatePlugin(p) /\ Begin(p) /\ UNCHANGED acting
     \/ /\ status[p] = "activated" /\ ~sandboxed /\ Acts(p, "retry", "module")
        /\ UNCHANGED <<worker, at, sandbox, owner, attemptVars, status>>
  /\ UNCHANGED <<sandboxed, disk, todo, on, asked, listed, mounting>>

\* deactivate() of a plugin in the window has returned (or thrown): the entry
\* is loaded again, whatever it has become, and then disabled or activated.  An
\* entry that was removed is not the one in the registry, if there is one.
Leave(x) ==
  /\ x \in acting /\ x.at \in {"module", "gone"} /\ Ends(x)
  /\ LET p == x.plugin
         begins == x.at = "module" \/ MayBegin(p)
     IN /\ owner' = Unregistered(p)
        /\ \/ x.what = "retry" /\ begins /\ Begin(p)
           \/ x.what = "retry" /\ ~begins /\ UNCHANGED <<status, attemptVars>>
           \/ /\ x.what = "disable" /\ UNCHANGED attemptVars
              /\ status' = [status EXCEPT ![p] = IF @ = "none" THEN @ ELSE "disabled"]
  /\ UNCHANGED <<sandboxed, disk, sandbox, worker, taskVars, mounting, acts>>

\* loadPlugins, as PluginsView calls it when it is mounted: up to its await.
Mount ==
  /\ acts < MaxAct /\ acts' = acts + 1
  /\ \E n \in 1..MaxAct : /\ Fresh(n, {m \in mounting : m.list = disk})
                          /\ mounting' = mounting \cup {[act |-> n, list |-> disk]}
  /\ UNCHANGED <<sandboxed, disk, status, owner, sandbox, attemptVars, worker, taskVars, acting>>

\* Its answer; an error changes nothing.
Mounted(m) ==
  /\ m \in mounting /\ mounting' = mounting \ {m}
  /\ Sync(m.list)
  /\ UNCHANGED <<sandboxed, disk, sandbox, worker, taskVars, acts>>

\* The other window toggles the plugin, or it is deleted or installed again.
DiskChanges(p) ==
  /\ acts < MaxAct /\ acts' = acts + 1
  /\ \E d \in {"enabled", "disabled", "absent"} \ {disk[p]} : disk' = [disk EXCEPT ![p] = d]
  /\ UNCHANGED <<sandboxed, status, owner, sandbox, attemptVars, worker, taskVars, actVars>>

-----------------------------------------------------------------------------
TaskStep(t) == Listed(t) \/ (\E p \in Plugin : ScanActivate(t, p)) \/ Resume(t) \/ ScanEnd(t)
Outcome(k) == Activated(k) \/ Fails(k)

Next ==
  \/ \E t \in Task : StartLoop(t) \/ TaskStep(t) \/ Answer(t) \/ \E i \in Id : StartCall(t, i)
  \/ \E k \in Attempt : \/ Launch(k) \/ LaunchFails(k) \/ Outcome(k) \/ Crash(k)
                        \/ \E i \in Id : Register(k, i)
  \/ \E p \in Plugin : Toggle(p) \/ Retry(p) \/ DiskChanges(p)
  \/ \E x \in acting : Disable(x) \/ Enable(x) \/ Leave(x)
  \/ Mount \/ \E m \in mounting : Mounted(m)

Spec == Init /\ [][Next]_vars

\* The event loop runs every continuation, the service answers, and a plugin's
\* activate() returns or throws.  A command handler may never return, and nobody
\* has to act.  One task or attempt cannot keep another one waiting for ever, as
\* each takes finitely many of these steps.
Fairness == WF_vars(\/ \E t \in Task : TaskStep(t)
                    \/ \E k \in Attempt : Launch(k) \/ LaunchFails(k) \/ Outcome(k))
FairSpec == Spec /\ Fairness

-----------------------------------------------------------------------------
TypeOK ==
  /\ sandboxed \in BOOLEAN
  /\ disk \in Listing
  /\ status \in [Plugin -> {"none", "loaded", "activating", "activated", "error", "disabled"}]
  /\ owner \in [Id -> Plugin \cup {NoPlugin}]
  /\ sandbox \in [Plugin -> 0..MaxAttempt]
  /\ used \in 0..MaxAttempt
  /\ of \in [Attempt -> Plugin \cup {NoPlugin}]
  /\ stage \in [Attempt -> {"free", "import", "await", "settled"}]
  /\ bound \in [Attempt -> BOOLEAN]
  /\ worker \in [Attempt -> {"none", "terminated"} \cup Live \cup Crashed]
  /\ at \in [Task -> {"idle", "list", "scan", "await", "wait", "ended"}]
  /\ todo \in [Task -> SUBSET Plugin]
  /\ on \in [Task -> 0..MaxAttempt]
  /\ asked \in [Task -> Id \cup {NoId}]
  /\ listed \in [Task -> Listing]
  /\ acting \subseteq Acting /\ mounting \subseteq Mounting
  /\ acts \in 0..MaxAct

\* A sandboxed command has a handler in the window that does nothing and
\* succeeds; only an entry in sandboxes diverts the call to the worker.  So as
\* long as a contribution is listed, its plugin has an entry, whatever was
\* disabled, removed, retried or crashed in between.
StubNeverRuns == sandboxed => \A i \in Id : owner[i] # NoPlugin => sandbox[owner[i]] # 0

\* A command waits only for the worker that is its plugin's current one and
\* whose thread runs: a crash or a termination rejects it ("reject all pending
\* calls so callers don't hang forever").
CallsHaveWorker ==
  \A t \in Task : at[t] = "wait" =>
    LET k == on[t] IN k # 0 /\ worker[k] \in Live /\ sandbox[of[k]] = k

\* A plugin that says activating, for which activatePlugin does nothing, has
\* an attempt under way that will write its status: it is not stuck.  (Only an
\* attempt of an entry that was removed meanwhile may start a worker for the
\* plugin installed again and never write that status.)
InFlight(k, p) ==
  /\ of[k] = p /\ bound[k]
  /\ \/ stage[k] = "import"
     \/ stage[k] = "await" /\ (sandboxed => worker[k] = "starting")
Orphaned(p) == \E k \in Attempt : of[k] = p /\ ~bound[k]
NoStuckActivating ==
  \A p \in Plugin : status[p] = "activating" => Orphaned(p) \/ \E k \in Attempt : InFlight(k, p)

\* Bootstrap awaits the startup plugins before it loads the layout and the
\* workflows.  It comes through, also when plugins fail, crash, are disabled or
\* removed; with one exception: the worker of the attempt it awaits was
\* replaced or terminated, which settles no promise.
Stranded(t) == /\ at[t] = "await" /\ stage[on[t]] = "await"
               /\ sandboxed /\ worker[on[t]] = "terminated"
BootstrapEnds == \A t \in Loop : (at[t] # "idle") ~> (at[t] = "ended" \/ Stranded(t))
=============================================================================

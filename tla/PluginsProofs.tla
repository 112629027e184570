--------------------------- MODULE PluginsProofs ---------------------------
(***************************************************************************)
(* Proofs about Plugins: the types, which worker an attempt and an entry   *)
(* of the sandbox host have, and from that the three invariants, for any   *)
(* number of plugins, ids, tasks, attempts and acts.                       *)
(***************************************************************************)
EXTENDS Plugins, TLAPS

Statuses == {"none", "loaded", "activating", "activated", "error", "disabled"}
Stages == {"free", "import", "await", "settled"}
Workers == {"none", "terminated"} \cup Live \cup Crashed
Places == {"idle", "list", "scan", "await", "wait", "ended"}

\* The next attempt is free, and becomes the one that Begin begins.
LEMMA BeginFacts ==
  ASSUME TypeOK, NEW p \in Plugin, Begin(p)
  PROVE  /\ used + 1 \in Attempt /\ used' \in 0..MaxAttempt /\ used' = used + 1
         /\ of' \in [Attempt -> Plugin \cup {NoPlugin}]
         /\ stage' \in [Attempt -> Stages]
         /\ bound' \in [Attempt -> BOOLEAN]
         /\ status' \in [Plugin -> Statuses]
<1>1. used \in 0..MaxAttempt /\ MaxAttempt \in Nat /\ used < MaxAttempt /\ used' = used + 1
  BY PluginsAssumption DEF TypeOK, Begin
<1>2. used + 1 \in Attempt /\ used' \in 0..MaxAttempt
  BY <1>1 DEF Attempt
<1>3. of' \in [Attempt -> Plugin \cup {NoPlugin}] /\ stage' \in [Attempt -> Stages]
  BY <1>2 DEF TypeOK, Begin, Stages
<1>4. bound' \in [Attempt -> BOOLEAN]
  BY <1>2, Zenon DEF TypeOK, Begin
<1>5. status' \in [Plugin -> Statuses]
  BY DEF TypeOK, Begin, Statuses
<1>6. QED
  BY <1>1, <1>2, <1>3, <1>4, <1>5

\* What the end of an attempt writes.
LEMMA SettleFacts ==
  ASSUME TypeOK, NEW k \in Attempt, NEW o \in {"activated", "error"}, Settle(k, o)
  PROVE  /\ stage' \in [Attempt -> Stages]
         /\ status' \in [Plugin -> Statuses]
         /\ \A p \in Plugin : status'[p] = IF bound[k] /\ of[k] = p THEN o ELSE status[p]
         /\ used' = used /\ of' = of /\ bound' = bound
<1>1. stage' \in [Attempt -> Stages]
  BY DEF TypeOK, Settle, Stages
<1>2. status \in [Plugin -> Statuses]
  BY DEF TypeOK, Statuses
<1>3. CASE bound[k]
  <2>1. status' = [status EXCEPT ![of[k]] = o]
    BY <1>3 DEF Settle
  <2>2. QED
    BY <1>1, <1>2, <1>3, <2>1 DEF Settle, Statuses
<1>4. CASE ~bound[k]
  <2>1. status' = status
    BY <1>4 DEF Settle
  <2>2. QED
    BY <1>1, <1>2, <1>4, <2>1 DEF Settle
<1>5. QED
  BY <1>3, <1>4

\* A rejected call has ended, the others are where they were.
LEMMA RejectedFacts ==
  ASSUME TypeOK, NEW k
  PROVE  /\ Rejected(k) \in [Task -> Places]
         /\ \A t \in Task : Rejected(k)[t] = IF at[t] = "wait" /\ on[t] = k THEN "ended" ELSE at[t]
BY DEF TypeOK, Rejected, Places

\* The worker of an entry is terminated, if there is an entry.
LEMMA TerminatedFacts ==
  ASSUME TypeOK, NEW k
  PROVE  /\ Terminated(k) \in [Attempt -> Workers]
         /\ \A j \in Attempt : Terminated(k)[j] = IF j = k THEN "terminated" ELSE worker[j]
<1>1. 0 \notin Attempt
  BY DEF Attempt
<1>2. CASE k = 0
  BY <1>1, <1>2 DEF TypeOK, Terminated, Workers
<1>3. CASE k # 0
  BY <1>3 DEF TypeOK, Terminated, Workers
<1>4. QED
  BY <1>2, <1>3

\* What the synchronisation with the disk writes.
LEMMA SyncFacts ==
  ASSUME TypeOK, NEW list \in Listing, Sync(list)
  PROVE  /\ status' \in [Plugin -> Statuses]
         /\ owner' \in [Id -> Plugin \cup {NoPlugin}]
         /\ \A i \in Id : owner'[i] \in {owner[i], NoPlugin}
         /\ bound' \in [Attempt -> BOOLEAN]
         /\ acting' \subseteq Acting
         /\ used' = used /\ of' = of /\ stage' = stage
<1>1. \A p \in Plugin : Synced(p, list) \in Statuses
  BY DEF TypeOK, Synced, Statuses, Listing
<1>2. status' \in [Plugin -> Statuses]
  BY <1>1 DEF Sync
<1>3. owner' \in [Id -> Plugin \cup {NoPlugin}] /\ \A i \in Id : owner'[i] \in {owner[i], NoPlugin}
  BY DEF Sync, TypeOK
<1>4. bound' \in [Attempt -> BOOLEAN]
  BY DEF Sync
<1>5. acting' \subseteq Acting
  <2>1. \A x \in Acting : [x EXCEPT !.at = "gone"] \in Acting
    BY DEF Acting
  <2>2. QED
    BY <2>1 DEF Sync, TypeOK
<1>6. QED
  BY <1>2, <1>3, <1>4, <1>5 DEF Sync

\* What an act that begins, goes on or ends makes of the acts.
LEMMA ActFacts ==
  ASSUME TypeOK
  PROVE  /\ \A x \in acting : /\ x \in Acting /\ x.plugin \in Plugin
                              /\ Ends(x) \/ Moves(x, "module") => acting' \subseteq Acting
         /\ \A p \in Plugin :
              Acts(p, "enable", "set") \/ Acts(p, "disable", "set") \/ Acts(p, "retry", "module")
                => acting' \subseteq Acting
<1>1. ASSUME NEW x \in acting
      PROVE  /\ x \in Acting /\ x.plugin \in Plugin
             /\ Ends(x) \/ Moves(x, "module") => acting' \subseteq Acting
  <2>1. x \in Acting /\ acting \subseteq Acting
    BY DEF TypeOK
  <2>2. x.plugin \in Plugin /\ [x EXCEPT !.at = "module"] \in Acting
    BY <2>1 DEF Acting
  <2>3. QED
    BY <2>1, <2>2 DEF Ends, Moves
<1>2. ASSUME NEW p \in Plugin,
             Acts(p, "enable", "set") \/ Acts(p, "disable", "set") \/ Acts(p, "retry", "module")
      PROVE  acting' \subseteq Acting
  <2>1. PICK n \in 1..MaxAct, what \in {"enable", "disable", "retry"}, place \in {"set", "module", "gone"} :
          acting' = acting \cup {[act |-> n, plugin |-> p, what |-> what, at |-> place]}
    BY <1>2 DEF Acts
  <2>2. [act |-> n, plugin |-> p, what |-> what, at |-> place] \in Acting
    BY DEF Acting
  <2>3. QED
    BY <2>1, <2>2 DEF TypeOK
<1>3. QED
  BY <1>1, <1>2

\* What terminating a plugin does to its worker, its calls and its entry.
LEMMA TerminatePluginFacts ==
  ASSUME TypeOK, NEW p \in Plugin, TerminatePlugin(p)
  PROVE  /\ worker' \in [Attempt -> Workers]
         /\ \A j \in Attempt : worker'[j] = IF j = sandbox[p] THEN "terminated" ELSE worker[j]
         /\ at' \in [Task -> Places]
         /\ \A t \in Task : at'[t] = IF at[t] = "wait" /\ on[t] = sandbox[p] THEN "ended" ELSE at[t]
         /\ sandbox' \in [Plugin -> 0..MaxAttempt]
         /\ \A q \in Plugin : sandbox'[q] = IF q = p THEN 0 ELSE sandbox[q]
         /\ owner' \in [Id -> Plugin \cup {NoPlugin}]
         /\ \A i \in Id : owner'[i] = IF owner[i] = p THEN NoPlugin ELSE owner[i]
<1>1. /\ worker' \in [Attempt -> Workers]
      /\ \A j \in Attempt : worker'[j] = IF j = sandbox[p] THEN "terminated" ELSE worker[j]
  BY TerminatedFacts DEF TerminatePlugin
<1>2. /\ at' \in [Task -> Places]
      /\ \A t \in Task : at'[t] = IF at[t] = "wait" /\ on[t] = sandbox[p] THEN "ended" ELSE at[t]
  BY RejectedFacts DEF TerminatePlugin
<1>3. 0 \in 0..MaxAttempt
  BY PluginsAssumption
<1>4. sandbox \in [Plugin -> 0..MaxAttempt] /\ sandbox' = [sandbox EXCEPT ![p] = 0]
  BY DEF TypeOK, TerminatePlugin
<1>5. /\ sandbox' \in [Plugin -> 0..MaxAttempt]
      /\ \A q \in Plugin : sandbox'[q] = IF q = p THEN 0 ELSE sandbox[q]
  BY <1>3, <1>4
<1>6. /\ owner' \in [Id -> Plugin \cup {NoPlugin}]
      /\ \A i \in Id : owner'[i] = IF owner[i] = p THEN NoPlugin ELSE owner[i]
  BY DEF TerminatePlugin, Unregistered, TypeOK
<1>7. QED
  BY <1>1, <1>2, <1>5, <1>6

-----------------------------------------------------------------------------
\* Everything has its type.
THEOREM TypeCorrect == Spec => []TypeOK
<1>1. Init => TypeOK
  <2>1. 0 \in 0..MaxAttempt /\ 0 \in 0..MaxAct
    BY PluginsAssumption
  <2>2. QED
    BY <2>1, PluginsAssumption DEF Init, TypeOK, Listing, Nothing
<1>2. TypeOK /\ [Next]_vars => TypeOK'
  <2> SUFFICES ASSUME TypeOK, [Next]_vars PROVE TypeOK'
    OBVIOUS
  <2>0. /\ 0 \in 0..MaxAttempt
        /\ \A k \in Attempt : k \in 0..MaxAttempt
        /\ acts < MaxAct /\ acts' = acts + 1 => acts' \in 0..MaxAct
    BY PluginsAssumption DEF TypeOK, Attempt
  <2>1. CASE Mount
    <3>1. PICK n \in 1..MaxAct : mounting' = mounting \cup {[act |-> n, list |-> disk]}
      BY <2>1 DEF Mount
    <3>2. mounting' \subseteq Mounting
      BY <3>1 DEF TypeOK, Mounting
    <3>3. QED
      BY <2>0, <2>1, <3>2 DEF Mount, TypeOK, attemptVars, taskVars
  <2>2. ASSUME NEW m \in mounting, Mounted(m) PROVE TypeOK'
    <3>1. m.list \in Listing
      BY DEF TypeOK, Mounting
    <3>2. QED
      BY <2>2, <3>1, SyncFacts DEF Mounted, TypeOK, Statuses, taskVars
  <2>21. ASSUME NEW t \in Task, StartLoop(t) PROVE TypeOK'
    BY <2>21 DEF StartLoop, TypeOK, attemptVars, actVars
  <2>22. ASSUME NEW t \in Task, Listed(t) PROVE TypeOK'
    <3>1. listed[t] \in Listing /\ Nothing \in Listing
      BY DEF TypeOK, Listing, Nothing
    <3>2. /\ at' \in [Task -> Places] /\ todo' \in [Task -> SUBSET Plugin]
          /\ listed' \in [Task -> Listing]
      BY <2>22, <3>1 DEF Listed, TypeOK, Places
    <3>3. CASE Sync(listed[t])
      BY <2>22, <3>1, <3>2, <3>3, SyncFacts DEF Listed, TypeOK, Statuses, Places
    <3>4. CASE UNCHANGED <<status, owner, attemptVars, acting>>
      BY <2>22, <3>2, <3>4 DEF Listed, TypeOK, attemptVars, Places
    <3>5. QED
      BY <2>22, <3>3, <3>4 DEF Listed
  <2>3. ASSUME NEW t \in Task, NEW p \in Plugin, ScanActivate(t, p) PROVE TypeOK'
    <3>1. used + 1 \in 0..MaxAttempt
      BY <2>0, <2>3, BeginFacts DEF ScanActivate
    <3>2. /\ at' \in [Task -> Places] /\ todo' \in [Task -> SUBSET Plugin] /\ on' \in [Task -> 0..MaxAttempt]
      BY <2>3, <3>1 DEF ScanActivate, TypeOK, Places
    <3>3. QED
      BY <2>3, <3>2, BeginFacts DEF ScanActivate, TypeOK, Statuses, Stages, Places, actVars
  <2>4. ASSUME NEW t \in Task, Resume(t) PROVE TypeOK'
    BY <2>0, <2>4 DEF Resume, TypeOK, attemptVars, actVars
  <2>5. ASSUME NEW t \in Task, ScanEnd(t) PROVE TypeOK'
    <3> DEFINE p == IF t \in Call THEN owner[asked[t]] ELSE NoPlugin
               k == IF p \in Plugin THEN sandbox[p] ELSE 0
    <3>1. k \in 0..MaxAttempt
      BY <2>0 DEF TypeOK
    <3>2. at' \in [Task -> Places] /\ on' \in [Task -> 0..MaxAttempt]
      <4>1. \/ at' = [at EXCEPT ![t] = "wait"] /\ on' = [on EXCEPT ![t] = k]
            \/ at' = [at EXCEPT ![t] = "ended"] /\ on' = on
        BY <2>5 DEF ScanEnd
      <4>2. CASE at' = [at EXCEPT ![t] = "wait"] /\ on' = [on EXCEPT ![t] = k]
        BY <3>1, <4>2 DEF TypeOK, Places
      <4>3. CASE at' = [at EXCEPT ![t] = "ended"] /\ on' = on
        BY <4>3 DEF TypeOK, Places
      <4>4. QED
        BY <4>1, <4>2, <4>3
    <3>3. QED
      BY <2>5, <3>2 DEF ScanEnd, TypeOK, Places, attemptVars, actVars
  <2>6. ASSUME NEW t \in Task, Answer(t) PROVE TypeOK'
    BY <2>0, <2>6 DEF Answer, TypeOK, attemptVars, actVars
  <2>7. ASSUME NEW t \in Task, NEW i \in Id, StartCall(t, i) PROVE TypeOK'
    BY <2>7 DEF StartCall, TypeOK, attemptVars, actVars
  <2>8. ASSUME NEW k \in Attempt, Launch(k) PROVE TypeOK'
    <3>1. stage' \in [Attempt -> Stages]
      BY <2>8 DEF Launch, TypeOK, Stages
    <3>2. CASE ~sandboxed
      BY <2>8, <3>1, <3>2 DEF Launch, TypeOK, Stages, actVars
    <3>3. CASE sandboxed
      <4>1. worker' \in [Attempt -> Workers]
        BY <2>8, <3>3, TerminatedFacts DEF Launch, Workers, Live
      <4>2. at' \in [Task -> Places]
        BY <2>8, <3>3, RejectedFacts DEF Launch
      <4>3. sandbox' \in [Plugin -> 0..MaxAttempt]
        BY <2>0, <2>8, <3>3 DEF Launch, TypeOK
      <4>4. QED
        BY <2>8, <3>1, <4>1, <4>2, <4>3 DEF Launch, TypeOK, Stages, Workers, Places, actVars
    <3>4. QED
      BY <2>8, <3>2, <3>3 DEF Launch
  <2>9. ASSUME NEW k \in Attempt, LaunchFails(k) PROVE TypeOK'
    BY <2>9, SettleFacts DEF LaunchFails, TypeOK, taskVars, Stages, Statuses, actVars
  <2>10. ASSUME NEW k \in Attempt, Activated(k) PROVE TypeOK'
    <3>1. worker' \in [Attempt -> Workers]
      BY <2>10 DEF Activated, TypeOK, Workers, Live
    <3>2. QED
      BY <2>10, <3>1, SettleFacts DEF Activated, TypeOK, taskVars, Stages, Statuses, Workers, actVars
  <2>11. ASSUME NEW k \in Attempt, Fails(k) PROVE TypeOK'
    <3>1. worker' \in [Attempt -> Workers]
      BY <2>11 DEF Fails, TypeOK, Workers, Live
    <3>2. QED
      BY <2>11, <3>1, SettleFacts DEF Fails, TypeOK, taskVars, Stages, Statuses, Workers, actVars
  <2>12. ASSUME NEW k \in Attempt, Crash(k) PROVE TypeOK'
    <3>1. worker' \in [Attempt -> Workers]
      BY <2>12 DEF Crash, TypeOK, Workers, Crashed
    <3>2. at' \in [Task -> Places]
      BY <2>12, RejectedFacts DEF Crash
    <3>3. CASE Settle(k, "error")
      BY <2>12, <3>1, <3>2, <3>3, SettleFacts DEF Crash, TypeOK, Stages, Statuses, Workers, Places, actVars
    <3>4. CASE UNCHANGED <<attemptVars, status>>
      BY <2>12, <3>1, <3>2, <3>4 DEF Crash, TypeOK, attemptVars, Workers, Places, actVars
    <3>5. QED
      BY <2>12, <3>3, <3>4 DEF Crash
  <2>13. ASSUME NEW k \in Attempt, NEW i \in Id, Register(k, i) PROVE TypeOK'
    BY <2>13 DEF Register, TypeOK, attemptVars, taskVars, actVars
  <2>14. ASSUME NEW x \in acting, Disable(x) PROVE TypeOK'
    <3>1. x.plugin \in Plugin /\ acting' \subseteq Acting
      BY <2>14, ActFacts DEF Disable
    <3>2. CASE TerminatePlugin(x.plugin) /\ status' = [status EXCEPT ![x.plugin] = "disabled"]
      BY <2>14, <3>1, <3>2, TerminatePluginFacts DEF Disable, TypeOK, attemptVars, Workers, Places
    <3>3. CASE UNCHANGED <<worker, at, sandbox, owner>> /\ status' \in [Plugin -> Statuses]
      BY <2>14, <3>1, <3>3 DEF Disable, TypeOK, attemptVars, Statuses
    <3>4. status[x.plugin] # "activated" => status' \in [Plugin -> Statuses]
      BY <2>14, <3>1 DEF Disable, TypeOK, Statuses
    <3>5. status \in [Plugin -> Statuses]
      BY DEF TypeOK, Statuses
    <3>6. QED
      BY <2>14, <3>2, <3>3, <3>4, <3>5 DEF Disable
  <2>15. ASSUME NEW x \in acting, Enable(x) PROVE TypeOK'
    <3>1. x.plugin \in Plugin /\ acting' \subseteq Acting
      BY <2>15, ActFacts DEF Enable
    <3>2. CASE Begin(x.plugin)
      BY <2>15, <3>1, <3>2, BeginFacts DEF Enable, TypeOK, taskVars, Stages, Statuses
    <3>3. CASE status' = [status EXCEPT ![x.plugin] = "loaded"] /\ UNCHANGED attemptVars
      BY <2>15, <3>1, <3>3 DEF Enable, TypeOK, taskVars, attemptVars
    <3>4. CASE UNCHANGED <<status, attemptVars>>
      BY <2>15, <3>1, <3>4 DEF Enable, TypeOK, taskVars, attemptVars
    <3>5. QED
      BY <2>15, <3>2, <3>3, <3>4 DEF Enable
  <2>16. ASSUME NEW p \in Plugin, Retry(p) PROVE TypeOK'
    <3>1. acts' \in 0..MaxAct
      BY <2>0, <2>16 DEF Retry
    <3>2. CASE Begin(p) /\ UNCHANGED <<worker, at, sandbox, owner, acting>>
      BY <2>16, <3>1, <3>2, BeginFacts DEF Retry, TypeOK, Stages, Statuses
    <3>3. CASE TerminatePlugin(p) /\ Begin(p) /\ UNCHANGED acting
      BY <2>16, <3>1, <3>3, BeginFacts, TerminatePluginFacts
      DEF Retry, TypeOK, Stages, Statuses, Workers, Places
    <3>4. CASE Acts(p, "retry", "module") /\ UNCHANGED <<worker, at, sandbox, owner, attemptVars, status>>
      BY <2>16, <3>1, <3>4, ActFacts DEF Retry, TypeOK, attemptVars
    <3>5. QED
      BY <2>16, <3>2, <3>3, <3>4 DEF Retry
  <2>17. ASSUME NEW p \in Plugin, DiskChanges(p) PROVE TypeOK'
    <3>1. disk' \in Listing /\ acts' \in 0..MaxAct
      BY <2>0, <2>17 DEF DiskChanges, TypeOK, Listing
    <3>2. QED
      BY <2>17, <3>1 DEF DiskChanges, TypeOK, attemptVars, taskVars, actVars
  <2>23. ASSUME NEW p \in Plugin, Toggle(p) PROVE TypeOK'
    <3>1. acts' \in 0..MaxAct /\ acting' \subseteq Acting
      BY <2>0, <2>23, ActFacts DEF Toggle
    <3>2. disk' \in Listing
      BY <2>23 DEF Toggle, TypeOK, Listing
    <3>3. QED
      BY <2>23, <3>1, <3>2 DEF Toggle, TypeOK, attemptVars, taskVars
  <2>18. ASSUME NEW x \in acting, Leave(x) PROVE TypeOK'
    <3>1. x.plugin \in Plugin /\ acting' \subseteq Acting
      BY <2>18, ActFacts DEF Leave
    <3>2. owner' \in [Id -> Plugin \cup {NoPlugin}]
      BY <2>18 DEF Leave, TypeOK, Unregistered
    <3>3. CASE Begin(x.plugin)
      BY <2>18, <3>1, <3>2, <3>3, BeginFacts DEF Leave, TypeOK, taskVars, Stages, Statuses
    <3>4. CASE UNCHANGED attemptVars /\ status' \in [Plugin -> Statuses]
      BY <2>18, <3>1, <3>2, <3>4 DEF Leave, TypeOK, taskVars, attemptVars, Statuses
    <3>5. x.what = "disable" => status' \in [Plugin -> Statuses]
      BY <2>18, <3>1 DEF Leave, TypeOK, Statuses
    <3>6. status \in [Plugin -> Statuses]
      BY DEF TypeOK, Statuses
    <3>7. QED
      BY <2>18, <3>3, <3>4, <3>5, <3>6 DEF Leave
  <2>19. CASE UNCHANGED vars
    BY <2>19 DEF vars, attemptVars, taskVars, actVars, TypeOK
  <2>20. QED
    BY <2>1, <2>2, <2>3, <2>4, <2>5, <2>6, <2>7, <2>8, <2>9, <2>10, <2>11, <2>12, <2>13,
       <2>14, <2>15, <2>16, <2>17, <2>18, <2>19, <2>21, <2>22, <2>23 DEF Next, TaskStep, Outcome
<1>3. QED
  BY <1>1, <1>2, PTL DEF Spec

-----------------------------------------------------------------------------
\* An attempt that has begun has a plugin, and only such an attempt.
Begun == \A k \in Attempt :
  /\ k > used => stage[k] = "free" /\ of[k] = NoPlugin
  /\ k <= used => stage[k] # "free" /\ of[k] \in Plugin

\* An attempt has no worker before the host starts it; a worker whose thread
\* runs is its plugin's current one; it is starting exactly while the attempt
\* awaits it, unless it has been terminated.
Hosted == \A k \in Attempt :
  /\ stage[k] \in {"free", "import"} \/ ~sandboxed => worker[k] = "none"
  /\ worker[k] \in Live => sandbox[of[k]] = k
  /\ worker[k] = "starting" => stage[k] = "await"
  /\ sandboxed /\ stage[k] = "await" => worker[k] \in {"starting", "terminated"}

\* The entry of a plugin in the host is a worker of that plugin that nobody
\* has terminated.
Entries == \A p \in Plugin : sandbox[p] # 0 =>
  /\ sandboxed /\ of[sandbox[p]] = p
  /\ worker[sandbox[p]] \in Live \cup {"crashed"}

HostInv == Begun /\ Hosted /\ Entries

\* Nothing changes for the host unless one of these variables does.
LEMMA HostFrame ==
  ASSUME HostInv, UNCHANGED <<sandboxed, sandbox, used, of, stage, worker>>
  PROVE  HostInv'
BY DEF HostInv, Begun, Hosted, Entries

\* The entry of a plugin is an attempt that has begun, of this plugin.
LEMMA EntryFacts ==
  ASSUME TypeOK, HostInv, NEW p \in Plugin, sandbox[p] # 0
  PROVE  /\ sandbox[p] \in Attempt /\ sandbox[p] <= used /\ of[sandbox[p]] = p
         /\ sandboxed /\ worker[sandbox[p]] \in Live \cup {"crashed"}
<1>1. sandbox[p] \in Attempt
  BY PluginsAssumption DEF TypeOK, Attempt
<1>2. of[sandbox[p]] = p
  BY DEF HostInv, Entries
<1>3. sandbox[p] <= used
  <2>1. sandbox[p] \in Nat /\ used \in Nat
    BY <1>1, PluginsAssumption DEF TypeOK, Attempt
  <2>2. ~(sandbox[p] > used)
    BY <1>1, <1>2, PluginsAssumption DEF HostInv, Begun
  <2>3. QED
    BY <2>1, <2>2
<1>4. QED
  BY <1>1, <1>2, <1>3 DEF HostInv, Entries

\* An attempt that is not free has begun, and its plugin is one.
LEMMA StageFacts ==
  ASSUME TypeOK, HostInv, NEW k \in Attempt, stage[k] # "free"
  PROVE  of[k] \in Plugin /\ k <= used
<1>1. k \in Nat /\ used \in Nat
  BY PluginsAssumption DEF TypeOK, Attempt
<1>2. k <= used
  BY <1>1 DEF HostInv, Begun
<1>3. QED
  BY <1>2 DEF HostInv, Begun

\* A worker whose thread runs belongs to an attempt that has begun, and is the
\* entry of its plugin.
LEMMA LiveFacts ==
  ASSUME TypeOK, HostInv, NEW k \in Attempt, worker[k] \in Live
  PROVE  /\ of[k] \in Plugin /\ k # 0 /\ k <= used /\ sandbox[of[k]] = k /\ sandboxed
         /\ stage[k] \in {"await", "settled"}
<1>1. stage[k] \in {"await", "settled"} /\ sandboxed
  BY DEF HostInv, Hosted, TypeOK, Live
<1>2. k # 0
  BY DEF Attempt
<1>3. QED
  BY <1>1, <1>2, StageFacts DEF HostInv, Hosted

\* The two steps of the user's acts, alone or together: the plugin's worker is
\* terminated, and an attempt of the plugin begins.
LEMMA HostStep ==
  ASSUME TypeOK, HostInv, NEW p \in Plugin,
         TerminatePlugin(p) \/ UNCHANGED <<worker, sandbox>>,
         Begin(p) \/ UNCHANGED <<used, of, stage>>,
         UNCHANGED sandboxed
  PROVE  HostInv'
<1>1. /\ \A j \in Attempt : worker'[j] = worker[j] \/ (j = sandbox[p] /\ worker'[j] = "terminated")
      /\ \A q \in Plugin : sandbox'[q] = sandbox[q] \/ (q = p /\ sandbox'[q] = 0)
      /\ \/ sandbox[p] # 0 => worker'[sandbox[p]] = "terminated" /\ sandbox'[p] = 0
         \/ worker' = worker /\ sandbox' = sandbox
  <2>1. CASE TerminatePlugin(p)
    <3>1. /\ \A j \in Attempt : worker'[j] = IF j = sandbox[p] THEN "terminated" ELSE worker[j]
          /\ \A q \in Plugin : sandbox'[q] = IF q = p THEN 0 ELSE sandbox[q]
      BY <2>1, TerminatePluginFacts
    <3>2. sandbox[p] # 0 => sandbox[p] \in Attempt
      BY EntryFacts
    <3>3. sandbox[p] # 0 => worker'[sandbox[p]] = "terminated" /\ sandbox'[p] = 0
      BY <3>1, <3>2
    <3>4. \A j \in Attempt : worker'[j] = worker[j] \/ (j = sandbox[p] /\ worker'[j] = "terminated")
      BY <3>1
    <3>5. \A q \in Plugin : sandbox'[q] = sandbox[q] \/ (q = p /\ sandbox'[q] = 0)
      BY <3>1
    <3>6. QED
      BY <3>3, <3>4, <3>5
  <2>2. CASE UNCHANGED <<worker, sandbox>>
    BY <2>2
  <2>3. QED
    BY <2>1, <2>2
<1>2. /\ \A j \in Attempt : stage[j] # "free" => of'[j] = of[j] /\ stage'[j] = stage[j]
      /\ \A j \in Attempt : stage[j] = "free" /\ stage'[j] # "free" => stage'[j] = "import"
      /\ Begun'
  <2>1. CASE UNCHANGED <<used, of, stage>>
    BY <2>1 DEF HostInv, Begun
  <2>2. CASE Begin(p)
    <3>1. used \in Nat /\ used' = used + 1 /\ used + 1 \in Attempt /\ \A j \in Attempt : j \in Nat
      BY <2>2, BeginFacts, PluginsAssumption DEF TypeOK, Attempt
    <3>2. \A j \in Attempt : /\ of'[j] = IF j = used + 1 THEN p ELSE of[j]
                             /\ stage'[j] = IF j = used + 1 THEN "import" ELSE stage[j]
      BY <2>2 DEF Begin, TypeOK
    <3>3. stage[used + 1] = "free"
      BY <3>1 DEF HostInv, Begun
    <3>4. Begun'
      BY <3>1, <3>2 DEF HostInv, Begun
    <3>5. QED
      BY <3>2, <3>3, <3>4
  <2>3. QED
    BY <2>1, <2>2
<1>3. Hosted'
  <2> SUFFICES ASSUME NEW k \in Attempt
               PROVE  /\ stage'[k] \in {"free", "import"} \/ ~sandboxed => worker'[k] = "none"
                      /\ worker'[k] \in Live => sandbox'[of'[k]] = k
                      /\ worker'[k] = "starting" => stage'[k] = "await"
                      /\ sandboxed /\ stage'[k] = "await" => worker'[k] \in {"starting", "terminated"}
    BY DEF Hosted
  <2>1. CASE stage[k] = "free"
    <3>1. worker[k] = "none" /\ (sandbox[p] # 0 => k # sandbox[p])
      BY <2>1, EntryFacts, StageFacts DEF HostInv, Hosted, Live
    <3>2. worker'[k] = "none"
      BY <1>1, <3>1 DEF Attempt
    <3>3. stage'[k] \in {"free", "import"}
      BY <1>2, <2>1
    <3>4. QED
      BY <3>2, <3>3 DEF Live
  <2>2. CASE stage[k] # "free" /\ k = sandbox[p] /\ worker'[k] = "terminated"
    <3>1. k # 0
      BY DEF Attempt
    <3>2. worker[k] # "none"
      BY <2>2, <3>1, EntryFacts DEF Live
    <3>3. QED
      BY <1>2, <2>2, <3>2 DEF HostInv, Hosted, Live
  <2>3. CASE stage[k] # "free" /\ worker'[k] = worker[k]
    <3>1. worker[k] \in Live => sandbox'[of[k]] = k
      <4> SUFFICES ASSUME worker[k] \in Live PROVE sandbox'[of[k]] = k
        OBVIOUS
      <4>1. k # 0 /\ of[k] \in Plugin /\ sandbox[of[k]] = k
        BY LiveFacts
      <4>2. CASE of[k] = p
        BY <1>1, <2>3, <4>1, <4>2 DEF Live
      <4>3. CASE of[k] # p
        BY <1>1, <4>1, <4>3
      <4>4. QED
        BY <4>2, <4>3
    <3>2. QED
      BY <1>2, <2>3, <3>1 DEF HostInv, Hosted
  <2>4. QED
    BY <1>1, <2>1, <2>2, <2>3
<1>4. Entries'
  <2> SUFFICES ASSUME NEW q \in Plugin, sandbox'[q] # 0
               PROVE  sandboxed /\ of'[sandbox'[q]] = q /\ worker'[sandbox'[q]] \in Live \cup {"crashed"}
    BY DEF Entries
  <2>1. sandbox'[q] = sandbox[q]
    BY <1>1
  <2>2. /\ sandbox[q] \in Attempt /\ of[sandbox[q]] = q /\ sandboxed
        /\ worker[sandbox[q]] \in Live \cup {"crashed"}
    BY <2>1, EntryFacts
  <2>3. stage[sandbox[q]] # "free"
    BY <2>2 DEF HostInv, Hosted, Live
  <2>4. worker'[sandbox[q]] = worker[sandbox[q]]
    <3>1. CASE q = p
      BY <1>1, <2>1, <3>1
    <3>2. CASE q # p
      <4>1. sandbox[p] # sandbox[q]
        BY <2>1, <2>2, <3>2, EntryFacts
      <4>2. QED
        BY <1>1, <2>2, <4>1
    <3>3. QED
      BY <3>1, <3>2
  <2>5. QED
    BY <1>2, <2>1, <2>2, <2>3, <2>4
<1>5. QED
  BY <1>2, <1>3, <1>4 DEF HostInv

\* The host starts the worker of an attempt and terminates the one before.
LEMMA HostLaunch ==
  ASSUME TypeOK, HostInv, NEW k \in Attempt, Launch(k)
  PROVE  HostInv'
<1>1. stage[k] = "import" /\ of[k] \in Plugin /\ k <= used /\ worker[k] = "none" /\ k # 0
  BY StageFacts DEF Launch, HostInv, Hosted, Attempt
<1>2. /\ \A j \in Attempt : stage'[j] = IF j = k THEN "await" ELSE stage[j]
      /\ UNCHANGED <<used, of, sandboxed>>
  BY DEF Launch, TypeOK
<1>3. Begun'
  BY <1>1, <1>2 DEF HostInv, Begun
<1>4. CASE ~sandboxed
  BY <1>1, <1>2, <1>3, <1>4 DEF Launch, HostInv, Hosted, Entries, TypeOK
<1>5. CASE sandboxed
  <2> DEFINE old == sandbox[of[k]]
  <2>1. old # k
    BY <1>1, EntryFacts DEF Live
  <2>2. \A j \in Attempt : worker'[j] = IF j = k THEN "starting" ELSE IF j = old THEN "terminated" ELSE worker[j]
    BY <1>5, <2>1, TerminatedFacts DEF Launch, Workers
  <2>3. \A q \in Plugin : sandbox'[q] = IF q = of[k] THEN k ELSE sandbox[q]
    BY <1>1, <1>5 DEF Launch, TypeOK
  <2>4. Hosted'
    <3> SUFFICES ASSUME NEW j \in Attempt
                 PROVE  /\ stage'[j] \in {"free", "import"} \/ ~sandboxed => worker'[j] = "none"
                        /\ worker'[j] \in Live => sandbox'[of[j]] = j
                        /\ worker'[j] = "starting" => stage'[j] = "await"
                        /\ sandboxed /\ stage'[j] = "await" => worker'[j] \in {"starting", "terminated"}
      BY <1>2 DEF Hosted
    <3>1. CASE j = k
      BY <1>1, <1>2, <1>5, <2>2, <2>3, <3>1 DEF Live
    <3>2. CASE j # k /\ j = old
      <4>1. j # 0 /\ worker[j] # "none"
        BY <1>1, <3>2, EntryFacts DEF Live, Attempt
      <4>2. QED
        BY <1>2, <2>2, <3>2, <4>1 DEF HostInv, Hosted, Live
    <3>3. CASE j # k /\ j # old
      <4>1. worker[j] \in Live => of[j] \in Plugin /\ of[j] # of[k] /\ sandbox[of[j]] = j
        BY <3>3, LiveFacts
      <4>2. QED
        BY <1>2, <2>2, <2>3, <3>3, <4>1 DEF HostInv, Hosted
    <3>4. QED
      BY <3>1, <3>2, <3>3
  <2>5. Entries'
    <3> SUFFICES ASSUME NEW q \in Plugin, sandbox'[q] # 0
                 PROVE  sandboxed /\ of[sandbox'[q]] = q /\ worker'[sandbox'[q]] \in Live \cup {"crashed"}
      BY <1>2 DEF Entries
    <3>1. CASE q = of[k]
      BY <1>5, <2>2, <2>3, <3>1 DEF Live
    <3>2. CASE q # of[k]
      <4>1. sandbox[q] \in Attempt /\ of[sandbox[q]] = q /\ worker[sandbox[q]] \in Live \cup {"crashed"}
        BY <2>3, <3>2, EntryFacts
      <4>2. sandbox[q] # k /\ sandbox[q] # old
        BY <1>1, <3>2, <4>1, EntryFacts DEF Attempt
      <4>3. QED
        BY <1>5, <2>2, <2>3, <3>2, <4>1, <4>2
    <3>3. QED
      BY <3>1, <3>2
  <2>6. QED
    BY <1>3, <2>4, <2>5 DEF HostInv
<1>6. QED
  BY <1>4, <1>5

\* The end of an attempt, whose worker goes on, has failed or has crashed.
LEMMA HostSettle ==
  ASSUME TypeOK, HostInv, NEW k \in Attempt,
         UNCHANGED <<sandboxed, sandbox, used, of>>, stage[k] # "free",
         stage' = [stage EXCEPT ![k] = "settled"],
         \A j \in Attempt : j # k => worker'[j] = worker[j],
         \/ worker[k] \in Live /\ worker'[k] \in {"running", "errored", "crashed"}
         \/ worker[k] = "none" /\ worker'[k] = "none"
  PROVE  HostInv'
<1>1. \A j \in Attempt : stage'[j] = IF j = k THEN "settled" ELSE stage[j]
  BY DEF TypeOK
<1>2. Begun'
  BY <1>1 DEF HostInv, Begun
<1>3. Hosted'
  BY <1>1 DEF HostInv, Hosted, Live
<1>4. Entries'
  <2> SUFFICES ASSUME NEW q \in Plugin, sandbox[q] # 0
               PROVE  sandboxed /\ of[sandbox[q]] = q /\ worker'[sandbox[q]] \in Live \cup {"crashed"}
    BY DEF Entries
  <2>1. sandbox[q] \in Attempt /\ worker[sandbox[q]] \in Live \cup {"crashed"}
    BY EntryFacts
  <2>2. QED
    BY <2>1, EntryFacts DEF Live
<1>5. QED
  BY <1>2, <1>3, <1>4 DEF HostInv

-----------------------------------------------------------------------------
\* The cases in which a step changes what HostInv speaks of.
LEMMA HostNext ==
  ASSUME TypeOK, HostInv, Next
  PROVE  HostInv'
<1>1. ASSUME NEW m \in mounting, Mounted(m) PROVE HostInv'
  BY <1>1, HostFrame DEF Mounted, Sync
<1>2. ASSUME NEW t \in Task, StartLoop(t) \/ Listed(t) PROVE HostInv'
  BY <1>2, HostFrame DEF StartLoop, Listed, Sync, attemptVars
<1>3. ASSUME NEW t \in Task, NEW p \in Plugin, ScanActivate(t, p) PROVE HostInv'
  BY <1>3, HostStep DEF ScanActivate
<1>4. ASSUME NEW t \in Task, Resume(t) \/ ScanEnd(t) \/ Answer(t) PROVE HostInv'
  BY <1>4, HostFrame DEF Resume, ScanEnd, Answer, attemptVars
<1>5. ASSUME NEW t \in Task, NEW i \in Id, StartCall(t, i) PROVE HostInv'
  BY <1>5, HostFrame DEF StartCall, attemptVars
<1>6. ASSUME NEW k \in Attempt, Launch(k) PROVE HostInv'
  BY <1>6, HostLaunch
<1>7. ASSUME NEW k \in Attempt, LaunchFails(k) PROVE HostInv'
  <2>1. stage[k] = "import" /\ worker[k] = "none"
    BY <1>7 DEF LaunchFails, HostInv, Hosted
  <2>2. QED
    BY <1>7, <2>1, HostSettle DEF LaunchFails, Settle
<1>8. ASSUME NEW k \in Attempt, Activated(k) PROVE HostInv'
  <2>1. /\ stage[k] = "await" /\ stage' = [stage EXCEPT ![k] = "settled"]
        /\ UNCHANGED <<sandboxed, sandbox, used, of>>
    BY <1>8 DEF Activated, Settle
  <2>2. /\ \A j \in Attempt : j # k => worker'[j] = worker[j]
        /\ \/ worker[k] \in Live /\ worker'[k] = "running"
           \/ worker[k] = "none" /\ worker'[k] = "none"
    BY <1>8 DEF Activated, HostInv, Hosted, Live, TypeOK
  <2>3. QED
    BY <2>1, <2>2, HostSettle
<1>9. ASSUME NEW k \in Attempt, Fails(k) PROVE HostInv'
  <2>1. /\ stage[k] = "await" /\ stage' = [stage EXCEPT ![k] = "settled"]
        /\ UNCHANGED <<sandboxed, sandbox, used, of>>
    BY <1>9 DEF Fails, Settle
  <2>2. /\ \A j \in Attempt : j # k => worker'[j] = worker[j]
        /\ \/ worker[k] \in Live /\ worker'[k] = "errored"
           \/ worker[k] = "none" /\ worker'[k] = "none"
    BY <1>9 DEF Fails, HostInv, Hosted, Live, TypeOK
  <2>3. QED
    BY <2>1, <2>2, HostSettle
<1>10. ASSUME NEW k \in Attempt, Crash(k) PROVE HostInv'
  <2>1. stage[k] \in {"await", "settled"} /\ worker[k] \in Live
    BY <1>10, LiveFacts DEF Crash
  <2>2. stage' = [stage EXCEPT ![k] = "settled"] /\ UNCHANGED <<used, of>>
    <3>1. CASE stage[k] = "await"
      BY <1>10, <3>1 DEF Crash, Settle
    <3>2. CASE stage[k] = "settled"
      BY <1>10, <3>2 DEF Crash, attemptVars, TypeOK
    <3>3. QED
      BY <2>1, <3>1, <3>2
  <2>3. /\ \A j \in Attempt : j # k => worker'[j] = worker[j]
        /\ worker'[k] = "crashed" /\ UNCHANGED <<sandboxed, sandbox>>
    BY <1>10 DEF Crash, TypeOK
  <2>4. QED
    BY <2>1, <2>2, <2>3, HostSettle
<1>11. ASSUME NEW k \in Attempt, NEW i \in Id, Register(k, i) PROVE HostInv'
  BY <1>11, HostFrame DEF Register, attemptVars
<1>12. ASSUME NEW x \in acting, Disable(x) PROVE HostInv'
  BY <1>12, ActFacts, HostStep DEF Disable, attemptVars
<1>13. ASSUME NEW x \in acting, Enable(x) PROVE HostInv'
  BY <1>13, ActFacts, HostStep DEF Enable, attemptVars
<1>14. ASSUME NEW p \in Plugin, Retry(p) PROVE HostInv'
  BY <1>14, HostStep DEF Retry, attemptVars
<1>15. CASE Mount \/ \E p \in Plugin : DiskChanges(p) \/ Toggle(p)
  BY <1>15, HostFrame DEF Mount, DiskChanges, Toggle, attemptVars
<1>16. ASSUME NEW x \in acting, Leave(x) PROVE HostInv'
  BY <1>16, ActFacts, HostStep DEF Leave, attemptVars
<1>17. QED
  BY <1>1, <1>2, <1>3, <1>4, <1>5, <1>6, <1>7, <1>8, <1>9, <1>10, <1>11, <1>12, <1>13, <1>14,
     <1>15, <1>16 DEF Next, TaskStep, Outcome

\* Attempts, workers and entries of the host always agree.
THEOREM HostCorrect == Spec => []HostInv
<1>1. Init => HostInv
  BY PluginsAssumption DEF Init, HostInv, Begun, Hosted, Entries, Live, Attempt
<1>2. TypeOK /\ HostInv /\ [Next]_vars => HostInv'
  <2>1. ASSUME HostInv, UNCHANGED vars PROVE HostInv'
    BY <2>1, HostFrame DEF vars, attemptVars
  <2>2. QED
    BY <2>1, HostNext
<1>3. QED
  BY <1>1, <1>2, TypeCorrect, PTL DEF Spec

-----------------------------------------------------------------------------
\* The stub of a sandboxed contribution is never what a call runs: its plugin
\* has an entry in the host as long as the contribution is listed.
THEOREM StubSafe == Spec => []StubNeverRuns
<1>1. Init => StubNeverRuns
  BY DEF Init, StubNeverRuns
<1>2. TypeOK /\ HostInv /\ StubNeverRuns /\ [Next]_vars => StubNeverRuns'
  <2> SUFFICES ASSUME TypeOK, HostInv, StubNeverRuns, [Next]_vars, sandboxed', NEW i \in Id, owner'[i] # NoPlugin
               PROVE  sandbox'[owner'[i]] # 0
    BY DEF StubNeverRuns
  <2>1. CASE sandboxed /\ sandbox' = sandbox /\ owner'[i] \in {owner[i], NoPlugin}
    BY <2>1 DEF StubNeverRuns
  <2>2. ASSUME NEW p \in Plugin, TerminatePlugin(p), sandboxed PROVE sandbox'[owner'[i]] # 0
    <3>1. owner[i] \in Plugin /\ owner[i] # p /\ owner'[i] = owner[i]
      BY <2>2, TerminatePluginFacts DEF TypeOK
    <3>2. sandbox'[owner[i]] = sandbox[owner[i]]
      BY <2>2, <3>1, TerminatePluginFacts
    <3>3. QED
      BY <2>2, <3>1, <3>2 DEF StubNeverRuns
  <2>3. ASSUME NEW list \in Listing, Sync(list), UNCHANGED <<sandboxed, sandbox>> PROVE sandbox'[owner'[i]] # 0
    BY <2>1, <2>3, SyncFacts
  <2>13. CASE Mount \/ \E m \in mounting : Mounted(m)
    BY <2>1, <2>3, <2>13 DEF Mount, Mounted, TypeOK, Mounting
  <2>14. CASE \E t \in Task : StartLoop(t) \/ Listed(t)
    BY <2>1, <2>3, <2>14 DEF StartLoop, Listed, TypeOK
  <2>4. CASE \E t \in Task : (\E p \in Plugin : ScanActivate(t, p)) \/ Resume(t) \/ ScanEnd(t) \/ Answer(t) \/ \E j \in Id : StartCall(t, j)
    BY <2>1, <2>4 DEF ScanActivate, Resume, ScanEnd, Answer, StartCall
  <2>5. ASSUME NEW k \in Attempt, Launch(k) PROVE sandbox'[owner'[i]] # 0
    BY <2>5 DEF Launch, StubNeverRuns, TypeOK, Attempt
  <2>6. CASE \E k \in Attempt : LaunchFails(k) \/ Outcome(k) \/ Crash(k)
    BY <2>1, <2>6 DEF LaunchFails, Outcome, Activated, Fails, Crash
  <2>7. ASSUME NEW k \in Attempt, NEW j \in Id, Register(k, j) PROVE sandbox'[owner'[i]] # 0
    <3>1. sandboxed /\ sandbox' = sandbox /\ owner' = [owner EXCEPT ![j] = of[k]]
      BY <2>7 DEF Register
    <3>2. sandbox[of[k]] = k /\ k # 0
      BY <2>7, <3>1, LiveFacts DEF Register
    <3>3. QED
      BY <3>1, <3>2 DEF StubNeverRuns, TypeOK
  <2>8. CASE \E p \in Plugin : Retry(p)
    BY <2>1, <2>2, <2>8 DEF Retry
  <2>15. CASE \E x \in acting : Disable(x)
    BY <2>1, <2>2, <2>15, ActFacts DEF Disable
  <2>9. CASE (\E x \in acting : Enable(x)) \/ \E p \in Plugin : DiskChanges(p) \/ Toggle(p)
    BY <2>1, <2>9 DEF Enable, DiskChanges, Toggle
  <2>10. CASE \E x \in acting : Leave(x)
    BY <2>1, <2>10 DEF Leave, Unregistered, TypeOK
  <2>11. CASE UNCHANGED vars
    BY <2>1, <2>11 DEF vars
  <2>12. QED
    BY <2>4, <2>5, <2>6, <2>7, <2>8, <2>9, <2>10, <2>11, <2>13, <2>14, <2>15 DEF Next, TaskStep
<1>3. QED
  BY <1>1, <1>2, TypeCorrect, HostCorrect, PTL DEF Spec

-----------------------------------------------------------------------------
\* The entries that calls wait for are attempts, and differ for plugins that
\* differ.
LEMMA CallFacts ==
  ASSUME TypeOK, HostInv, CallsHaveWorker, NEW t \in Task, at[t] = "wait"
  PROVE  /\ on[t] \in Attempt /\ on[t] # 0 /\ worker[on[t]] \in Live
         /\ of[on[t]] \in Plugin /\ sandbox[of[on[t]]] = on[t]
         /\ \A p \in Plugin : of[on[t]] = p <=> on[t] = sandbox[p]
<1>1. on[t] \in Attempt /\ on[t] # 0 /\ worker[on[t]] \in Live
  BY PluginsAssumption DEF TypeOK, CallsHaveWorker, Attempt
<1>2. of[on[t]] \in Plugin /\ sandbox[of[on[t]]] = on[t]
  BY <1>1, LiveFacts
<1>3. ASSUME NEW p \in Plugin PROVE of[on[t]] = p <=> on[t] = sandbox[p]
  BY <1>1, <1>2, EntryFacts
<1>4. QED
  BY <1>1, <1>2, <1>3

\* Terminating a plugin rejects the calls that wait for its worker, and an
\* attempt that begins has no calls.
LEMMA CallsStep ==
  ASSUME TypeOK, HostInv, CallsHaveWorker, NEW p \in Plugin,
         TerminatePlugin(p) \/ UNCHANGED <<worker, sandbox, at>>,
         Begin(p) \/ UNCHANGED of,
         UNCHANGED on
  PROVE  CallsHaveWorker'
<1> SUFFICES ASSUME NEW t \in Task, at'[t] = "wait"
             PROVE  on[t] # 0 /\ worker'[on[t]] \in Live /\ sandbox'[of'[on[t]]] = on[t]
  BY DEF CallsHaveWorker
<1>1. at[t] = "wait" /\ (TerminatePlugin(p) => on[t] # sandbox[p])
  <2>1. CASE TerminatePlugin(p)
    BY <2>1, TerminatePluginFacts
  <2>2. CASE ~TerminatePlugin(p)
    BY <2>2 DEF TypeOK
  <2>3. QED
    BY <2>1, <2>2
<1>2. of'[on[t]] = of[on[t]]
  <2>1. CASE UNCHANGED of
    BY <2>1
  <2>2. CASE Begin(p)
    <3>1. on[t] # used + 1
      BY <1>1, CallFacts, LiveFacts, PluginsAssumption DEF TypeOK, Attempt
    <3>2. QED
      BY <1>1, <2>2, <3>1, CallFacts DEF Begin, TypeOK
  <2>3. QED
    BY <2>1, <2>2
<1>3. CASE UNCHANGED <<worker, sandbox>>
  BY <1>1, <1>2, <1>3, CallFacts
<1>4. CASE TerminatePlugin(p)
  <2>1. of[on[t]] # p
    BY <1>1, <1>4, CallFacts
  <2>2. QED
    BY <1>1, <1>2, <1>4, <2>1, CallFacts, TerminatePluginFacts
<1>5. QED
  BY <1>3, <1>4

\* No call waits for a worker that will not answer: whatever crashes, is
\* terminated or replaced, its calls are rejected.
THEOREM CallsSafe == Spec => []CallsHaveWorker
<1>1. Init => CallsHaveWorker
  BY DEF Init, CallsHaveWorker
<1>2. TypeOK /\ HostInv /\ CallsHaveWorker /\ [Next]_vars => CallsHaveWorker'
  <2> SUFFICES ASSUME TypeOK, HostInv, CallsHaveWorker, [Next]_vars PROVE CallsHaveWorker'
    OBVIOUS
  <2>1. CASE Mount \/ \E m \in mounting : Mounted(m)
    BY <2>1 DEF Mount, Mounted, Sync, CallsHaveWorker, taskVars, attemptVars
  <2>2. ASSUME NEW t \in Task, StartLoop(t) \/ Listed(t) PROVE CallsHaveWorker'
    BY <2>2 DEF StartLoop, Listed, Sync, CallsHaveWorker, TypeOK, attemptVars
  <2>3. ASSUME NEW t \in Task, NEW p \in Plugin, ScanActivate(t, p) PROVE CallsHaveWorker'
    <3> SUFFICES ASSUME NEW u \in Task, at'[u] = "wait"
                 PROVE  on'[u] # 0 /\ worker[on'[u]] \in Live /\ sandbox[of'[on'[u]]] = on'[u]
      BY <2>3 DEF CallsHaveWorker, ScanActivate
    <3>1. u # t /\ at[u] = "wait" /\ on'[u] = on[u]
      BY <2>3 DEF ScanActivate, TypeOK
    <3>2. on[u] # used + 1
      BY <3>1, CallFacts, LiveFacts, PluginsAssumption DEF TypeOK, Attempt
    <3>3. of'[on[u]] = of[on[u]]
      BY <2>3, <3>1, <3>2, CallFacts DEF ScanActivate, Begin, TypeOK
    <3>4. QED
      BY <3>1, <3>3, CallFacts
  <2>4. ASSUME NEW t \in Task, Resume(t) \/ Answer(t) PROVE CallsHaveWorker'
    BY <2>4 DEF Resume, Answer, CallsHaveWorker, TypeOK, attemptVars
  <2>5. ASSUME NEW t \in Task, ScanEnd(t) PROVE CallsHaveWorker'
    <3> DEFINE p == IF t \in Call THEN owner[asked[t]] ELSE NoPlugin
               k == IF p \in Plugin THEN sandbox[p] ELSE 0
    <3>1. UNCHANGED <<worker, sandbox, of>>
      BY <2>5 DEF ScanEnd, attemptVars
    <3>2. CASE at' = [at EXCEPT ![t] = "ended"] /\ on' = on
      BY <3>1, <3>2 DEF CallsHaveWorker, TypeOK
    <3>3. CASE k # 0 /\ worker[k] \notin Crashed /\ at' = [at EXCEPT ![t] = "wait"] /\ on' = [on EXCEPT ![t] = k]
      <4>1. p \in Plugin /\ k = sandbox[p] /\ k # 0
        BY <3>3
      <4>2. worker[k] \in Live /\ sandbox[of[k]] = k
        BY <3>3, <4>1, EntryFacts DEF Live, Crashed
      <4>3. QED
        BY <3>1, <3>3, <4>2 DEF CallsHaveWorker, TypeOK
    <3>4. QED
      BY <2>5, <3>2, <3>3 DEF ScanEnd
  <2>6. ASSUME NEW t \in Task, NEW i \in Id, StartCall(t, i) PROVE CallsHaveWorker'
    BY <2>6 DEF StartCall, CallsHaveWorker, TypeOK, attemptVars
  <2>7. ASSUME NEW k \in Attempt, Launch(k) PROVE CallsHaveWorker'
    <3> SUFFICES ASSUME NEW t \in Task, at'[t] = "wait"
                 PROVE  on[t] # 0 /\ worker'[on[t]] \in Live /\ sandbox'[of[on[t]]] = on[t]
      BY <2>7 DEF CallsHaveWorker, Launch
    <3>1. of[k] \in Plugin /\ worker[k] = "none"
      BY <2>7, StageFacts DEF Launch, HostInv, Hosted
    <3>2. CASE ~sandboxed
      BY <2>7, <3>2 DEF Launch, CallsHaveWorker
    <3>3. CASE sandboxed
      <4>1. at[t] = "wait" /\ on[t] # sandbox[of[k]]
        BY <2>7, <3>3, RejectedFacts DEF Launch
      <4>2. on[t] # k /\ of[on[t]] # of[k]
        BY <3>1, <4>1, CallFacts DEF Live
      <4>3. worker'[on[t]] = worker[on[t]]
        BY <2>7, <3>3, <4>1, <4>2, CallFacts, TerminatedFacts DEF Launch, Workers
      <4>4. sandbox'[of[on[t]]] = sandbox[of[on[t]]]
        BY <2>7, <3>3, <4>1, <4>2, CallFacts DEF Launch, TypeOK
      <4>5. QED
        BY <4>1, <4>3, <4>4, CallFacts
    <3>4. QED
      BY <3>2, <3>3
  <2>8. ASSUME NEW k \in Attempt, LaunchFails(k) PROVE CallsHaveWorker'
    BY <2>8 DEF LaunchFails, Settle, CallsHaveWorker, taskVars
  <2>9. ASSUME NEW k \in Attempt, Outcome(k) PROVE CallsHaveWorker'
    <3>1. \A j \in Attempt : worker[j] \in Live => worker'[j] \in Live
      BY <2>9 DEF Outcome, Activated, Fails, TypeOK, Live
    <3>2. UNCHANGED <<at, on, of, sandbox>>
      BY <2>9 DEF Outcome, Activated, Fails, Settle, taskVars
    <3>3. QED
      BY <3>1, <3>2, CallFacts DEF CallsHaveWorker
  <2>10. ASSUME NEW k \in Attempt, Crash(k) PROVE CallsHaveWorker'
    <3> SUFFICES ASSUME NEW t \in Task, at'[t] = "wait"
                 PROVE  on[t] # 0 /\ worker'[on[t]] \in Live /\ sandbox[of[on[t]]] = on[t]
      BY <2>10 DEF CallsHaveWorker, Crash, Settle, attemptVars
    <3>1. at[t] = "wait" /\ on[t] # k
      BY <2>10, RejectedFacts DEF Crash
    <3>2. worker'[on[t]] = worker[on[t]]
      BY <2>10, <3>1, CallFacts DEF Crash, TypeOK
    <3>3. QED
      BY <3>1, <3>2, CallFacts
  <2>11. ASSUME NEW k \in Attempt, NEW i \in Id, Register(k, i) PROVE CallsHaveWorker'
    BY <2>11 DEF Register, CallsHaveWorker, attemptVars, taskVars
  <2>12. ASSUME NEW x \in acting, Disable(x) PROVE CallsHaveWorker'
    BY <2>12, ActFacts, CallsStep DEF Disable, attemptVars
  <2>13. ASSUME NEW x \in acting, Enable(x) PROVE CallsHaveWorker'
    BY <2>13, ActFacts, CallsStep DEF Enable, attemptVars, taskVars
  <2>14. ASSUME NEW p \in Plugin, Retry(p) PROVE CallsHaveWorker'
    BY <2>14, CallsStep DEF Retry, attemptVars
  <2>15. CASE \E p \in Plugin : DiskChanges(p) \/ Toggle(p)
    BY <2>15 DEF DiskChanges, Toggle, CallsHaveWorker, attemptVars, taskVars
  <2>16. ASSUME NEW x \in acting, Leave(x) PROVE CallsHaveWorker'
    BY <2>16, ActFacts, CallsStep DEF Leave, attemptVars, taskVars
  <2>17. CASE UNCHANGED vars
    BY <2>17 DEF vars, attemptVars, taskVars, CallsHaveWorker
  <2>18. QED
    BY <2>1, <2>2, <2>3, <2>4, <2>5, <2>6, <2>7, <2>8, <2>9, <2>10, <2>11, <2>12, <2>13, <2>14,
       <2>15, <2>16, <2>17 DEF Next, TaskStep
<1>3. QED
  BY <1>1, <1>2, TypeCorrect, HostCorrect, PTL DEF Spec

-----------------------------------------------------------------------------
\* Nothing gets stuck while attempts and workers stay as they are.
LEMMA StuckFrame ==
  ASSUME NoStuckActivating, UNCHANGED <<sandboxed, of, stage, bound, worker>>,
         \A p \in Plugin : status'[p] = "activating" => status[p] = "activating"
  PROVE  NoStuckActivating'
BY DEF NoStuckActivating, InFlight, Orphaned

\* The user's acts on one plugin: it gets a new attempt, or it is not
\* activating afterwards; the others keep their status and their attempts.
LEMMA StuckStep ==
  ASSUME TypeOK, HostInv, NoStuckActivating, NEW p \in Plugin, UNCHANGED sandboxed,
         TerminatePlugin(p) \/ UNCHANGED worker,
         \/ Begin(p)
         \/ /\ UNCHANGED attemptVars
            /\ \E s \in Statuses \ {"activating"} : status' = [status EXCEPT ![p] = s]
  PROVE  NoStuckActivating'
<1> SUFFICES ASSUME NEW q \in Plugin, status'[q] = "activating"
             PROVE  Orphaned(q)' \/ \E k \in Attempt : InFlight(k, q)'
  BY DEF NoStuckActivating
<1>1. CASE q = p
  <2>1. Begin(p)
    BY <1>1 DEF TypeOK, Statuses
  <2>2. used + 1 \in Attempt
    BY <2>1, BeginFacts
  <2>3. of'[used + 1] = p /\ bound'[used + 1] /\ stage'[used + 1] = "import"
    BY <2>1, <2>2 DEF Begin, TypeOK
  <2>4. QED
    BY <1>1, <2>2, <2>3 DEF InFlight
<1>2. CASE q # p
  <2>1. status[q] = "activating"
    BY <1>2 DEF Begin, TypeOK
  <2>2. PICK k \in Attempt : of[k] = q /\ (~bound[k] \/ InFlight(k, q))
    BY <2>1 DEF NoStuckActivating, Orphaned, InFlight
  <2>3. of'[k] = q /\ bound'[k] = bound[k] /\ stage'[k] = stage[k]
    <3>1. CASE Begin(p)
      <4>1. used + 1 \in Attempt /\ of[used + 1] = NoPlugin
        BY <3>1, BeginFacts, PluginsAssumption DEF HostInv, Begun, TypeOK, Attempt
      <4>2. k # used + 1
        BY <2>2, <4>1, PluginsAssumption
      <4>3. of'[k] = of[k] /\ stage'[k] = stage[k]
        BY <3>1, <4>2 DEF Begin, TypeOK
      <4>4. bound'[k] = bound[k]
        BY <3>1, <4>2, Zenon DEF Begin, TypeOK
      <4>5. QED
        BY <2>2, <4>3, <4>4
    <3>2. CASE UNCHANGED attemptVars
      BY <2>2, <3>2 DEF attemptVars
    <3>3. QED
      BY <3>1, <3>2
  <2>4. worker'[k] = worker[k]
    <3>1. CASE TerminatePlugin(p)
      <4>1. k # sandbox[p]
        BY <1>2, <2>2, EntryFacts DEF Attempt
      <4>2. QED
        BY <3>1, <4>1, TerminatePluginFacts
    <3>2. QED
      BY <3>1
  <2>5. CASE ~bound[k]
    BY <2>3, <2>5 DEF Orphaned
  <2>6. CASE InFlight(k, q)
    BY <2>3, <2>4, <2>6 DEF InFlight
  <2>7. QED
    BY <2>2, <2>5, <2>6
<1>3. QED
  BY <1>1, <1>2

\* The end of an attempt takes its plugin out of activating, and leaves the
\* attempts of the others.
LEMMA StuckSettle ==
  ASSUME TypeOK, HostInv, NoStuckActivating, NEW k \in Attempt, UNCHANGED sandboxed,
         NEW o \in {"activated", "error"}, Settle(k, o),
         \A j \in Attempt : j # k => worker'[j] = worker[j]
  PROVE  NoStuckActivating'
<1> SUFFICES ASSUME NEW q \in Plugin, status'[q] = "activating"
             PROVE  Orphaned(q)' \/ \E j \in Attempt : InFlight(j, q)'
  BY DEF NoStuckActivating
<1>1. status[q] = "activating" /\ ~(bound[k] /\ of[k] = q) /\ of' = of /\ bound' = bound
  BY SettleFacts
<1>2. \A j \in Attempt : j # k => stage'[j] = stage[j]
  BY DEF Settle, TypeOK
<1>3. PICK j \in Attempt : of[j] = q /\ (~bound[j] \/ InFlight(j, q))
  BY <1>1 DEF NoStuckActivating, Orphaned, InFlight
<1>4. CASE ~bound[j]
  BY <1>1, <1>3, <1>4 DEF Orphaned
<1>5. CASE InFlight(j, q)
  BY <1>1, <1>2, <1>5 DEF InFlight
<1>6. QED
  BY <1>3, <1>4, <1>5

\* A plugin that says activating has an attempt that will end it.
THEOREM NeverStuck == Spec => []NoStuckActivating
<1>1. Init => NoStuckActivating
  BY DEF Init, NoStuckActivating
<1>2. TypeOK /\ HostInv /\ NoStuckActivating /\ [Next]_vars => NoStuckActivating'
  <2> SUFFICES ASSUME TypeOK, HostInv, NoStuckActivating, [Next]_vars PROVE NoStuckActivating'
    OBVIOUS
  <2>1. ASSUME NEW list \in Listing, Sync(list), UNCHANGED <<sandboxed, worker>> PROVE NoStuckActivating'
    <3> SUFFICES ASSUME NEW q \in Plugin, status'[q] = "activating"
                 PROVE  Orphaned(q)' \/ \E j \in Attempt : InFlight(j, q)'
      BY DEF NoStuckActivating
    <3>1. list[q] # "absent" /\ status[q] = "activating"
      BY <2>1 DEF Sync, Synced, TypeOK
    <3>2. q \notin Removed(list)
      BY <3>1 DEF Removed
    <3>3. PICK j \in Attempt : of[j] = q /\ (~bound[j] \/ InFlight(j, q))
      BY <3>1 DEF NoStuckActivating, Orphaned, InFlight
    <3>4. of' = of /\ stage' = stage /\ (bound'[j] <=> bound[j])
      BY <2>1, <3>2, <3>3, Zenon DEF Sync
    <3>5. CASE ~bound[j]
      BY <3>3, <3>4, <3>5 DEF Orphaned
    <3>6. CASE InFlight(j, q)
      BY <2>1, <3>4, <3>6 DEF InFlight
    <3>7. QED
      BY <3>3, <3>5, <3>6
  <2>2. ASSUME NEW m \in mounting, Mounted(m) PROVE NoStuckActivating'
    BY <2>1, <2>2 DEF Mounted, TypeOK, Mounting
  <2>3. ASSUME NEW t \in Task, Listed(t) PROVE NoStuckActivating'
    <3>1. listed[t] \in Listing /\ UNCHANGED <<sandboxed, worker>>
      BY <2>3 DEF Listed, TypeOK
    <3>2. CASE UNCHANGED <<status, owner, attemptVars, acting>>
      BY <3>1, <3>2, StuckFrame DEF attemptVars
    <3>3. QED
      BY <2>1, <2>3, <3>1, <3>2 DEF Listed
  <2>4. ASSUME NEW t \in Task, NEW p \in Plugin, ScanActivate(t, p) PROVE NoStuckActivating'
    BY <2>4, StuckStep DEF ScanActivate
  <2>5. ASSUME NEW t \in Task, Resume(t) \/ ScanEnd(t) \/ Answer(t) PROVE NoStuckActivating'
    BY <2>5, StuckFrame DEF Resume, ScanEnd, Answer, attemptVars
  <2>6. CASE Mount \/ \E t \in Task : StartLoop(t) \/ \E i \in Id : StartCall(t, i)
    BY <2>6, StuckFrame DEF Mount, StartLoop, StartCall, attemptVars
  <2>7. ASSUME NEW k \in Attempt, Launch(k) PROVE NoStuckActivating'
    <3> SUFFICES ASSUME NEW q \in Plugin, status[q] = "activating"
                 PROVE  Orphaned(q)' \/ \E j \in Attempt : InFlight(j, q)'
      BY <2>7 DEF NoStuckActivating, Launch
    <3>1. /\ UNCHANGED <<sandboxed, of, bound>> /\ of[k] \in Plugin
          /\ \A j \in Attempt : stage'[j] = IF j = k THEN "await" ELSE stage[j]
      BY <2>7, StageFacts DEF Launch, TypeOK
    <3>2. PICK j \in Attempt : of[j] = q /\ (~bound[j] \/ InFlight(j, q))
      BY DEF NoStuckActivating, Orphaned, InFlight
    <3>3. CASE \E i \in Attempt : of[i] = q /\ ~bound[i]
      BY <3>1, <3>3 DEF Orphaned
    <3>4. CASE of[k] = q /\ bound[k]
      <4>1. sandboxed => worker'[k] = "starting"
        BY <2>7, TerminatedFacts DEF Launch, Workers
      <4>2. QED
        BY <3>1, <3>4, <4>1 DEF InFlight
    <3>5. CASE of[k] # q /\ InFlight(j, q)
      <4>1. j # k /\ j # sandbox[of[k]]
        BY <3>1, <3>5, EntryFacts DEF InFlight, Attempt
      <4>2. worker'[j] = worker[j]
        BY <2>7, <4>1, TerminatedFacts DEF Launch, Workers
      <4>3. QED
        BY <3>1, <3>5, <4>1, <4>2 DEF InFlight
    <3>6. QED
      BY <3>2, <3>3, <3>4, <3>5
  <2>8. ASSUME NEW k \in Attempt, LaunchFails(k) PROVE NoStuckActivating'
    BY <2>8, StuckSettle DEF LaunchFails
  <2>9. ASSUME NEW k \in Attempt, Activated(k) PROVE NoStuckActivating'
    <3>1. \A j \in Attempt : j # k => worker'[j] = worker[j]
      BY <2>9 DEF Activated, TypeOK
    <3>2. QED
      BY <2>9, <3>1, StuckSettle DEF Activated
  <2>10. ASSUME NEW k \in Attempt, Fails(k) PROVE NoStuckActivating'
    <3>1. \A j \in Attempt : j # k => worker'[j] = worker[j]
      BY <2>10 DEF Fails, TypeOK
    <3>2. QED
      BY <2>10, <3>1, StuckSettle DEF Fails
  <2>11. ASSUME NEW k \in Attempt, Crash(k) PROVE NoStuckActivating'
    <3>1. \A j \in Attempt : j # k => worker'[j] = worker[j]
      BY <2>11 DEF Crash, TypeOK
    <3>2. CASE Settle(k, "error")
      BY <2>11, <3>1, <3>2, StuckSettle DEF Crash
    <3>3. CASE stage[k] # "await" /\ UNCHANGED <<attemptVars, status>>
      <4>1. \A q \in Plugin : ~InFlight(k, q)
        BY <2>11, <3>3, LiveFacts DEF Crash, InFlight
      <4>2. UNCHANGED <<sandboxed, of, stage, bound, status>>
        BY <2>11, <3>3 DEF Crash, attemptVars
      <4>3. \A q \in Plugin, j \in Attempt : InFlight(j, q) => InFlight(j, q)'
        BY <3>1, <4>1, <4>2 DEF InFlight
      <4>4. QED
        BY <4>2, <4>3 DEF NoStuckActivating, Orphaned
    <3>4. QED
      BY <2>11, <3>2, <3>3 DEF Crash
  <2>12. ASSUME NEW k \in Attempt, NEW i \in Id, Register(k, i) PROVE NoStuckActivating'
    BY <2>12, StuckFrame DEF Register, attemptVars
  <2>13. ASSUME NEW x \in acting, Disable(x) PROVE NoStuckActivating'
    <3> DEFINE p == x.plugin
    <3>1. p \in Plugin /\ UNCHANGED <<sandboxed, attemptVars>>
      BY <2>13, ActFacts DEF Disable
    <3>2. CASE TerminatePlugin(p) /\ status' = [status EXCEPT ![p] = "disabled"]
      BY <3>1, <3>2, StuckStep DEF Statuses
    <3>3. CASE UNCHANGED <<worker, status>>
      BY <3>1, <3>3, StuckFrame DEF attemptVars
    <3>4. CASE UNCHANGED worker /\ status' = [status EXCEPT ![p] = IF @ = "none" THEN @ ELSE "disabled"]
      <4>1. \E s \in Statuses \ {"activating"} : status' = [status EXCEPT ![p] = s]
        BY <3>1, <3>4 DEF Statuses, TypeOK
      <4>2. QED
        BY <3>1, <3>4, <4>1, StuckStep
    <3>5. QED
      BY <2>13, <3>2, <3>3, <3>4 DEF Disable
  <2>14. ASSUME NEW x \in acting, Enable(x) PROVE NoStuckActivating'
    <3> DEFINE p == x.plugin
    <3>1. p \in Plugin /\ UNCHANGED <<sandboxed, worker>>
      BY <2>14, ActFacts DEF Enable
    <3>2. CASE Begin(p)
      BY <3>1, <3>2, StuckStep
    <3>3. CASE status' = [status EXCEPT ![p] = "loaded"] /\ UNCHANGED attemptVars
      BY <3>1, <3>3, StuckStep DEF Statuses
    <3>4. CASE UNCHANGED <<status, attemptVars>>
      BY <3>1, <3>4, StuckFrame DEF attemptVars
    <3>5. QED
      BY <2>14, <3>2, <3>3, <3>4 DEF Enable
  <2>15. ASSUME NEW p \in Plugin, Retry(p) PROVE NoStuckActivating'
    <3>1. CASE Begin(p) /\ (TerminatePlugin(p) \/ UNCHANGED worker)
      BY <2>15, <3>1, StuckStep DEF Retry
    <3>2. CASE UNCHANGED <<worker, status, attemptVars>>
      BY <2>15, <3>2, StuckFrame DEF Retry, attemptVars
    <3>3. QED
      BY <2>15, <3>1, <3>2 DEF Retry
  <2>16. CASE \E p \in Plugin : DiskChanges(p) \/ Toggle(p)
    BY <2>16, StuckFrame DEF DiskChanges, Toggle, attemptVars
  <2>17. ASSUME NEW x \in acting, Leave(x) PROVE NoStuckActivating'
    <3> DEFINE p == x.plugin
    <3>1. p \in Plugin /\ UNCHANGED <<sandboxed, worker>>
      BY <2>17, ActFacts DEF Leave
    <3>2. CASE Begin(p)
      BY <3>1, <3>2, StuckStep
    <3>3. CASE status' = [status EXCEPT ![p] = IF @ = "none" THEN @ ELSE "disabled"] /\ UNCHANGED attemptVars
      <4>1. \E s \in Statuses \ {"activating"} : status' = [status EXCEPT ![p] = s]
        BY <3>1, <3>3 DEF Statuses, TypeOK
      <4>2. QED
        BY <3>1, <3>3, <4>1, StuckStep
    <3>4. CASE UNCHANGED <<status, attemptVars>>
      BY <3>1, <3>4, StuckFrame DEF attemptVars
    <3>5. QED
      BY <2>17, <3>2, <3>3, <3>4 DEF Leave
  <2>18. CASE UNCHANGED vars
    BY <2>18, StuckFrame DEF vars, attemptVars
  <2>19. QED
    BY <2>2, <2>3, <2>4, <2>5, <2>6, <2>7, <2>8, <2>9, <2>10, <2>11, <2>12, <2>13, <2>14, <2>15,
       <2>16, <2>17, <2>18 DEF Next, TaskStep, Outcome
<1>3. QED
  BY <1>1, <1>2, TypeCorrect, HostCorrect, PTL DEF Spec
=============================================================================

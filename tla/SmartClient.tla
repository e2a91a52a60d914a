---------------------------- MODULE SmartClient ----------------------------
(***************************************************************************)
(* FastCacheSmartClient: routing, failover, topology refresh, shutdown.    *)
(*                                                                         *)
(* Processes: one detached thread per execute() (the requests), the        *)
(* periodic refresh thread, the detached threads of triggerAsyncRefresh()  *)
(* and the thread that calls shutdown().  They share the atomics of the    *)
(* client, ready_mutex_ / ready_cv_ and the routing table.  A step is what *)
(* runs between two accesses to that shared state.                         *)
(*                                                                         *)
(* The standalone clients the requests go through are modelled by          *)
(* RpcContract, which StandaloneClient and CoordinatorClient are shown to  *)
(* implement: a call on a client that is down is rejected, one that got in *)
(* before may be accepted, an accepted one keeps the client's shutdown()   *)
(* from returning until it has an outcome.  Send takes the two steps into  *)
(* the client as one.  A call that is overtaken by the shutdown of its     *)
(* client between them, or whose stream is, may abort the process: that is *)
(* shown in StandaloneClient and CoordinatorClient, and not repeated here. *)
(***************************************************************************)
EXTENDS RoutingTable

CONSTANTS
    Requests,           \* the calls of execute()
    Hash,               \* Hash[r]: the weak hash of r's key hint, NoHint if null
    NoHint,
    Deadlined,          \* the requests with a timeout, their own or the client's
    Modes,              \* the modes passed to setMode()
    NCoordinators,      \* coordinator_addresses_.size()
    Topologies,         \* the routing infos coordinators answer with
    NoTopology,
    NoTarget,           \* a blank half of "master,backup"
    Redirects,          \* the <<master, backup>> pairs servers redirect to
    AsyncRefreshers,    \* bound: detached refresh threads that get to run
    MaxRounds,          \* bound: rounds of the periodic refresh
    MaxRedirects        \* bound: redirects one request meets

AllModes == {"MASTER", "BACKUP", "LB_SMART", "MASTER_THAN_BACKUP"}

ASSUME SmartAssumption ==
    /\ Modes \subseteq AllModes
    /\ NCoordinators \in Nat \ {0}
    /\ Hash \in [Requests -> Nat \cup {NoHint}]
    /\ NoHint \notin Nat
    /\ Deadlined \subseteq Requests
    /\ MaxRounds \in Nat
    /\ MaxRedirects \in Nat
    /\ NoTarget \notin Targets
    /\ Redirects \subseteq (Targets \cup {NoTarget}) \X (Targets \cup {NoTarget})
    /\ \A T \in Topologies :
          /\ DOMAIN T = {"max", "peers"}
          /\ T.max \in Nat
          /\ T.peers \in Seq(PeerRouting)
    /\ NoTopology \notin Topologies
    /\ {"periodic", "closer"} \cap AsyncRefreshers = {}

Refreshers == AsyncRefreshers \cup {"periodic"}

VARIABLES
    isReady, isUpdating, shutdownRequested,     \* the atomics
    modeOverride,       \* mode_override_: a mode, or "none" for -1
    activeCoordinator,  \* active_coordinator_index_
    randomCounter,      \* random_counter_
    coordinatorDown,    \* coordinator_client_'s shutdown_
    rpc,                \* rpc[h]: where refresher h is
    base, attempt,      \* base[h], attempt[h]: locals of refreshRouting
    reply,              \* reply[h]: the routing info h fetched
    rounds,             \* rounds of the periodic thread so far
    removed,            \* removed[h]: clients h took out of the table and has to shut down
    pc,                 \* pc[r]: where request r is
    shard, mode,        \* shard[r], mode[r]: locals of execute
    current, fallback,  \* current[r], fallback[r]: arguments of attemptWithGuard
    redirect,           \* redirect[r]: the pair a FAILED_PRECONDITION carried
    newMaster,          \* newMaster[r]: new_master
    result,             \* result[r]: "none", "value", or why the request failed
    tries,              \* tries[r]: clients tried since the last redirect
    redirects,          \* redirects[r]: redirects r met
    unavailable,        \* unavailable[r]: UNAVAILABLE answers r met
    applied,            \* applied[r]: times a server carried the request out
    shutPc,             \* where the thread in shutdown() is
    crashed             \* undefined behaviour was reached

atomicVars  == <<isReady, isUpdating, shutdownRequested, modeOverride, activeCoordinator, randomCounter>>
refreshVars == <<rpc, base, attempt, reply, rounds>>
localVars   == <<shard, mode, redirect, newMaster>>
ghostVars   == <<tries, redirects, unavailable, applied>>
requestVars == <<pc, current, fallback, result, localVars, ghostVars>>
vars == <<tableVars, atomicVars, coordinatorDown, refreshVars, removed, requestVars, shutPc, crashed>>

MaybeClient == Client \cup {NoClient}
Results == {"none", "value", "shutDown", "bootTimeout", "noEndpoint", "clientDown", "error"}

\* Where a refresher and a request can be.
RefreshLabels == {"unborn", "sleep", "enter", "cas", "fetch", "fetching", "install", "retire",
                  "publish", "notify", "release", "exited"}
RequestLabels == {"idle", "waitReady", "waitLock", "asleep", "shard", "master", "backup", "send",
                  "inFlight", "findMaster", "createMaster", "findBackup", "createBackup",
                  "redirect", "done"}

ClientTypeOK ==
    /\ isReady \in BOOLEAN /\ isUpdating \in BOOLEAN /\ shutdownRequested \in BOOLEAN
    /\ modeOverride \in AllModes \cup {"none"}
    /\ activeCoordinator \in 0 .. NCoordinators - 1
    /\ randomCounter \in Nat
    /\ coordinatorDown \in BOOLEAN
    /\ shutPc \in {"idle", "join", "unready", "notify", "coordinator", "coordinatorJoin",
                   "table", "retire", "done"}
    /\ crashed \in BOOLEAN

RefreshTypeOK ==
    /\ rpc \in [Refreshers -> RefreshLabels]
    /\ base \in [Refreshers -> 0 .. NCoordinators - 1]
    /\ attempt \in [Refreshers -> 0 .. NCoordinators - 1]
    /\ reply \in [Refreshers -> Topologies \cup {NoTopology}]
    /\ rounds \in 0 .. MaxRounds
    /\ removed \in [Refreshers \cup {"closer"} -> SUBSET Client]

RequestTypeOK ==
    /\ pc \in [Requests -> RequestLabels]
    /\ shard \in [Requests -> Nat]
    /\ mode \in [Requests -> AllModes]
    /\ current \in [Requests -> MaybeClient]
    /\ fallback \in [Requests -> MaybeClient]
    /\ redirect \in [Requests -> (Targets \cup {NoTarget}) \X (Targets \cup {NoTarget})]
    /\ newMaster \in [Requests -> MaybeClient]
    /\ result \in [Requests -> Results]
    /\ tries \in [Requests -> Nat]
    /\ redirects \in [Requests -> 0 .. MaxRedirects]
    /\ unavailable \in [Requests -> Nat]
    /\ applied \in [Requests -> Nat]

TypeOK == TableTypeOK /\ ClientTypeOK /\ RefreshTypeOK /\ RequestTypeOK

Init ==
    /\ TableInit
    /\ isReady = FALSE /\ isUpdating = FALSE /\ shutdownRequested = FALSE
    /\ modeOverride = "none"
    /\ activeCoordinator = 0
    /\ randomCounter = 0
    /\ coordinatorDown = FALSE
    /\ rpc = [h \in Refreshers |-> IF h = "periodic" THEN "sleep" ELSE "unborn"]
    /\ base = [h \in Refreshers |-> 0]
    /\ attempt = [h \in Refreshers |-> 0]
    /\ reply = [h \in Refreshers |-> NoTopology]
    /\ rounds = 0
    /\ removed = [h \in Refreshers \cup {"closer"} |-> {}]
    /\ pc = [r \in Requests |-> "idle"]
    /\ shard = [r \in Requests |-> 0]
    /\ mode = [r \in Requests |-> "MASTER_THAN_BACKUP"]
    /\ current = [r \in Requests |-> NoClient]
    /\ fallback = [r \in Requests |-> NoClient]
    /\ redirect = [r \in Requests |-> <<NoTarget, NoTarget>>]
    /\ newMaster = [r \in Requests |-> NoClient]
    /\ result = [r \in Requests |-> "none"]
    /\ tries = [r \in Requests |-> 0]
    /\ redirects = [r \in Requests |-> 0]
    /\ unavailable = [r \in Requests |-> 0]
    /\ applied = [r \in Requests |-> 0]
    /\ shutPc = "idle"
    /\ crashed = FALSE

-----------------------------------------------------------------------------
(* refreshRouting, on the periodic thread and on detached threads.          *)

At(h, label) == rpc' = [rpc EXCEPT ![h] = label]

\* Where a refresher goes when refreshRouting returns.
Leave(h) == At(h, IF h = "periodic" THEN "sleep" ELSE "exited")

\* Mutant: request_stop() is missing in shutdown().
PeriodicWakeNoStop ==
    /\ rpc["periodic"] = "sleep"
    /\ rounds < MaxRounds
    /\ rounds' = rounds + 1
    /\ At("periodic", "enter")
    /\ UNCHANGED <<tableVars, atomicVars, coordinatorDown, base, attempt, reply, removed,
                   requestVars, shutPc, crashed>>

\* The loop of refresh_thread_: the next round, unless a stop was requested.
PeriodicWake ==
    /\ rpc["periodic"] = "sleep"
    /\ IF shutPc # "idle"
         THEN At("periodic", "exited") /\ UNCHANGED rounds
         ELSE /\ rounds < MaxRounds
              /\ rounds' = rounds + 1
              /\ At("periodic", "enter")
    /\ UNCHANGED <<tableVars, atomicVars, coordinatorDown, base, attempt, reply, removed,
                   requestVars, shutPc, crashed>>

RefreshEnter(h) ==
    /\ rpc[h] = "enter"
    /\ IF shutdownRequested THEN Leave(h) ELSE At(h, "cas")
    /\ UNCHANGED <<tableVars, atomicVars, coordinatorDown, base, attempt, reply, rounds, removed,
                   requestVars, shutPc, crashed>>

\* Mutant: is_updating_ is set without testing it.
RefreshCasIgnored(h) ==
    /\ rpc[h] = "cas"
    /\ isUpdating' = TRUE
    /\ base' = [base EXCEPT ![h] = activeCoordinator]
    /\ attempt' = [attempt EXCEPT ![h] = 0]
    /\ At(h, "fetch")
    /\ UNCHANGED <<tableVars, isReady, shutdownRequested, modeOverride, activeCoordinator,
                   randomCounter, coordinatorDown, reply, rounds, removed, requestVars, shutPc, crashed>>

\* The compare-exchange of is_updating_: one refresh at a time, the others return.
RefreshCas(h) ==
    /\ rpc[h] = "cas"
    /\ \/ /\ isUpdating
          /\ Leave(h)
          /\ UNCHANGED <<isUpdating, base, attempt>>
       \/ /\ ~isUpdating
          /\ isUpdating' = TRUE
          /\ base' = [base EXCEPT ![h] = activeCoordinator]
          /\ attempt' = [attempt EXCEPT ![h] = 0]
          /\ At(h, "fetch")
    /\ UNCHANGED <<tableVars, isReady, shutdownRequested, modeOverride, activeCoordinator,
                   randomCounter, coordinatorDown, reply, rounds, removed, requestVars, shutPc, crashed>>

CoordinatorOf(h) == (base[h] + attempt[h]) % NCoordinators

\* Mutant: the round ends one coordinator early.
NextCoordinatorOffByOne(h) ==
    IF attempt[h] + 2 < NCoordinators
      THEN attempt' = [attempt EXCEPT ![h] = @ + 1] /\ At(h, "fetch")
      ELSE UNCHANGED attempt /\ At(h, "release")

\* Mutant: the round asks one coordinator too many.
NextCoordinatorTooMany(h) ==
    IF attempt[h] < NCoordinators
      THEN attempt' = [attempt EXCEPT ![h] = @ + 1] /\ At(h, "fetch")
      ELSE UNCHANGED attempt /\ At(h, "release")

\* The exception handler of a round: the next coordinator, or give up.
NextCoordinator(h) ==
    IF attempt[h] + 1 < NCoordinators
      THEN attempt' = [attempt EXCEPT ![h] = @ + 1] /\ At(h, "fetch")
      ELSE UNCHANGED attempt /\ At(h, "release")

\* provideGlobalRoutingInfo is called; it fails at once after CoordinatorClient::shutdown.
FetchStart(h) ==
    /\ rpc[h] = "fetch"
    /\ IF coordinatorDown
         THEN NextCoordinator(h)
         ELSE At(h, "fetching") /\ UNCHANGED attempt
    /\ UNCHANGED <<tableVars, atomicVars, coordinatorDown, base, reply, rounds, removed,
                   requestVars, shutPc, crashed>>

\* Mutant: is_ready_ is set before the topology is installed.
FetchOkReady(h) ==
    /\ rpc[h] = "fetching"
    /\ isReady' = TRUE
    /\ \E T \in Topologies : reply' = [reply EXCEPT ![h] = T]
    /\ At(h, "install")
    /\ UNCHANGED <<tableVars, isUpdating, shutdownRequested, modeOverride, activeCoordinator,
                   randomCounter, coordinatorDown, base, attempt, rounds, removed, requestVars,
                   shutPc, crashed>>

FetchOk(h) ==
    /\ rpc[h] = "fetching"
    /\ \E T \in Topologies : reply' = [reply EXCEPT ![h] = T]
    /\ At(h, "install")
    /\ UNCHANGED <<tableVars, atomicVars, coordinatorDown, base, attempt, rounds, removed,
                   requestVars, shutPc, crashed>>

\* The coordinator is unreachable, answers with an error, or the deadline passes.
FetchFail(h) ==
    /\ rpc[h] = "fetching"
    /\ NextCoordinator(h)
    /\ UNCHANGED <<tableVars, atomicVars, coordinatorDown, base, reply, rounds, removed,
                   requestVars, shutPc, crashed>>

\* updateFromCoordinator up to the unlock.
Install(h) ==
    /\ rpc[h] = "install"
    /\ UpdateFromCoordinator(reply[h])
    /\ removed' = [removed EXCEPT ![h] = RemovedClients(reply[h])]
    /\ reply' = [reply EXCEPT ![h] = NoTopology]
    /\ At(h, "retire")
    /\ UNCHANGED <<down, atomicVars, coordinatorDown, base, attempt, rounds, requestVars, shutPc, crashed>>

Retired(h) ==
    /\ rpc[h] = "retire"
    /\ removed[h] = {}
    /\ At(h, "publish")
    /\ UNCHANGED <<tableVars, atomicVars, coordinatorDown, base, attempt, reply, rounds, removed,
                   requestVars, shutPc, crashed>>

\* active_coordinator_index_ (only its holder of is_updating_ reads it) and,
\* under ready_mutex_, is_ready_.
Publish(h) ==
    /\ rpc[h] = "publish"
    /\ activeCoordinator' = CoordinatorOf(h)
    /\ isReady' = TRUE
    /\ At(h, "notify")
    /\ UNCHANGED <<tableVars, isUpdating, shutdownRequested, modeOverride, randomCounter,
                   coordinatorDown, base, attempt, reply, rounds, removed, requestVars, shutPc, crashed>>

\* ready_cv_.notify_all(): every waiter evaluates its predicate again.
NotifyAll == pc' = [r \in Requests |-> IF pc[r] = "asleep" THEN "waitLock" ELSE pc[r]]

RefreshNotify(h) ==
    /\ rpc[h] = "notify"
    /\ NotifyAll
    /\ At(h, "release")
    /\ UNCHANGED <<tableVars, atomicVars, coordinatorDown, base, attempt, reply, rounds, removed,
                   current, fallback, result, localVars, ghostVars, shutPc, crashed>>

\* Mutant: the guard does not reset the flag.
RefreshReleaseForgotten(h) ==
    /\ rpc[h] = "release"
    /\ Leave(h)
    /\ UNCHANGED <<tableVars, atomicVars, coordinatorDown, base, attempt, reply, rounds, removed,
                   requestVars, shutPc, crashed>>

\* ~UpdateGuard.
RefreshRelease(h) ==
    /\ rpc[h] = "release"
    /\ isUpdating' = FALSE
    /\ Leave(h)
    /\ UNCHANGED <<tableVars, isReady, shutdownRequested, modeOverride, activeCoordinator,
                   randomCounter, coordinatorDown, base, attempt, reply, rounds, removed,
                   requestVars, shutPc, crashed>>

-----------------------------------------------------------------------------
(* client->shutdown() on the clients a thread took out of the table, one    *)
(* after the other; each returns when the client has no call in flight.     *)

Retiring(h) == IF h = "closer" THEN shutPc = "retire" ELSE rpc[h] = "retire"

ShutClient(h) ==
    /\ Retiring(h)
    /\ removed[h] \cap down = {}
    /\ \E c \in removed[h] : down' = down \cup {c}
    /\ UNCHANGED <<maxShards, route, byTarget, gen, atomicVars, coordinatorDown, refreshVars,
                   removed, requestVars, shutPc, crashed>>

ClientShut(h) ==
    /\ Retiring(h)
    /\ \E c \in removed[h] \cap down :
          /\ \A r \in Requests : ~(pc[r] = "inFlight" /\ current[r] = c)
          /\ removed' = [removed EXCEPT ![h] = @ \ {c}]
    /\ UNCHANGED <<tableVars, atomicVars, coordinatorDown, refreshVars, requestVars, shutPc, crashed>>

-----------------------------------------------------------------------------
(* execute() up to the first attempt.                                       *)

Goto(r, label) == pc' = [pc EXCEPT ![r] = label]

\* promise->set_value or set_exception; the thread's locals are gone.
Resolve(r, outcome) ==
    /\ Goto(r, "done")
    /\ result' = [result EXCEPT ![r] = outcome]
    /\ current' = [current EXCEPT ![r] = NoClient]
    /\ fallback' = [fallback EXCEPT ![r] = NoClient]

Execute(r) ==
    /\ pc[r] = "idle"
    /\ Goto(r, "waitReady")
    /\ UNCHANGED <<tableVars, atomicVars, coordinatorDown, refreshVars, removed, current, fallback,
                   result, localVars, ghostVars, shutPc, crashed>>

\* waitReady: the test without the lock.
WaitReady(r) ==
    /\ pc[r] = "waitReady"
    /\ Goto(r, IF isReady THEN "shard" ELSE "waitLock")
    /\ UNCHANGED <<tableVars, atomicVars, coordinatorDown, refreshVars, removed, current, fallback,
                   result, localVars, ghostVars, shutPc, crashed>>

\* The predicate of wait_for under ready_mutex_, and what follows when it holds.
WaitPredicate(r) ==
    /\ pc[r] = "waitLock"
    /\ \/ /\ isReady
          /\ Goto(r, "shard")
          /\ UNCHANGED <<current, fallback, result>>
       \/ /\ ~isReady /\ shutdownRequested
          /\ Resolve(r, "shutDown")
       \/ /\ ~isReady /\ ~shutdownRequested
          /\ Goto(r, "asleep")
          /\ UNCHANGED <<current, fallback, result>>
    /\ UNCHANGED <<tableVars, atomicVars, coordinatorDown, refreshVars, removed, localVars,
                   ghostVars, shutPc, crashed>>

\* Mutant: a wait that timed out starts again.
WaitTimeoutAgain(r) ==
    /\ pc[r] = "asleep"
    /\ Goto(r, "waitLock")
    /\ UNCHANGED <<tableVars, atomicVars, coordinatorDown, refreshVars, removed, current, fallback,
                   result, localVars, ghostVars, shutPc, crashed>>

\* ready_timeout_ passes; the tests after wait_for run with the lock held.
WaitTimeout(r) ==
    /\ pc[r] = "asleep"
    /\ IF isReady
         THEN Goto(r, "shard") /\ UNCHANGED <<current, fallback, result>>
         ELSE Resolve(r, IF shutdownRequested THEN "shutDown" ELSE "bootTimeout")
    /\ UNCHANGED <<tableVars, atomicVars, coordinatorDown, refreshVars, removed, localVars,
                   ghostVars, shutPc, crashed>>

\* routing_table_->max_shards() and the shard; a modulus of 0 is undefined behaviour.
PickShard(r) ==
    /\ pc[r] = "shard"
    /\ IF maxShards = 0
         THEN crashed' = TRUE /\ UNCHANGED <<pc, shard, randomCounter>>
         ELSE /\ Goto(r, "master")
              /\ \/ /\ Hash[r] # NoHint
                    /\ shard' = [shard EXCEPT ![r] = Hash[r] % maxShards]
                    /\ UNCHANGED randomCounter
                 \/ /\ Hash[r] = NoHint
                    /\ shard' = [shard EXCEPT ![r] = randomCounter % maxShards]
                    /\ randomCounter' = randomCounter + 1
              /\ UNCHANGED crashed
    /\ UNCHANGED <<tableVars, isReady, isUpdating, shutdownRequested, modeOverride, activeCoordinator,
                   coordinatorDown, refreshVars, removed, current, fallback, result, mode, redirect,
                   newMaster, ghostVars, shutPc>>

GetMaster(r) ==
    /\ pc[r] = "master"
    /\ current' = [current EXCEPT ![r] = GetRoute(shard[r], "MASTER")]
    /\ Goto(r, "backup")
    /\ UNCHANGED <<tableVars, atomicVars, coordinatorDown, refreshVars, removed, fallback, result,
                   localVars, ghostVars, shutPc, crashed>>

EffectiveMode == IF modeOverride = "none" THEN "MASTER_THAN_BACKUP" ELSE modeOverride

\* Mutant: a missing master or backup does not change the mode.
ModeForUnadjusted(master, backup) == EffectiveMode

\* The mode a request runs in, given the routes it found.
ModeFor(master, backup) ==
    IF master = NoClient THEN "BACKUP"
    ELSE IF backup = NoClient THEN "MASTER"
    ELSE EffectiveMode

\* The orders <<current, fallback>> in which a mode tries master and backup.
Orders(m, master, backup) ==
    CASE m = "MASTER"             -> {<<master, NoClient>>}
      [] m = "BACKUP"             -> {<<backup, NoClient>>}
      [] m = "LB_SMART"           -> {<<master, backup>>, <<backup, master>>}
      [] m = "MASTER_THAN_BACKUP" -> {<<master, backup>>}

\* The backup's route, the mode, and the order of the attempts.
GetBackup(r) ==
    /\ pc[r] = "backup"
    /\ LET master == current[r]
           backup == GetRoute(shard[r], "BACKUP")
       IN \/ /\ master = NoClient /\ backup = NoClient
             /\ Resolve(r, "noEndpoint")
             /\ UNCHANGED mode
          \/ /\ ~(master = NoClient /\ backup = NoClient)
             /\ mode' = [mode EXCEPT ![r] = ModeFor(master, backup)]
             /\ \E o \in Orders(ModeFor(master, backup), master, backup) :
                   /\ current' = [current EXCEPT ![r] = o[1]]
                   /\ fallback' = [fallback EXCEPT ![r] = o[2]]
             /\ Goto(r, "send")
             /\ UNCHANGED result
    /\ shard' = [shard EXCEPT ![r] = 0]    \* not read any more
    /\ UNCHANGED <<tableVars, atomicVars, coordinatorDown, refreshVars, removed, redirect,
                   newMaster, ghostVars, shutPc, crashed>>

-----------------------------------------------------------------------------
(* attemptWithGuard.                                                        *)

\* action(current): a null client is undefined behaviour, one that is down rejects
\* the call with an exception that is not a GrpcStatusException.
Send(r) ==
    /\ pc[r] = "send"
    /\ IF current[r] = NoClient
         THEN crashed' = TRUE /\ UNCHANGED <<pc, current, fallback, result, tries>>
         ELSE IF current[r] \in down
           THEN Resolve(r, "clientDown") /\ UNCHANGED <<tries, crashed>>
           ELSE /\ Goto(r, "inFlight")
                /\ tries' = [tries EXCEPT ![r] = @ + 1]
                /\ UNCHANGED <<current, fallback, result, crashed>>
    /\ UNCHANGED <<tableVars, atomicVars, coordinatorDown, refreshVars, removed, localVars,
                   redirects, unavailable, applied, shutPc>>

\* The server carried the request out, or did not, before the answer came.
MaybeApplied(r) == \E n \in {0, 1} : applied' = [applied EXCEPT ![r] = @ + n]

AnswerValue(r) ==
    /\ pc[r] = "inFlight"
    /\ Resolve(r, "value")
    /\ applied' = [applied EXCEPT ![r] = @ + 1]
    /\ UNCHANGED <<tableVars, atomicVars, coordinatorDown, refreshVars, removed, localVars, tries,
                   redirects, unavailable, shutPc, crashed>>

\* Mutant: every failure is retried on the fallback, not only UNAVAILABLE.
AnswerErrorRetries(r) ==
    /\ pc[r] = "inFlight"
    /\ MaybeApplied(r)
    /\ IF fallback[r] # NoClient /\ fallback[r] # current[r]
         THEN /\ Goto(r, "send")
              /\ current' = [current EXCEPT ![r] = fallback[r]]
              /\ fallback' = [fallback EXCEPT ![r] = NoClient]
              /\ UNCHANGED result
         ELSE Resolve(r, "error")
    /\ UNCHANGED <<tableVars, atomicVars, coordinatorDown, refreshVars, removed, localVars, tries,
                   redirects, unavailable, shutPc, crashed>>

\* Any other failure, the deadline included: rethrown.
AnswerError(r) ==
    /\ pc[r] = "inFlight"
    /\ Resolve(r, "error")
    /\ MaybeApplied(r)
    /\ UNCHANGED <<tableVars, atomicVars, coordinatorDown, refreshVars, removed, localVars, tries,
                   redirects, unavailable, shutPc, crashed>>

\* A detached thread; one beyond the bound never gets to run.
TriggerAsyncRefresh ==
    \/ \E h \in AsyncRefreshers : rpc[h] = "unborn" /\ At(h, "enter")
    \/ (\A h \in AsyncRefreshers : rpc[h] # "unborn") /\ UNCHANGED rpc

\* Mutant: the fallback keeps the failed client as its own fallback.
AnswerUnavailablePingPong(r) ==
    /\ pc[r] = "inFlight"
    /\ unavailable[r] < 3
    /\ unavailable' = [unavailable EXCEPT ![r] = @ + 1]
    /\ MaybeApplied(r)
    /\ TriggerAsyncRefresh
    /\ IF fallback[r] # NoClient /\ fallback[r] # current[r]
         THEN /\ Goto(r, "send")
              /\ current' = [current EXCEPT ![r] = fallback[r]]
              /\ fallback' = [fallback EXCEPT ![r] = current[r]]
              /\ UNCHANGED result
         ELSE Resolve(r, "error")
    /\ UNCHANGED <<tableVars, atomicVars, coordinatorDown, base, attempt, reply, rounds, removed,
                   localVars, tries, redirects, shutPc, crashed>>

\* UNAVAILABLE: refresh the topology in the background, try the fallback once.
AnswerUnavailable(r) ==
    /\ pc[r] = "inFlight"
    /\ unavailable' = [unavailable EXCEPT ![r] = @ + 1]
    /\ MaybeApplied(r)
    /\ TriggerAsyncRefresh
    /\ IF fallback[r] # NoClient /\ fallback[r] # current[r]
         THEN /\ Goto(r, "send")
              /\ current' = [current EXCEPT ![r] = fallback[r]]
              /\ fallback' = [fallback EXCEPT ![r] = NoClient]
              /\ UNCHANGED result
         ELSE Resolve(r, "error")
    /\ UNCHANGED <<tableVars, atomicVars, coordinatorDown, base, attempt, reply, rounds, removed,
                   localVars, tries, redirects, shutPc, crashed>>

\* FAILED_PRECONDITION with a route: the server did nothing and names other nodes.
AnswerRedirect(r) ==
    /\ pc[r] = "inFlight"
    /\ redirects[r] < MaxRedirects
    /\ redirects' = [redirects EXCEPT ![r] = @ + 1]
    /\ \E d \in Redirects : redirect' = [redirect EXCEPT ![r] = d]
    /\ Goto(r, "findMaster")
    /\ UNCHANGED <<tableVars, atomicVars, coordinatorDown, refreshVars, removed, current, fallback,
                   result, shard, mode, newMaster, tries, unavailable, applied, shutPc, crashed>>

\* A half of the redirect that names a node other than the current one.
Elsewhere(r, t) == t # NoTarget /\ t # current[r][1]

\* new_master: the lookup under the shared lock.
FindMaster(r) ==
    /\ pc[r] = "findMaster"
    /\ LET t == redirect[r][1] IN
          IF ~Elsewhere(r, t) THEN Goto(r, "findBackup") /\ UNCHANGED newMaster
          ELSE IF Registered(t)
            THEN Goto(r, "findBackup") /\ newMaster' = [newMaster EXCEPT ![r] = ClientOf(t)]
            ELSE Goto(r, "createMaster") /\ UNCHANGED newMaster
    /\ UNCHANGED <<tableVars, atomicVars, coordinatorDown, refreshVars, removed, current, fallback,
                   result, shard, mode, redirect, ghostVars, shutPc, crashed>>

CreateMaster(r) ==
    /\ pc[r] = "createMaster"
    /\ LET t == redirect[r][1] IN
          /\ CreateByTarget(t)
          /\ newMaster' = [newMaster EXCEPT ![r] = <<t, byTarget'[t]>>]
    /\ Goto(r, "findBackup")
    /\ UNCHANGED <<maxShards, route, down, atomicVars, coordinatorDown, refreshVars, removed, current,
                   fallback, result, shard, mode, redirect, ghostVars, shutPc, crashed>>

\* new_backup, kept in fallback[r]: the lookup, or the old fallback.
FindBackup(r) ==
    /\ pc[r] = "findBackup"
    /\ LET t == redirect[r][2] IN
          IF ~Elsewhere(r, t) THEN Goto(r, "redirect") /\ UNCHANGED fallback
          ELSE IF Registered(t)
            THEN Goto(r, "redirect") /\ fallback' = [fallback EXCEPT ![r] = ClientOf(t)]
            ELSE Goto(r, "createBackup") /\ UNCHANGED fallback
    /\ UNCHANGED <<tableVars, atomicVars, coordinatorDown, refreshVars, removed, current, result,
                   localVars, ghostVars, shutPc, crashed>>

CreateBackup(r) ==
    /\ pc[r] = "createBackup"
    /\ LET t == redirect[r][2] IN
          /\ CreateByTarget(t)
          /\ fallback' = [fallback EXCEPT ![r] = <<t, byTarget'[t]>>]
    /\ Goto(r, "redirect")
    /\ UNCHANGED <<maxShards, route, down, atomicVars, coordinatorDown, refreshVars, removed, current,
                   result, localVars, ghostVars, shutPc, crashed>>

\* The recursive call of attemptWithGuard, or the original exception.
Redirect(r) ==
    /\ pc[r] = "redirect"
    /\ \/ /\ newMaster[r] # NoClient
          /\ Goto(r, "send")
          /\ current' = [current EXCEPT ![r] = newMaster[r]]
          /\ tries' = [tries EXCEPT ![r] = 0]
          /\ UNCHANGED <<fallback, result>>
       \/ /\ newMaster[r] = NoClient
          /\ fallback[r] # NoClient /\ fallback[r] # current[r]
          /\ Goto(r, "send")
          /\ current' = [current EXCEPT ![r] = fallback[r]]
          /\ fallback' = [fallback EXCEPT ![r] = NoClient]
          /\ tries' = [tries EXCEPT ![r] = 0]
          /\ UNCHANGED result
       \/ /\ newMaster[r] = NoClient
          /\ fallback[r] = NoClient \/ fallback[r] = current[r]
          /\ Resolve(r, "error")
          /\ UNCHANGED tries
    /\ newMaster' = [newMaster EXCEPT ![r] = NoClient]             \* not read any more
    /\ redirect' = [redirect EXCEPT ![r] = <<NoTarget, NoTarget>>]
    /\ UNCHANGED <<tableVars, atomicVars, coordinatorDown, refreshVars, removed, shard, mode,
                   redirects, unavailable, applied, shutPc, crashed>>

-----------------------------------------------------------------------------
(* setMode, clearModeOverride and shutdown, on the caller's thread.         *)

SetMode(m) ==
    /\ modeOverride # m
    /\ modeOverride' = m
    /\ UNCHANGED <<tableVars, isReady, isUpdating, shutdownRequested, activeCoordinator, randomCounter,
                   coordinatorDown, refreshVars, removed, requestVars, shutPc, crashed>>

ClearModeOverride ==
    /\ modeOverride # "none"
    /\ modeOverride' = "none"
    /\ UNCHANGED <<tableVars, isReady, isUpdating, shutdownRequested, activeCoordinator, randomCounter,
                   coordinatorDown, refreshVars, removed, requestVars, shutPc, crashed>>

Closing(from, to) == shutPc = from /\ shutPc' = to

ShutdownBegin ==
    /\ Closing("idle", "join")
    /\ shutdownRequested' = TRUE
    /\ UNCHANGED <<tableVars, isReady, isUpdating, modeOverride, activeCoordinator, randomCounter,
                   coordinatorDown, refreshVars, removed, requestVars, crashed>>

JoinRefreshThread ==
    /\ Closing("join", "unready")
    /\ rpc["periodic"] = "exited"
    /\ UNCHANGED <<tableVars, atomicVars, coordinatorDown, refreshVars, removed, requestVars, crashed>>

ShutdownUnready ==
    /\ Closing("unready", "notify")
    /\ isReady' = FALSE
    /\ UNCHANGED <<tableVars, isUpdating, shutdownRequested, modeOverride, activeCoordinator,
                   randomCounter, coordinatorDown, refreshVars, removed, requestVars, crashed>>

\* Mutant: ready_cv_ is not notified.
ShutdownNoNotify ==
    /\ Closing("notify", "coordinator")
    /\ UNCHANGED <<tableVars, atomicVars, coordinatorDown, refreshVars, removed, requestVars, crashed>>

ShutdownNotify ==
    /\ Closing("notify", "coordinator")
    /\ NotifyAll
    /\ UNCHANGED <<tableVars, atomicVars, coordinatorDown, refreshVars, removed, current, fallback,
                   result, localVars, ghostVars, crashed>>

\* CoordinatorClient::shutdown: the flag, then the queue is drained and joined.
CoordinatorShutdown ==
    /\ Closing("coordinator", "coordinatorJoin")
    /\ coordinatorDown' = TRUE
    /\ UNCHANGED <<tableVars, atomicVars, refreshVars, removed, requestVars, crashed>>

CoordinatorJoined ==
    /\ Closing("coordinatorJoin", "table")
    /\ \A h \in Refreshers : rpc[h] # "fetching"
    /\ UNCHANGED <<tableVars, atomicVars, coordinatorDown, refreshVars, removed, requestVars, crashed>>

TableShutdown ==
    /\ Closing("table", "retire")
    /\ ClearTable
    /\ removed' = [removed EXCEPT !["closer"] = RegisteredClients]
    /\ UNCHANGED <<maxShards, gen, down, atomicVars, coordinatorDown, refreshVars, requestVars, crashed>>

ShutdownEnd ==
    /\ Closing("retire", "done")
    /\ removed["closer"] = {}
    /\ UNCHANGED <<tableVars, atomicVars, coordinatorDown, refreshVars, removed, requestVars, crashed>>

-----------------------------------------------------------------------------
Refresh(h) ==
    \/ RefreshEnter(h) \/ RefreshCas(h) \/ FetchStart(h) \/ FetchOk(h) \/ FetchFail(h)
    \/ Install(h) \/ Retired(h) \/ Publish(h) \/ RefreshNotify(h) \/ RefreshRelease(h)

Retire(h) == ShutClient(h) \/ ClientShut(h)

Answer(r) == AnswerValue(r) \/ AnswerError(r) \/ AnswerUnavailable(r) \/ AnswerRedirect(r)

Request(r) ==
    \/ WaitReady(r) \/ WaitPredicate(r) \/ WaitTimeout(r)
    \/ PickShard(r) \/ GetMaster(r) \/ GetBackup(r) \/ Send(r) \/ Answer(r)
    \/ FindMaster(r) \/ CreateMaster(r) \/ FindBackup(r) \/ CreateBackup(r) \/ Redirect(r)

ShutdownStep ==
    \/ JoinRefreshThread \/ ShutdownUnready \/ ShutdownNotify \/ CoordinatorShutdown
    \/ CoordinatorJoined \/ TableShutdown \/ ShutdownEnd

Next ==
    \/ PeriodicWake
    \/ \E h \in Refreshers : Refresh(h)
    \/ \E h \in Refreshers \cup {"closer"} : Retire(h)
    \/ \E r \in Requests : Execute(r) \/ Request(r)
    \/ \E m \in Modes : SetMode(m)
    \/ ClearModeOverride
    \/ ShutdownBegin
    \/ ShutdownStep

Spec == Init /\ [][Next]_vars

(***************************************************************************)
(* Threads run and the wait for readiness times out.  A call in flight     *)
(* comes back for certain only with a deadline: buildGrpcContext sets one  *)
(* when the call's or the client's timeout is positive, and both default   *)
(* to 0.  (A fetch of the coordinator always has one.)  Nobody has to call *)
(* the client.                                                             *)
(***************************************************************************)
Fairness ==
    /\ WF_vars(PeriodicWake)
    /\ \A h \in Refreshers : WF_vars(Refresh(h))
    /\ \A h \in Refreshers \cup {"closer"} : WF_vars(Retire(h))
    /\ \A r \in Requests : WF_vars(pc[r] # "inFlight" /\ Request(r))
    /\ \A r \in Deadlined : WF_vars(Answer(r))
    /\ WF_vars(ShutdownStep)

FairSpec == Spec /\ Fairness

-----------------------------------------------------------------------------
(* Properties.                                                              *)

(***************************************************************************)
(* is_updating_ is set exactly while one thread is inside refreshRouting:  *)
(* two updates never run together, and no return path leaves the flag set  *)
(* (which would end topology refresh for good).                            *)
(***************************************************************************)
Updating(h) == rpc[h] \in {"fetch", "fetching", "install", "retire", "publish", "notify", "release"}

OneUpdateAtATime ==
    /\ \A h, i \in Refreshers : Updating(h) /\ Updating(i) => h = i
    /\ isUpdating <=> \E h \in Refreshers : Updating(h)

(***************************************************************************)
(* Every client ever created is shut down, or is in the table, or is on    *)
(* the list of a thread that is about to shut it down -- and a client in   *)
(* the table is neither down nor on such a list.  Updates, redirects that  *)
(* create clients and shutdown() race for the table; none of them loses a  *)
(* client (its thread and channel would leak) or routes to a dead one.     *)
(***************************************************************************)
ClientsAccountedFor ==
    \A t \in Targets : \A g \in 1 .. gen[t] :
        LET client == <<t, g>>
            listed == \E h \in Refreshers \cup {"closer"} : client \in removed[h]
        IN /\ client \in down \/ client \in RegisteredClients \/ listed
           /\ client \in RegisteredClients => client \notin down /\ ~listed

(***************************************************************************)
(* A waiter of ready_cv_ is never left asleep once its predicate holds and *)
(* the notification that goes with it has been sent.                       *)
(***************************************************************************)
NoLostWakeup ==
    \A r \in Requests : pc[r] = "asleep" =>
        /\ isReady => \E h \in Refreshers : rpc[h] = "notify"
        /\ shutdownRequested => shutPc \in {"join", "unready", "notify"}

(***************************************************************************)
(* Failover is bounded: without a new redirect a request is sent to at     *)
(* most two clients, and to a second one only in a mode that has a         *)
(* fallback, or after a redirect.                                          *)
(***************************************************************************)
FailoverIsBounded ==
    \A r \in Requests :
        /\ tries[r] <= 2
        /\ tries[r] = 2 /\ redirects[r] = 0 => mode[r] \in {"LB_SMART", "MASTER_THAN_BACKUP"}

(***************************************************************************)
(* A request is carried out twice only after an UNAVAILABLE answer: no     *)
(* other error and no redirect makes the client repeat a request that a    *)
(* server may have applied.                                                *)
(***************************************************************************)
RepeatsOnlyAfterUnavailable ==
    \A r \in Requests : applied[r] <= 1 + unavailable[r]

(***************************************************************************)
(* Neither a shard computed modulo zero nor a null client.                 *)
(***************************************************************************)
NoUndefinedBehaviour == ~crashed

(***************************************************************************)
(* isReady() means a topology is loaded (README: "Check if client is ready *)
(* (topology loaded)"), as long as nobody has called shutdown(): no update *)
(* publishes readiness before the table holds what it fetched.             *)
(***************************************************************************)
ReadyMeansTopology == isReady /\ ~shutdownRequested => RegisteredClients # {}

(***************************************************************************)
(* A request that met no redirect goes to a node that some topology a      *)
(* coordinator published assigns to the shard of its key (README: "Routes  *)
(* requests to correct shard based on key hash").                          *)
(***************************************************************************)
Serves(T, t, s) == \E i \in DOMAIN T.peers : T.peers[i].target = t /\ s \in T.peers[i].partitionids

RoutedToCorrectShard ==
    \A r \in Requests : pc[r] = "inFlight" /\ redirects[r] = 0 /\ Hash[r] # NoHint =>
        \E T \in Topologies : T.max > 0 /\ Serves(T, current[r][1], Hash[r] % T.max)

(***************************************************************************)
(* A refresh that gives up has asked every coordinator, starting with the  *)
(* one that answered last.                                                 *)
(***************************************************************************)
GivesUpOnlyAfterAll ==
    [][\A h \in Refreshers :
         rpc[h] \in {"fetch", "fetching"} /\ rpc'[h] = "release"
            => {(base[h] + i) % NCoordinators : i \in 0 .. attempt[h]} = 0 .. NCoordinators - 1]_vars

(***************************************************************************)
(* Every request with a deadline gets a result: no refresh, failover or    *)
(* shutdown, and no other request that hangs, leaves it waiting for ever.  *)
(***************************************************************************)
RequestsResolve == \A r \in Deadlined : pc[r] = "waitReady" ~> pc[r] = "done"

\* The servers answer the requests that have no deadline.
NoneHangs == \A r \in Requests \ Deadlined : []<>(pc[r] # "inFlight")

(***************************************************************************)
(* shutdown() returns unless a request without a deadline hangs: it waits  *)
(* for the refresh thread, the coordinator call and the calls in flight,   *)
(* and none of these waits for it.                                         *)
(***************************************************************************)
ShutdownReturns == NoneHangs => (shutdownRequested ~> shutPc = "done")

(***************************************************************************)
(* Every refresh ends and lets the next one in, unless a request without a *)
(* deadline hangs: an update shuts down the clients it retires, and waits. *)
(***************************************************************************)
RefreshEnds == NoneHangs => (isUpdating ~> ~isUpdating)

(***************************************************************************)
(* Every refresh ends and lets the next one in, whatever the nodes do      *)
(* (README: "Periodic Topology Refresh: Background thread fetches routing  *)
(* info every 30 seconds").  The code does not see to it: an update that   *)
(* retires the client of a hung node stays in its shutdown().              *)
(***************************************************************************)
TopologyKeepsRefreshing == isUpdating ~> ~isUpdating

=============================================================================

--------------------------- MODULE SmartTableProofs ---------------------------
(***************************************************************************)
(* Proofs about the routing table of SmartClient and the clients it owns:  *)
(* routes lead to registered clients, no client is lost, none is dead      *)
(* while it is in the table, and a ready client has a topology.            *)
(*                                                                         *)
(* TableSteps lists the few steps that touch the table or the lists of     *)
(* clients to shut down; each invariant is then shown for these only.      *)
(***************************************************************************)
EXTENDS SmartClientProofs

\* The threads that take clients out of the table.
Threads == Refreshers \cup {"closer"}

-----------------------------------------------------------------------------
(* The table and its steps.                                                  *)

\* A client is in the table when it is the current generation of its target.
LEMMA InTable ==
    ASSUME NEW bt \in [Targets -> Nat], NEW t \in Targets, NEW g \in Nat \ {0}
    PROVE  <<t, g>> \in {<<x, bt[x]>> : x \in {y \in Targets : bt[y] # 0}} <=> bt[t] = g
OBVIOUS

\* Creating a client for a target, as the redirect of a request does it.
Creates(t) == CreateByTarget(t) /\ UNCHANGED <<maxShards, route, down, removed>>

\* A request changes the table only by creating a client, and replaces none.
LEMMA RequestsCreate ==
    ASSUME TypeInv, NEW r \in Requests, Execute(r) \/ Request(r)
    PROVE  /\ (\E t \in Targets : Creates(t)) \/ UNCHANGED <<tableVars, removed>>
           /\ \A t \in Targets : Registered(t) => byTarget'[t] = byTarget[t]
<1>1. (\E t \in Targets : Creates(t)) \/ UNCHANGED <<tableVars, removed>>
  <2>1. CASE CreateMaster(r)
    BY <2>1 DEF CreateMaster, Creates, TypeInv, NamedInv
  <2>2. CASE CreateBackup(r)
    BY <2>2 DEF CreateBackup, Creates, TypeInv, NamedInv
  <2>3. CASE ~CreateMaster(r) /\ ~CreateBackup(r)
    BY <2>3 DEF Execute, Request, Answer, WaitReady, WaitPredicate, WaitTimeout, PickShard,
              GetMaster, GetBackup, Send, AnswerValue, AnswerError, AnswerUnavailable, AnswerRedirect,
              FindMaster, FindBackup, Redirect
  <2> QED
    BY <2>1, <2>2, <2>3
<1>2. ASSUME NEW t \in Targets, Creates(t), NEW x \in Targets, Registered(x)
      PROVE  byTarget'[x] = byTarget[x]
  BY <1>2 DEF Creates, CreateByTarget, Registered, TypeInv, TypeOK, TableTypeOK
<1> QED
  BY <1>1, <1>2 DEF tableVars

\* The steps that touch the table or the clients to shut down.
LEMMA TableSteps ==
    ASSUME TypeInv, [Next]_vars
    PROVE  \/ \E h \in Refreshers : Install(h)
           \/ \E h \in Threads : Retire(h)
           \/ \E t \in Targets : Creates(t)
           \/ TableShutdown
           \/ UNCHANGED <<tableVars, removed>>
<1>1. ASSUME NEW h \in Refreshers, Refresh(h) PROVE Install(h) \/ UNCHANGED <<tableVars, removed>>
  BY <1>1 DEF Refresh, RefreshEnter, RefreshCas, FetchStart, FetchOk, FetchFail, Retired, Publish,
              RefreshNotify, RefreshRelease
<1>2. ASSUME NEW r \in Requests, Execute(r) \/ Request(r)
      PROVE  (\E t \in Targets : Creates(t)) \/ UNCHANGED <<tableVars, removed>>
  BY <1>2, RequestsCreate
<1>3. CASE OtherStep \/ UNCHANGED vars
  BY <1>3 DEF OtherStep, PeriodicWake, ShutdownBegin, ShutdownStep, JoinRefreshThread, ShutdownUnready,
              ShutdownNotify, CoordinatorShutdown, CoordinatorJoined, ShutdownEnd, ClearModeOverride,
              SetMode, Threads, vars
<1> QED
  BY <1>1, <1>2, <1>3 DEF Next, OtherStep

-----------------------------------------------------------------------------
(* Routes.                                                                   *)

LEMMA RoutesStep == TypeInv /\ RoutesAreRegistered /\ [Next]_vars => RoutesAreRegistered'
<1> SUFFICES ASSUME TypeInv, RoutesAreRegistered, [Next]_vars PROVE RoutesAreRegistered'
  OBVIOUS
<1>1. TableTypeOK /\ TableTypeOK'
  BY TypeInductive DEF TypeInv, TypeOK
<1>2. ASSUME NEW h \in Refreshers, Install(h) PROVE RoutesAreRegistered'
  <2> DEFINE T == reply[h]
  <2>1. T \in Topologies /\ UpdateFromCoordinator(T)
    BY <1>2 DEF Install, TypeInv, FetchedInv
  <2> HIDE DEF T
  <2>2. /\ byTarget' \in [Targets -> Nat] /\ route' = RoutesOf(T, byTarget')
        /\ \A t \in NewTargets(T) : t \in Targets /\ byTarget'[t] # 0
    BY <1>1, <2>1, UpdateTypes
  <2>3. \A k \in Roles \X Shards : route'[k] # NoClient =>
           \E t \in NewTargets(T) : route'[k] = <<t, byTarget'[t]>>
    BY <2>1, <2>2, RoutesAreClients
  <2> QED
    BY <2>2, <2>3 DEF RoutesAreRegistered, RegisteredClients, ClientOf, Registered
<1>3. ASSUME NEW t \in Targets, Creates(t) PROVE RoutesAreRegistered'
  <2>1. route' = route /\ \A x \in Targets : byTarget[x] # 0 => byTarget'[x] = byTarget[x]
    BY <1>1, <1>3 DEF Creates, CreateByTarget, Registered, TableTypeOK
  <2>2. RegisteredClients \subseteq RegisteredClients'
    BY <2>1 DEF RegisteredClients, ClientOf, Registered
  <2> QED
    BY <2>1, <2>2 DEF RoutesAreRegistered
<1>4. CASE TableShutdown
  BY <1>4 DEF TableShutdown, ClearTable, RoutesAreRegistered
<1>5. CASE (\E h \in Threads : Retire(h)) \/ UNCHANGED <<tableVars, removed>>
  <2>1. UNCHANGED <<route, byTarget>>
    BY <1>5 DEF Retire, ShutClient, ClientShut, tableVars
  <2> QED
    BY <2>1 DEF RoutesAreRegistered, RegisteredClients, ClientOf, Registered
<1> QED
  BY <1>2, <1>3, <1>4, <1>5, TableSteps

(***************************************************************************)
(* No dangling route: an entry of the routing table always names a client  *)
(* the table owns, whatever topologies, redirects and shutdown() do to it. *)
(***************************************************************************)
THEOREM RoutesStayRegistered == Spec => []RoutesAreRegistered
<1>1. Init => RoutesAreRegistered
  BY DEF Init, TableInit, RoutesAreRegistered
<1> QED
  BY <1>1, RoutesStep, TypeInvariance, PTL DEF Spec

-----------------------------------------------------------------------------
(* No client is lost.                                                        *)

(***************************************************************************)
(* A client has at most the generation its target has reached, so one that *)
(* is created now is neither down nor on a list; and only a thread that is *)
(* shutting clients down has a list, so an update overwrites an empty one. *)
(***************************************************************************)
Exists(c) == c \in Client /\ c[2] <= gen[c[1]]

ExistInv ==
    /\ \A t \in Targets : byTarget[t] <= gen[t]
    /\ \A c \in down : Exists(c)
    /\ \A h \in Threads : \A c \in removed[h] : Exists(c)

ListInv == \A h \in Threads : removed[h] # {} => Retiring(h)

\* ClientsAccountedFor, for one client.
Listed(c) == \E h \in Threads : c \in removed[h]

Accounted(t, g) ==
    /\ <<t, g>> \in down \/ byTarget[t] = g \/ Listed(<<t, g>>)
    /\ byTarget[t] = g => <<t, g>> \notin down /\ ~Listed(<<t, g>>)

AccountInv == \A t \in Targets : \A g \in 1 .. gen[t] : Accounted(t, g)

OwnedInv == ExistInv /\ ListInv /\ AccountInv

LEMMA AccountMeaning == TypeInv => (AccountInv <=> ClientsAccountedFor)
<1> SUFFICES ASSUME TypeInv PROVE AccountInv <=> ClientsAccountedFor
  OBVIOUS
<1>1. gen \in [Targets -> Nat] /\ byTarget \in [Targets -> Nat]
  BY DEF TypeInv, TypeOK, TableTypeOK
<1>2. RegisteredClients = {<<x, byTarget[x]>> : x \in {y \in Targets : byTarget[y] # 0}}
  BY DEF RegisteredClients, ClientOf, Registered
<1>3. \A t \in Targets : \A g \in 1 .. gen[t] : g \in Nat \ {0}
  BY <1>1
<1>4. \A t \in Targets : \A g \in 1 .. gen[t] : <<t, g>> \in RegisteredClients <=> byTarget[t] = g
  BY <1>1, <1>2, <1>3, InTable
<1> QED
  BY <1>4 DEF AccountInv, Accounted, Listed, ClientsAccountedFor, Threads

LEMMA OwnedInit == Init => OwnedInv
<1> SUFFICES ASSUME Init PROVE OwnedInv
  OBVIOUS
<1>1. ExistInv /\ ListInv
  BY DEF Init, TableInit, ExistInv, ListInv, Threads
<1>2. \A t \in Targets : 1 .. gen[t] = {}
  BY DEF Init, TableInit
<1> QED
  BY <1>1, <1>2 DEF OwnedInv, AccountInv

\* The list of a thread outlives the steps of the others.
LEMMA ListStep == TypeInv /\ ListInv /\ [Next]_vars => ListInv'
<1> SUFFICES ASSUME TypeInv, ListInv, [Next]_vars, NEW h \in Threads, removed'[h] # {}
             PROVE  Retiring(h)'
  BY DEF ListInv
<1> USE DEF TypeInv, TypeOK, RefreshTypeOK, ListInv, Retiring
<1>1. "closer" \notin Refreshers
  BY SmartAssumption DEF Refreshers
<1>2. ASSUME NEW g \in Refreshers, Refresh(g) PROVE Retiring(h)'
  <2>1. shutPc' = shutPc
    BY <1>2 DEF Refresh, RefreshEnter, RefreshCas, FetchStart, FetchOk, FetchFail, Install, Retired,
                Publish, RefreshNotify, RefreshRelease
  <2>2. \E label \in RefreshLabels : At(g, label)
    BY <1>2 DEF Refresh, RefreshEnter, RefreshCas, FetchStart, FetchOk, FetchFail, Install, Retired,
                Publish, RefreshNotify, RefreshRelease, NextCoordinator, Leave, RefreshLabels
  <2>3. CASE Install(g)
    BY <1>1, <2>1, <2>3 DEF Install, At, Threads
  <2>4. CASE ~Install(g)
    <3>1. removed' = removed
      BY <1>2, <2>4 DEF Refresh, RefreshEnter, RefreshCas, FetchStart, FetchOk, FetchFail, Retired,
                Publish, RefreshNotify, RefreshRelease
    <3>2. CASE g = h
      BY <1>1, <1>2, <2>4, <3>1, <3>2 DEF Refresh, RefreshEnter, RefreshCas, FetchStart, FetchOk,
                FetchFail, Retired, Publish, RefreshNotify, RefreshRelease
    <3>3. CASE g # h
      BY <1>1, <2>1, <2>2, <3>1, <3>3 DEF At, Threads
    <3> QED
      BY <3>2, <3>3
  <2> QED
    BY <2>3, <2>4
<1>3. ASSUME NEW r \in Requests, Execute(r) \/ Request(r) PROVE Retiring(h)'
  <2>1. /\ removed' = removed /\ shutPc' = shutPc
        /\ \A g \in Refreshers : rpc[g] = "retire" => rpc'[g] = "retire"
    BY <1>3, RequestsStartRefreshers DEF At
  <2> QED
    BY <2>1 DEF Threads
<1>4. CASE OtherStep \/ UNCHANGED vars
  <2>1. \A g \in Refreshers : rpc[g] = "retire" => rpc'[g] = "retire"
    BY <1>4, OthersLeaveRefreshers DEF At
  <2>2. CASE TableShutdown
    BY <2>1, <2>2 DEF TableShutdown, Closing, Threads
  <2>3. ASSUME NEW g \in Threads, Retire(g)
        PROVE  shutPc' = shutPc /\ (removed'[h] # {} => removed[h] # {})
    BY <2>3 DEF Retire, ShutClient, ClientShut, Threads
  <2>4. CASE ShutdownEnd
    BY <2>1, <2>4 DEF ShutdownEnd, Closing, Threads
  <2>5. CASE ~TableShutdown /\ ~ShutdownEnd /\ ~\E g \in Threads : Retire(g)
    <3>1. removed' = removed /\ (shutPc = "retire" => shutPc' = "retire")
      BY <1>4, <2>5 DEF OtherStep, PeriodicWake, ShutdownBegin, ShutdownStep, JoinRefreshThread,
            ShutdownUnready, ShutdownNotify, CoordinatorShutdown, CoordinatorJoined, ClearModeOverride,
            SetMode, Closing, Threads, vars
    <3> QED
      BY <2>1, <3>1 DEF Threads
  <2> QED
    BY <2>1, <2>2, <2>3, <2>4, <2>5 DEF Threads
<1> QED
  BY <1>2, <1>3, <1>4 DEF Next, OtherStep

\* What was created is accounted for; what is created now has never been anywhere.
LEMMA OwnedFacts ==
    ASSUME TypeInv, OwnedInv
    PROVE  /\ byTarget \in [Targets -> Nat] /\ gen \in [Targets -> Nat]
           /\ \A t \in Targets : byTarget[t] <= gen[t]
           /\ \A t \in Targets, g \in Nat : g > gen[t] =>
                 <<t, g>> \notin down /\ ~Listed(<<t, g>>)
<1> USE DEF TypeInv, TypeOK, TableTypeOK
<1>1. byTarget \in [Targets -> Nat] /\ gen \in [Targets -> Nat] /\ \A t \in Targets : byTarget[t] <= gen[t]
  BY DEF OwnedInv, ExistInv
<1>2. ASSUME NEW t \in Targets, NEW g \in Nat, g > gen[t] PROVE ~Exists(<<t, g>>)
  BY <1>1, <1>2 DEF Exists
<1> QED
  BY <1>1, <1>2 DEF OwnedInv, ExistInv, Listed

\* An update: what it takes out goes on the list of h, which was empty.
LEMMA InstallOwned ==
    ASSUME TypeInv, OwnedInv, NEW h \in Refreshers, Install(h)
    PROVE  ExistInv' /\ AccountInv'
<1> DEFINE T == reply[h]
<1>1. T \in Topologies /\ UpdateFromCoordinator(T) /\ TableTypeOK /\ down' = down
  BY DEF Install, TypeInv, TypeOK, FetchedInv
<1>2. removed[h] = {}
  <2>1. h # "closer"
    BY SmartAssumption DEF Refreshers
  <2> QED
    BY <2>1 DEF OwnedInv, ListInv, Threads, Retiring, Install
<1>3. removed' = [removed EXCEPT ![h] = RemovedClients(T)] /\ h \in DOMAIN removed
  BY DEF Install, TypeInv, TypeOK, RefreshTypeOK
<1>4. \A k \in Threads : removed'[k] = IF k = h THEN RemovedClients(T) ELSE removed[k]
  BY <1>3 DEF TypeInv, TypeOK, RefreshTypeOK, Threads
<1> HIDE DEF T
<1>5. /\ byTarget \in [Targets -> Nat] /\ gen \in [Targets -> Nat]
      /\ \A t \in Targets : byTarget[t] <= gen[t]
      /\ \A t \in Targets, g \in Nat : g > gen[t] => <<t, g>> \notin down /\ ~Listed(<<t, g>>)
  BY OwnedFacts
<1>6. /\ gen' = CreateMissing(T) /\ gen' \in [Targets -> Nat] /\ byTarget' \in [Targets -> Nat]
      /\ \A t \in Targets :
            byTarget'[t] = IF t \notin NewTargets(T) THEN 0
                           ELSE IF Registered(t) THEN byTarget[t] ELSE gen[t] + 1
  BY <1>1, UpdateTypes
<1>7. \A t \in Targets : gen'[t] = IF t \in NewTargets(T) /\ ~Registered(t) THEN gen[t] + 1 ELSE gen[t]
  BY <1>6 DEF CreateMissing
<1>8. \A t \in Targets, g \in Nat \ {0} :
         <<t, g>> \in RemovedClients(T) <=> byTarget[t] = g /\ t \notin NewTargets(T)
  BY <1>5 DEF RemovedClients, ClientOf, Registered
<1>9. ExistInv'
  <2>1. \A c : Exists(c) => Exists(c)'
    <3>1. \A t \in Targets : gen[t] <= gen'[t]
      BY <1>5, <1>7
    <3>2. ASSUME NEW t \in Targets, NEW g \in Nat \ {0}, g <= gen[t] PROVE g <= gen'[t]
      BY <1>5, <1>6, <3>1, <3>2
    <3> QED
      BY <3>2 DEF Exists, Client
  <2>2. \A c \in RemovedClients(T) : Exists(c)
    <3>1. ASSUME NEW t \in Targets, Registered(t) PROVE Exists(ClientOf(t))
      BY <1>5, <3>1 DEF Exists, ClientOf, Client, Registered
    <3> QED
      BY <3>1 DEF RemovedClients
  <2>3. \A t \in Targets : byTarget'[t] <= gen'[t]
    <3>1. ASSUME NEW t \in Targets PROVE byTarget'[t] <= gen'[t]
      BY <1>5, <1>6, <1>7 DEF Registered
    <3> QED
      BY <3>1
  <2> QED
    BY <1>1, <1>4, <2>1, <2>2, <2>3 DEF ExistInv, OwnedInv
<1>10. ASSUME NEW t \in Targets, NEW g \in 1 .. gen'[t] PROVE Accounted(t, g)'
  <2>1. g \in Nat \ {0}
    BY <1>6
  <2>2. Listed(<<t, g>>)' <=> Listed(<<t, g>>) \/ <<t, g>> \in RemovedClients(T)
    BY <1>2, <1>4 DEF Listed, Threads
  <2>3. CASE g <= gen[t]
    <3>1. Accounted(t, g)
      BY <1>5, <2>1, <2>3 DEF OwnedInv, AccountInv
    <3>2. g # gen[t] + 1
      BY <1>5, <2>1, <2>3
    <3> QED
      BY <1>1, <1>6, <1>8, <2>1, <2>2, <3>1, <3>2 DEF Accounted, Registered
  <2>4. CASE ~(g <= gen[t])
    <3>1. g > gen[t]
      BY <1>5, <2>1, <2>4
    <3>2. t \in NewTargets(T) /\ ~Registered(t) /\ g = gen[t] + 1
      BY <1>5, <1>7, <2>1, <2>4
    <3>3. <<t, g>> \notin down /\ ~Listed(<<t, g>>)
      BY <1>5, <2>1, <3>1
    <3> QED
      BY <1>1, <1>6, <1>8, <2>1, <2>2, <3>2, <3>3 DEF Accounted
  <2> QED
    BY <2>3, <2>4
<1> QED
  BY <1>9, <1>10 DEF AccountInv

\* A redirect that creates a client: the recheck under the lock leaves a registered one alone.
LEMMA CreateOwned ==
    ASSUME TypeInv, OwnedInv, NEW x \in Targets, Creates(x)
    PROVE  ExistInv' /\ AccountInv'
<1>1. down' = down /\ removed' = removed
  BY DEF Creates
<1>2. /\ byTarget \in [Targets -> Nat] /\ gen \in [Targets -> Nat]
      /\ \A t \in Targets : byTarget[t] <= gen[t]
      /\ \A t \in Targets, g \in Nat : g > gen[t] => <<t, g>> \notin down /\ ~Listed(<<t, g>>)
  BY OwnedFacts
<1>3. CASE Registered(x)
  <2>1. gen' = gen /\ byTarget' = byTarget
    BY <1>3 DEF Creates, CreateByTarget
  <2> QED
    BY <1>1, <2>1 DEF OwnedInv, ExistInv, AccountInv, Accounted, Listed, Exists
<1>4. CASE ~Registered(x)
  <2>1. \A t \in Targets : /\ gen'[t] = IF t = x THEN gen[x] + 1 ELSE gen[t]
                           /\ byTarget'[t] = IF t = x THEN gen[x] + 1 ELSE byTarget[t]
    BY <1>2, <1>4 DEF Creates, CreateByTarget
  <2>2. byTarget[x] = 0
    BY <1>4 DEF Registered
  <2>3. ExistInv'
    <3>1. ASSUME NEW t \in Targets PROVE byTarget'[t] <= gen'[t]
      BY <1>2, <2>1
    <3>2. ASSUME NEW t \in Targets, NEW g \in Nat, g <= gen[t] PROVE g <= gen'[t]
      BY <1>2, <2>1, <3>2
    <3>3. \A c : Exists(c) => Exists(c)'
      BY <3>2 DEF Exists, Client
    <3> QED
      BY <1>1, <3>1, <3>3 DEF OwnedInv, ExistInv
  <2>4. ASSUME NEW t \in Targets, NEW g \in 1 .. gen'[t] PROVE Accounted(t, g)'
    <3>1. g \in Nat \ {0}
      BY <1>2, <2>1
    <3>2. CASE g <= gen[t]
      <4>1. Accounted(t, g)
        BY <1>2, <3>1, <3>2 DEF OwnedInv, AccountInv
      <4>2. byTarget'[t] = g <=> byTarget[t] = g
        BY <1>2, <2>1, <2>2, <3>1, <3>2
      <4> QED
        BY <1>1, <4>1, <4>2 DEF Accounted, Listed
    <3>3. CASE ~(g <= gen[t])
      <4>1. g > gen[t] /\ t = x /\ g = gen[x] + 1
        BY <1>2, <2>1, <3>1, <3>3
      <4>2. <<t, g>> \notin down /\ ~Listed(<<t, g>>)
        BY <1>2, <3>1, <4>1
      <4> QED
        BY <1>1, <2>1, <4>1, <4>2 DEF Accounted, Listed
    <3> QED
      BY <3>2, <3>3
  <2> QED
    BY <2>3, <2>4 DEF AccountInv
<1> QED
  BY <1>3, <1>4

\* A thread shuts down a client on its list, or is done with one.
LEMMA RetireOwned ==
    ASSUME TypeInv, OwnedInv, NEW h \in Threads, Retire(h)
    PROVE  ExistInv' /\ AccountInv'
<1>1. gen' = gen /\ byTarget' = byTarget
  BY DEF Retire, ShutClient, ClientShut, tableVars
<1>2. removed \in [Threads -> SUBSET Client]
  BY DEF TypeInv, TypeOK, RefreshTypeOK, Threads
<1>3. CASE ShutClient(h)
  <2>1. PICK c \in removed[h] : down' = down \cup {c}
    BY <1>3 DEF ShutClient
  <2>2. removed' = removed /\ Listed(c)
    BY <1>3, <2>1 DEF ShutClient, Listed
  <2>3. ExistInv'
    BY <1>1, <2>1, <2>2 DEF OwnedInv, ExistInv, Exists
  <2>4. ASSUME NEW t \in Targets, NEW g \in 1 .. gen[t] PROVE Accounted(t, g)'
    <3>1. Accounted(t, g)
      BY DEF OwnedInv, AccountInv
    <3>2. Listed(<<t, g>>)' <=> Listed(<<t, g>>)
      BY <2>2 DEF Listed
    <3> QED
      BY <1>1, <2>1, <2>2, <3>1, <3>2 DEF Accounted
  <2> QED
    BY <1>1, <2>3, <2>4 DEF AccountInv
<1>4. CASE ClientShut(h)
  <2>1. PICK c \in removed[h] \cap down : removed' = [removed EXCEPT ![h] = @ \ {c}]
    BY <1>4 DEF ClientShut
  <2>2. down' = down
    BY <1>4 DEF ClientShut, tableVars
  <2>3. \A k \in Threads : removed'[k] = IF k = h THEN removed[h] \ {c} ELSE removed[k]
    BY <1>2, <2>1
  <2>4. ExistInv'
    BY <1>1, <2>2, <2>3 DEF OwnedInv, ExistInv, Exists
  <2>5. ASSUME NEW t \in Targets, NEW g \in 1 .. gen[t] PROVE Accounted(t, g)'
    <3>1. Accounted(t, g)
      BY DEF OwnedInv, AccountInv
    <3>2. Listed(<<t, g>>)' => Listed(<<t, g>>)
      BY <2>3 DEF Listed
    <3>3. Listed(<<t, g>>) => Listed(<<t, g>>)' \/ <<t, g>> \in down
      BY <2>1, <2>3 DEF Listed
    <3> QED
      BY <1>1, <2>2, <3>1, <3>2, <3>3 DEF Accounted
  <2> QED
    BY <1>1, <2>4, <2>5 DEF AccountInv
<1> QED
  BY <1>3, <1>4 DEF Retire

\* shutdown() takes every client out of the table.
LEMMA ShutdownOwned ==
    ASSUME TypeInv, OwnedInv, TableShutdown
    PROVE  ExistInv' /\ AccountInv'
<1>1. gen' = gen /\ down' = down /\ \A t \in Targets : byTarget'[t] = 0
  BY DEF TableShutdown, ClearTable
<1>2. removed["closer"] = {}
  BY DEF TableShutdown, Closing, OwnedInv, ListInv, Threads, Retiring
<1>3. \A k \in Threads : removed'[k] = IF k = "closer" THEN RegisteredClients ELSE removed[k]
  BY DEF TableShutdown, TypeInv, TypeOK, RefreshTypeOK, Threads
<1>4. /\ byTarget \in [Targets -> Nat] /\ gen \in [Targets -> Nat]
      /\ \A t \in Targets : byTarget[t] <= gen[t]
  BY OwnedFacts
<1>5. \A t \in Targets, g \in Nat \ {0} : <<t, g>> \in RegisteredClients <=> byTarget[t] = g
  BY <1>4 DEF RegisteredClients, ClientOf, Registered
<1>6. ExistInv'
  <2>1. ASSUME NEW t \in Targets, Registered(t) PROVE Exists(ClientOf(t))
    BY <1>4, <2>1 DEF Exists, ClientOf, Client, Registered
  <2>2. \A c \in RegisteredClients : Exists(c)
    BY <2>1 DEF RegisteredClients
  <2>3. \A t \in Targets : byTarget'[t] <= gen'[t]
    BY <1>1, <1>4
  <2> QED
    BY <1>1, <1>3, <2>2, <2>3 DEF OwnedInv, ExistInv, Exists
<1>7. ASSUME NEW t \in Targets, NEW g \in 1 .. gen[t] PROVE Accounted(t, g)'
  <2>1. g \in Nat \ {0} /\ Accounted(t, g)
    BY <1>4 DEF OwnedInv, AccountInv
  <2>2. Listed(<<t, g>>)' <=> Listed(<<t, g>>) \/ byTarget[t] = g
    BY <1>2, <1>3, <1>5, <2>1 DEF Listed, Threads
  <2> QED
    BY <1>1, <2>1, <2>2 DEF Accounted
<1> QED
  BY <1>1, <1>6, <1>7 DEF AccountInv

LEMMA OwnedStep == TypeInv /\ OwnedInv /\ [Next]_vars => OwnedInv'
<1> SUFFICES ASSUME TypeInv, OwnedInv, [Next]_vars PROVE OwnedInv'
  OBVIOUS
<1>1. ListInv'
  BY ListStep DEF OwnedInv
<1>2. CASE UNCHANGED <<tableVars, removed>>
  BY <1>1, <1>2 DEF tableVars, OwnedInv, ExistInv, AccountInv, Accounted, Listed, Exists
<1> QED
  BY <1>1, <1>2, TableSteps, InstallOwned, CreateOwned, RetireOwned, ShutdownOwned DEF OwnedInv

(***************************************************************************)
(* No client is lost and none is used dead: each one ever created is shut  *)
(* down, in the table, or on the list of a thread about to shut it down,   *)
(* and one in the table is neither down nor listed -- for any number of    *)
(* updates, redirects that create clients, and shutdown().                 *)
(***************************************************************************)
THEOREM ClientsAreAccountedFor == Spec => []ClientsAccountedFor
<1>1. TypeInv /\ OwnedInv => ClientsAccountedFor
  BY AccountMeaning DEF OwnedInv
<1> QED
  BY <1>1, OwnedInit, OwnedStep, TypeInvariance, PTL DEF Spec

-----------------------------------------------------------------------------
(* Readiness.                                                                *)

(***************************************************************************)
(* Every reply names a node.  The client does not check it either: after   *)
(* an empty topology it is ready with nothing to route to.                 *)
(***************************************************************************)
NonEmptyTopologies == \A T \in Topologies : T.peers # <<>>

\* Until shutdown() the table stays loaded from the first update on.
Loaded == \E t \in Targets : Registered(t)

LoadedInv ==
    /\ shutdownRequested <=> shutPc # "idle"
    /\ ~shutdownRequested /\ (isReady \/ \E h \in Refreshers : rpc[h] \in {"retire", "publish"})
          => Loaded

LEMMA LoadedStep ==
    ASSUME NonEmptyTopologies, TypeInv, LoadedInv, [Next]_vars
    PROVE  LoadedInv'
<1> USE DEF TypeInv, TypeOK, RefreshTypeOK, ClientTypeOK
<1>1. shutdownRequested' <=> shutPc' # "idle"
  <2>1. CASE OtherStep \/ UNCHANGED vars
    BY <2>1 DEF LoadedInv, OtherStep, PeriodicWake, ShutdownBegin, ShutdownStep, JoinRefreshThread,
            ShutdownUnready, ShutdownNotify, CoordinatorShutdown, CoordinatorJoined, TableShutdown,
            ShutdownEnd, ClearModeOverride, SetMode, Retire, ShutClient, ClientShut, Closing, vars, atomicVars
  <2>2. ASSUME NEW h \in Refreshers, Refresh(h)
        PROVE  shutdownRequested' = shutdownRequested /\ shutPc' = shutPc
    BY <2>2 DEF Refresh, RefreshEnter, RefreshCas, FetchStart, FetchOk, FetchFail, Install, Retired,
                Publish, RefreshNotify, RefreshRelease, atomicVars
  <2> QED
    BY <2>1, <2>2, RequestsStartRefreshers DEF LoadedInv, Next, OtherStep
<1>2. ~shutdownRequested' => ~shutdownRequested /\ shutPc = "idle"
  <2>1. shutPc' = "idle" => shutPc = "idle"
    <3>1. OtherStep \/ UNCHANGED vars => (shutPc' = "idle" => shutPc = "idle")
      BY DEF OtherStep, PeriodicWake, ShutdownBegin, ShutdownStep, JoinRefreshThread,
            ShutdownUnready, ShutdownNotify, CoordinatorShutdown, CoordinatorJoined, TableShutdown,
            ShutdownEnd, ClearModeOverride, SetMode, Retire, ShutClient, ClientShut, Closing, vars
    <3>2. ASSUME NEW h \in Refreshers, Refresh(h) PROVE shutPc' = shutPc
      BY <3>2 DEF Refresh, RefreshEnter, RefreshCas, FetchStart, FetchOk, FetchFail, Install, Retired,
                Publish, RefreshNotify, RefreshRelease
    <3> QED
      BY <3>1, <3>2, RequestsStartRefreshers DEF Next, OtherStep
  <2> QED
    BY <1>1, <2>1 DEF LoadedInv
<1>3. ASSUME ~shutdownRequested', isReady' \/ \E h \in Refreshers : rpc'[h] \in {"retire", "publish"}
      PROVE  Loaded'
  <2>1. ASSUME NEW g \in Refreshers, Refresh(g) PROVE Loaded'
    <3>1. CASE Install(g)
      <4> DEFINE T == reply[g]
      <4>1. T \in Topologies /\ UpdateFromCoordinator(T)
        BY <3>1 DEF Install, FetchedInv
      <4>2. T.peers \in Seq(PeerRouting) /\ T.peers # <<>>
        BY <4>1, SmartAssumption DEF NonEmptyTopologies
      <4> HIDE DEF T
      <4>3. T.peers[1].target \in NewTargets(T)
        BY <4>2 DEF NewTargets
      <4>4. \A t \in NewTargets(T) : t \in Targets /\ byTarget'[t] # 0
        BY <4>1, UpdateTypes
      <4> QED
        BY <4>3, <4>4 DEF Loaded, Registered
    <3>2. CASE ~Install(g)
      <4>1. byTarget' = byTarget
        BY <2>1, <3>2 DEF Refresh, RefreshEnter, RefreshCas, FetchStart, FetchOk, FetchFail, Retired,
                          Publish, RefreshNotify, RefreshRelease, tableVars
      <4>2. \/ rpc[g] \in {"retire", "publish"}
            \/ /\ isReady' = isReady
               /\ \E label \in RefreshLabels \ {"retire", "publish"} : At(g, label)
        BY <2>1, <3>2 DEF Refresh, RefreshEnter, RefreshCas, FetchStart, FetchOk, FetchFail, Retired,
              Publish, RefreshNotify, RefreshRelease, NextCoordinator, Leave, RefreshLabels, atomicVars
      <4>3. isReady \/ \E h \in Refreshers : rpc[h] \in {"retire", "publish"}
        BY <1>3, <4>2 DEF At
      <4> QED
        BY <1>2, <1>3, <4>1, <4>3 DEF LoadedInv, Loaded, Registered
    <3> QED
      BY <3>1, <3>2
  <2>2. CASE \E r \in Requests : Execute(r) \/ Request(r)
    <3>1. isReady' = isReady /\ \A h \in Refreshers : rpc'[h] \in {"retire", "publish"} => rpc'[h] = rpc[h]
      BY <2>2, RequestsStartRefreshers DEF At
    <3>2. Loaded
      BY <1>2, <1>3, <3>1 DEF LoadedInv
    <3>3. \A t \in Targets : Registered(t) => byTarget'[t] = byTarget[t]
      BY <2>2, RequestsCreate
    <3> QED
      BY <3>2, <3>3 DEF Loaded, Registered
  <2>3. CASE OtherStep \/ UNCHANGED vars
    <3>1. \A h \in Refreshers : rpc'[h] \in {"retire", "publish"} => rpc'[h] = rpc[h]
      BY <2>3, OthersLeaveRefreshers DEF At
    <3>2. isReady' => isReady
      BY <2>3 DEF OtherStep, PeriodicWake, ShutdownBegin, ShutdownStep, JoinRefreshThread,
            ShutdownUnready, ShutdownNotify, CoordinatorShutdown, CoordinatorJoined, TableShutdown,
            ShutdownEnd, ClearModeOverride, SetMode, Retire, ShutClient, ClientShut, vars, atomicVars
    <3>3. byTarget' = byTarget
      BY <1>2, <1>3, <2>3 DEF OtherStep, PeriodicWake, ShutdownBegin, ShutdownStep, JoinRefreshThread,
            ShutdownUnready, ShutdownNotify, CoordinatorShutdown, CoordinatorJoined, TableShutdown,
            ShutdownEnd, ClearModeOverride, SetMode, Retire, ShutClient, ClientShut, Closing, vars, tableVars
    <3> QED
      BY <1>2, <1>3, <3>1, <3>2, <3>3 DEF LoadedInv, Loaded, Registered
  <2> QED
    BY <2>1, <2>2, <2>3 DEF Next, OtherStep
<1> QED
  BY <1>1, <1>3 DEF LoadedInv

(***************************************************************************)
(* Ready means loaded: when every reply names a node, a client that is     *)
(* ready and not being shut down has a client in its table, whichever      *)
(* refresh published readiness and however many replaced the table since.  *)
(***************************************************************************)
THEOREM ReadyMeansLoaded ==
    ASSUME NonEmptyTopologies
    PROVE  Spec => []ReadyMeansTopology
<1>1. Init => LoadedInv
  BY DEF Init, LoadedInv
<1>2. TypeInv /\ LoadedInv /\ [Next]_vars => LoadedInv'
  BY LoadedStep
<1>3. LoadedInv => ReadyMeansTopology
  BY DEF LoadedInv, Loaded, ReadyMeansTopology, RegisteredClients
<1> QED
  BY <1>1, <1>2, <1>3, TypeInvariance, PTL DEF Spec

=============================================================================

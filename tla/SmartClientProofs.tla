--------------------------- MODULE SmartClientProofs ---------------------------
(***************************************************************************)
(* Proofs about SmartClient, for any requests, modes, coordinators,        *)
(* topologies, redirects and refresh threads: type correctness, and the    *)
(* refresh of the topology (is_updating_, the coordinators, ready_cv_).    *)
(***************************************************************************)
EXTENDS SmartClient, SequenceLemmas

-----------------------------------------------------------------------------
(* Arithmetic.                                                               *)

\* Starting anywhere, N successors modulo N visit every residue.
LEMMA FullRound ==
    ASSUME NEW N \in Nat \ {0}, NEW b \in 0 .. N - 1
    PROVE  {(b + i) % N : i \in 0 .. N - 1} = 0 .. N - 1
<1>1. ASSUME NEW y \in 0 .. N - 1 PROVE y % N = y /\ (y + N) % N = y
  OBVIOUS
<1>2. ASSUME NEW i \in 0 .. N - 1 PROVE (b + i) % N \in 0 .. N - 1
  <2>1. \A x \in Nat : x % N \in 0 .. N - 1
    OBVIOUS
  <2> QED
    BY <2>1
<1>3. ASSUME NEW y \in 0 .. N - 1 PROVE \E i \in 0 .. N - 1 : y = (b + i) % N
  <2>1. CASE y >= b
    <3>1. y - b \in 0 .. N - 1 /\ b + (y - b) = y
      BY <2>1
    <3> QED
      BY <3>1, <1>1
  <2>2. CASE y < b
    <3>1. y - b + N \in 0 .. N - 1 /\ b + (y - b + N) = y + N
      BY <2>2
    <3> QED
      BY <3>1, <1>1
  <2> QED
    BY <2>1, <2>2
<1> QED
  BY <1>2, <1>3

-----------------------------------------------------------------------------
(* Type correctness, and what it rests on.                                   *)

\* A table is only updated from a reply that was fetched.
FetchedInv == \A h \in Refreshers : rpc[h] = "install" => reply[h] \in Topologies

\* A client is only created for a target the redirect names.
NamedInv ==
    \A r \in Requests :
        /\ pc[r] = "createMaster" => redirect[r][1] \in Targets
        /\ pc[r] = "createBackup" => redirect[r][2] \in Targets

TypeInv == TypeOK /\ FetchedInv /\ NamedInv

LEMMA NamedTargets ==
    ASSUME NEW T \in Topologies
    PROVE  NewTargets(T) \subseteq Targets
<1>1. \A i \in DOMAIN T.peers : T.peers[i] \in PeerRouting
  <2>1. T.peers \in Seq(PeerRouting)
    BY SmartAssumption
  <2> QED
    BY <2>1
<1>2. \A p \in PeerRouting : p.target \in Targets
  BY DEF PeerRouting
<1> QED
  BY <1>1, <1>2 DEF NewTargets

\* The routes of a topology lead to clients, for any generations that give its targets one.
LEMMA RoutesAreClients ==
    ASSUME NEW T \in Topologies, NEW bt \in [Targets -> Nat], \A t \in NewTargets(T) : bt[t] # 0
    PROVE  /\ RoutesOf(T, bt) \in [Roles \X Shards -> Client \cup {NoClient}]
           /\ \A k \in Roles \X Shards : RoutesOf(T, bt)[k] # NoClient =>
                 \E t \in NewTargets(T) : RoutesOf(T, bt)[k] = <<t, bt[t]>>
<1>1. T.peers \in Seq(PeerRouting)
  BY SmartAssumption
<1>2. ASSUME NEW k \in Roles \X Shards
      PROVE  /\ RoutesOf(T, bt)[k] \in Client \cup {NoClient}
             /\ RoutesOf(T, bt)[k] # NoClient =>
                  \E t \in NewTargets(T) : RoutesOf(T, bt)[k] = <<t, bt[t]>>
  <2> DEFINE hits == {i \in DOMAIN T.peers :
                         T.peers[i].role = k[1] /\ k[2] \in T.peers[i].partitionids}
             t == T.peers[Max(hits)].target
  <2>1. RoutesOf(T, bt)[k] = IF hits = {} THEN NoClient ELSE <<t, bt[t]>>
    BY DEF RoutesOf
  <2>2. CASE hits = {}
    BY <2>1, <2>2
  <2>3. CASE hits # {}
    <3>1. Len(T.peers) \in Nat /\ hits \in SUBSET (0 .. Len(T.peers))
      BY <1>1
    <3>2. Max(hits) \in hits
      BY <2>3, <3>1, LastPosition
    <3>3. Max(hits) \in DOMAIN T.peers
      BY <3>2
    <3> HIDE DEF hits
    <3>4. t \in NewTargets(T)
      BY <3>3 DEF NewTargets
    <3>5. t \in Targets
      BY <3>4, NamedTargets
    <3>6. <<t, bt[t]>> \in Client
      BY <3>4, <3>5 DEF Client
    <3> HIDE DEF t
    <3> QED
      BY <2>1, <2>3, <3>4, <3>6
  <2> QED
    BY <2>2, <2>3
<1>3. RoutesOf(T, bt) = [k \in Roles \X Shards |-> RoutesOf(T, bt)[k]]
  BY DEF RoutesOf
<1> QED
  BY <1>2, <1>3

\* An update of the table keeps its types; the targets it names have a client.
LEMMA UpdateTypes ==
    ASSUME TableTypeOK, NEW T \in Topologies, UpdateFromCoordinator(T)
    PROVE  /\ maxShards' = T.max /\ maxShards' \in Nat
           /\ gen' = CreateMissing(T) /\ gen' \in [Targets -> Nat]
           /\ byTarget' \in [Targets -> Nat]
           /\ \A t \in Targets :
                 byTarget'[t] = IF t \notin NewTargets(T) THEN 0
                                ELSE IF Registered(t) THEN byTarget[t] ELSE gen[t] + 1
           /\ \A t \in NewTargets(T) : t \in Targets /\ byTarget'[t] # 0
           /\ route' = RoutesOf(T, byTarget')
           /\ route' \in [Roles \X Shards -> Client \cup {NoClient}]
<1> USE DEF TableTypeOK
<1>1. T.max \in Nat /\ T.peers \in Seq(PeerRouting)
  BY SmartAssumption
<1>2. gen' = CreateMissing(T) /\ gen' \in [Targets -> Nat]
  BY DEF UpdateFromCoordinator, CreateMissing
<1>3. \A t \in Targets : CreateMissing(T)[t] # gen[t] <=> t \in NewTargets(T) /\ ~Registered(t)
  BY DEF CreateMissing
<1>4. \A t \in Targets :
         byTarget'[t] = IF t \notin NewTargets(T) THEN 0
                        ELSE IF CreateMissing(T)[t] # gen[t] THEN CreateMissing(T)[t] ELSE byTarget[t]
  BY DEF UpdateFromCoordinator
<1>5. \A t \in Targets :
         byTarget'[t] = IF t \notin NewTargets(T) THEN 0
                        ELSE IF Registered(t) THEN byTarget[t] ELSE gen[t] + 1
  BY <1>3, <1>4 DEF CreateMissing
<1>6. byTarget' \in [Targets -> Nat]
  <2>1. byTarget' = [t \in Targets |-> byTarget'[t]]
    BY DEF UpdateFromCoordinator
  <2> QED
    BY <1>5, <2>1
<1>7. \A t \in NewTargets(T) : t \in Targets
  BY NamedTargets
<1>8. \A t \in NewTargets(T) : byTarget'[t] # 0
  BY <1>5, <1>7 DEF Registered
<1>9. route' = RoutesOf(T, byTarget') /\ maxShards' = T.max
  BY DEF UpdateFromCoordinator
<1>10. route' \in [Roles \X Shards -> Client \cup {NoClient}]
  BY <1>6, <1>8, <1>9, RoutesAreClients
<1> QED
  BY <1>1, <1>2, <1>5, <1>6, <1>7, <1>8, <1>9, <1>10

\* Creating a client for a target keeps the table's types; the target then has one.
LEMMA CreateTypes ==
    ASSUME TableTypeOK, NEW t \in Targets, CreateByTarget(t)
    PROVE  /\ gen' \in [Targets -> Nat] /\ byTarget' \in [Targets -> Nat]
           /\ <<t, byTarget'[t]>> \in Client
BY DEF TableTypeOK, CreateByTarget, Registered, Client

\* A registered target's client.
LEMMA RegisteredIsClient ==
    ASSUME TableTypeOK
    PROVE  /\ \A t \in Targets : Registered(t) => ClientOf(t) \in Client
           /\ RegisteredClients \subseteq Client
<1>1. \A t \in Targets : Registered(t) => ClientOf(t) \in Client
  BY DEF TableTypeOK, Registered, ClientOf, Client
<1> QED
  BY <1>1 DEF RegisteredClients

LEMMA TypeInit == Init => TypeInv
<1> SUFFICES ASSUME Init PROVE TypeInv
  OBVIOUS
<1>1. TableTypeOK
  BY TableAssumption DEF Init, TableInit, TableTypeOK
<1>2. 0 \in 0 .. NCoordinators - 1 /\ 0 \in 0 .. MaxRounds /\ 0 \in 0 .. MaxRedirects
  BY SmartAssumption
<1>3. ClientTypeOK
  BY <1>2 DEF Init, ClientTypeOK
<1>4. RefreshTypeOK
  BY <1>2 DEF Init, RefreshTypeOK, RefreshLabels
<1>5. RequestTypeOK
  BY <1>2 DEF Init, RequestTypeOK, RequestLabels, AllModes, MaybeClient, Results
<1>6. FetchedInv /\ NamedInv
  BY DEF Init, FetchedInv, NamedInv
<1> QED
  BY <1>1, <1>3, <1>4, <1>5, <1>6 DEF TypeInv, TypeOK

\* Moving a refresher or a request to a label, resolving a request.
LEMMA AtTypes ==
    ASSUME RefreshTypeOK, NEW h, NEW label \in RefreshLabels, At(h, label)
    PROVE  rpc' \in [Refreshers -> RefreshLabels]
BY DEF RefreshTypeOK, At

LEMMA GotoTypes ==
    ASSUME RequestTypeOK, NEW r, NEW label \in RequestLabels, Goto(r, label)
    PROVE  pc' \in [Requests -> RequestLabels]
BY DEF RequestTypeOK, Goto

LEMMA ResolveTypes ==
    ASSUME RequestTypeOK, NEW r, NEW outcome \in Results, Resolve(r, outcome)
    PROVE  /\ pc' \in [Requests -> RequestLabels]
           /\ result' \in [Requests -> Results]
           /\ current' \in [Requests -> MaybeClient]
           /\ fallback' \in [Requests -> MaybeClient]
<1>1. pc' \in [Requests -> RequestLabels]
  BY GotoTypes DEF Resolve, RequestLabels
<1> QED
  BY <1>1 DEF RequestTypeOK, Resolve, MaybeClient

\* Waking the waiters.
LEMMA NotifyTypes ==
    ASSUME RequestTypeOK, NotifyAll
    PROVE  pc' \in [Requests -> RequestLabels]
BY DEF RequestTypeOK, NotifyAll, RequestLabels

-----------------------------------------------------------------------------
\* The steps of a refresh.
LEMMA RefreshTypes ==
    ASSUME TypeInv, NEW h \in Refreshers, Refresh(h)
    PROVE  TableTypeOK' /\ ClientTypeOK' /\ RefreshTypeOK' /\ RequestTypeOK'
<1> USE DEF TypeInv, TypeOK, atomicVars, refreshVars
<1>1. RequestTypeOK'
  <2>1. CASE RefreshNotify(h)
    <3>1. pc' \in [Requests -> RequestLabels]
      BY <2>1, NotifyTypes DEF RefreshNotify
    <3>2. UNCHANGED <<current, fallback, result, localVars, ghostVars>>
      BY <2>1 DEF RefreshNotify
    <3> QED
      BY <3>1, <3>2 DEF RequestTypeOK, localVars, ghostVars
  <2>2. CASE ~RefreshNotify(h)
    <3>1. UNCHANGED requestVars
      BY <2>2 DEF Refresh, RefreshEnter, RefreshCas, FetchStart, FetchOk, FetchFail, Install, Retired,
                  Publish, RefreshRelease
    <3> QED
      BY <3>1 DEF requestVars, RequestTypeOK, localVars, ghostVars
  <2> QED
    BY <2>1, <2>2
<1>2. TableTypeOK'
  <2>1. CASE Install(h)
    BY <2>1, UpdateTypes DEF Install, FetchedInv, TableTypeOK
  <2>2. CASE ~Install(h)
    <3>1. UNCHANGED tableVars
      BY <2>2 DEF Refresh, RefreshEnter, RefreshCas, FetchStart, FetchOk, FetchFail, Retired,
                  Publish, RefreshNotify, RefreshRelease
    <3> QED
      BY <3>1 DEF tableVars, TableTypeOK
  <2> QED
    BY <2>1, <2>2
<1>3. rpc' \in [Refreshers -> RefreshLabels]
  <2>1. \E label \in RefreshLabels : At(h, label)
    BY DEF Refresh, RefreshEnter, RefreshCas, FetchStart, FetchOk, FetchFail, Install, Retired,
           Publish, RefreshNotify, RefreshRelease, NextCoordinator, Leave, RefreshLabels
  <2> QED
    BY <2>1, AtTypes
<1> USE DEF ClientTypeOK, RefreshTypeOK
<1>4. CASE RefreshEnter(h)
  BY <1>1, <1>2, <1>3, <1>4 DEF RefreshEnter
<1>5. CASE RefreshCas(h)
  <2>1. 0 \in 0 .. NCoordinators - 1
    BY SmartAssumption
  <2> QED
    BY <1>1, <1>2, <1>3, <1>5, <2>1 DEF RefreshCas
<1>6. CASE FetchStart(h) \/ FetchFail(h)
  <2>1. attempt' \in [Refreshers -> 0 .. NCoordinators - 1]
    BY <1>6, SmartAssumption DEF FetchStart, FetchFail, NextCoordinator
  <2> QED
    BY <1>1, <1>2, <1>3, <1>6, <2>1 DEF FetchStart, FetchFail
<1>7. CASE FetchOk(h)
  BY <1>1, <1>2, <1>3, <1>7 DEF FetchOk
<1>8. CASE Install(h)
  <2>1. RemovedClients(reply[h]) \subseteq Client
    BY RegisteredIsClient DEF RemovedClients
  <2>2. removed' \in [Refreshers \cup {"closer"} -> SUBSET Client]
    BY <1>8, <2>1 DEF Install
  <2> QED
    BY <1>1, <1>2, <1>3, <1>8, <2>2 DEF Install
<1>9. CASE Publish(h)
  <2>1. activeCoordinator' \in 0 .. NCoordinators - 1
    <3>1. \A x \in Nat, n \in Nat \ {0} : x % n \in 0 .. n - 1
      OBVIOUS
    <3>2. base[h] + attempt[h] \in Nat
      OBVIOUS
    <3>3. activeCoordinator' = (base[h] + attempt[h]) % NCoordinators
      BY <1>9 DEF Publish, CoordinatorOf
    <3> QED
      BY <3>1, <3>2, <3>3, SmartAssumption
  <2> QED
    BY <1>1, <1>2, <1>3, <1>9, <2>1 DEF Publish
<1>10. CASE Retired(h) \/ RefreshNotify(h)
  BY <1>1, <1>2, <1>3, <1>10 DEF Retired, RefreshNotify
<1>11. CASE RefreshRelease(h)
  BY <1>1, <1>2, <1>3, <1>11 DEF RefreshRelease
<1> QED
  BY <1>4, <1>5, <1>6, <1>7, <1>8, <1>9, <1>10, <1>11 DEF Refresh

\* What the steps of a request leave of the client and of the refreshers.
LEMMA RequestFrame ==
    ASSUME TypeInv, NEW r \in Requests, Execute(r) \/ Request(r)
    PROVE  ClientTypeOK' /\ RefreshTypeOK'
<1> USE DEF TypeInv, TypeOK, atomicVars, refreshVars
<1>1. CASE PickShard(r)
  <2>1. /\ randomCounter' = randomCounter \/ randomCounter' = randomCounter + 1
        /\ crashed' = crashed \/ crashed' = TRUE
    BY <1>1 DEF PickShard
  <2>2. randomCounter' \in Nat
    BY <2>1 DEF ClientTypeOK
  <2>3. crashed' \in BOOLEAN
    BY <2>1, Zenon DEF ClientTypeOK
  <2> QED
    BY <1>1, <2>2, <2>3 DEF PickShard, ClientTypeOK, RefreshTypeOK
<1>2. CASE Send(r)
  <2>1. crashed' \in BOOLEAN
    BY <1>2 DEF Send, ClientTypeOK
  <2> QED
    BY <1>2, <2>1 DEF Send, ClientTypeOK, RefreshTypeOK
<1>3. CASE AnswerUnavailable(r)
  <2>1. rpc' \in [Refreshers -> RefreshLabels]
    <3>1. rpc' = rpc \/ \E h \in Refreshers : At(h, "enter")
      BY <1>3 DEF AnswerUnavailable, TriggerAsyncRefresh, Refreshers
    <3> QED
      BY <3>1, AtTypes DEF RefreshTypeOK, RefreshLabels
  <2> QED
    BY <1>3, <2>1 DEF AnswerUnavailable, ClientTypeOK, RefreshTypeOK
<1>4. CASE ~PickShard(r) /\ ~Send(r) /\ ~AnswerUnavailable(r)
  <2>1. UNCHANGED <<atomicVars, coordinatorDown, refreshVars, removed, shutPc, crashed>>
    BY <1>4 DEF Request, Answer, Execute, WaitReady, WaitPredicate, WaitTimeout, GetMaster, GetBackup,
                AnswerValue, AnswerError, AnswerRedirect, FindMaster, CreateMaster, FindBackup,
                CreateBackup, Redirect
  <2> QED
    BY <2>1 DEF ClientTypeOK, RefreshTypeOK
<1> QED
  BY <1>1, <1>2, <1>3, <1>4

\* The routing table under the steps of a request: two of them may create a client.
LEMMA RequestTable ==
    ASSUME TypeInv, NEW r \in Requests, Execute(r) \/ Request(r)
    PROVE  TableTypeOK'
<1> USE DEF TypeInv, TypeOK
<1>1. CASE CreateMaster(r)
  BY <1>1, CreateTypes DEF CreateMaster, NamedInv, TableTypeOK
<1>2. CASE CreateBackup(r)
  BY <1>2, CreateTypes DEF CreateBackup, NamedInv, TableTypeOK
<1>3. CASE ~CreateMaster(r) /\ ~CreateBackup(r)
  <2>1. UNCHANGED tableVars
    BY <1>3 DEF Request, Answer, Execute, WaitReady, WaitPredicate, WaitTimeout, PickShard, GetMaster,
                GetBackup, Send, AnswerValue, AnswerError, AnswerUnavailable, AnswerRedirect,
                FindMaster, FindBackup, Redirect
  <2> QED
    BY <2>1 DEF tableVars, TableTypeOK
<1> QED
  BY <1>1, <1>2, <1>3

\* The steps of a request.
LEMMA RequestTypes ==
    ASSUME TypeInv, NEW r \in Requests, Execute(r) \/ Request(r)
    PROVE  RequestTypeOK'
<1> USE DEF TypeInv, TypeOK, RequestTypeOK, localVars, ghostVars
<1>1. CASE Execute(r) \/ WaitReady(r)
  <2>1. pc' \in [Requests -> RequestLabels]
    BY <1>1, GotoTypes DEF Execute, WaitReady, RequestLabels
  <2> QED
    BY <1>1, <2>1 DEF Execute, WaitReady
<1>2. CASE WaitPredicate(r) \/ WaitTimeout(r)
  <2>1. \/ \E o \in Results : Resolve(r, o)
        \/ /\ \E label \in RequestLabels : Goto(r, label)
           /\ UNCHANGED <<current, fallback, result>>
    BY <1>2 DEF WaitPredicate, WaitTimeout, RequestLabels, Results
  <2>2. /\ pc' \in [Requests -> RequestLabels] /\ result' \in [Requests -> Results]
        /\ current' \in [Requests -> MaybeClient] /\ fallback' \in [Requests -> MaybeClient]
    BY <2>1, GotoTypes, ResolveTypes
  <2> QED
    BY <1>2, <2>2 DEF WaitPredicate, WaitTimeout
<1>3. CASE PickShard(r)
  <2>1. shard' \in [Requests -> Nat]
    <3>1. \A x \in Nat, n \in Nat \ {0} : x % n \in Nat
      OBVIOUS
    <3>2. maxShards # 0 => maxShards \in Nat \ {0}
      BY DEF TableTypeOK
    <3>3. Hash[r] # NoHint => Hash[r] \in Nat
      BY SmartAssumption
    <3>4. maxShards # 0 /\ Hash[r] # NoHint => Hash[r] % maxShards \in Nat
      BY <3>1, <3>2, <3>3
    <3>5. maxShards # 0 => randomCounter % maxShards \in Nat
      BY <3>1, <3>2 DEF ClientTypeOK
    <3> QED
      BY <1>3, <3>4, <3>5 DEF PickShard
  <2>2. pc' \in [Requests -> RequestLabels]
    BY <1>3, GotoTypes DEF PickShard, RequestLabels
  <2> QED
    BY <1>3, <2>1, <2>2 DEF PickShard
<1>4. CASE GetMaster(r)
  <2>1. GetRoute(shard[r], "MASTER") \in MaybeClient
    BY DEF GetRoute, TableTypeOK, MaybeClient, Roles
  <2>2. pc' \in [Requests -> RequestLabels]
    BY <1>4, GotoTypes DEF GetMaster, RequestLabels
  <2> QED
    BY <1>4, <2>1, <2>2 DEF GetMaster
<1>5. CASE GetBackup(r)
  <2> DEFINE master == current[r]
             backup == GetRoute(shard[r], "BACKUP")
             m == ModeFor(master, backup)
  <2>1. master \in MaybeClient /\ backup \in MaybeClient
    BY DEF GetRoute, TableTypeOK, MaybeClient, Roles
  <2>2. m \in AllModes
    BY DEF ModeFor, EffectiveMode, AllModes, ClientTypeOK
  <2>3. \/ Resolve(r, "noEndpoint") /\ UNCHANGED mode
        \/ /\ mode' = [mode EXCEPT ![r] = m]
           /\ \E o \in Orders(m, master, backup) :
                 current' = [current EXCEPT ![r] = o[1]] /\ fallback' = [fallback EXCEPT ![r] = o[2]]
           /\ Goto(r, "send")
           /\ UNCHANGED result
    BY <1>5 DEF GetBackup
  <2> HIDE DEF master, backup, m
  <2>4. \A o \in Orders(m, master, backup) : o[1] \in MaybeClient /\ o[2] \in MaybeClient
    <3>1. Orders(m, master, backup) \subseteq {<<master, NoClient>>, <<backup, NoClient>>,
                                              <<master, backup>>, <<backup, master>>}
      BY <2>2 DEF Orders, AllModes
    <3> QED
      BY <2>1, <3>1 DEF MaybeClient
  <2>5. /\ pc' \in [Requests -> RequestLabels] /\ result' \in [Requests -> Results]
        /\ current' \in [Requests -> MaybeClient] /\ fallback' \in [Requests -> MaybeClient]
        /\ mode' \in [Requests -> AllModes]
    <3>1. CASE Resolve(r, "noEndpoint") /\ UNCHANGED mode
      BY <3>1, ResolveTypes DEF Results
    <3>2. CASE /\ mode' = [mode EXCEPT ![r] = m]
               /\ \E o \in Orders(m, master, backup) :
                     current' = [current EXCEPT ![r] = o[1]] /\ fallback' = [fallback EXCEPT ![r] = o[2]]
               /\ Goto(r, "send")
               /\ UNCHANGED result
      <4>1. pc' \in [Requests -> RequestLabels]
        BY <3>2, GotoTypes DEF RequestLabels
      <4> QED
        BY <2>2, <2>4, <3>2, <4>1
    <3> QED
      BY <2>3, <3>1, <3>2
  <2> QED
    BY <1>5, <2>5 DEF GetBackup
<1>6. CASE Send(r)
  <2>1. \/ Resolve(r, "clientDown") /\ UNCHANGED tries
        \/ (pc' = pc \/ Goto(r, "inFlight")) /\ UNCHANGED <<current, fallback, result>>
    BY <1>6 DEF Send
  <2>2. /\ pc' \in [Requests -> RequestLabels] /\ result' \in [Requests -> Results]
        /\ current' \in [Requests -> MaybeClient] /\ fallback' \in [Requests -> MaybeClient]
    BY <2>1, ResolveTypes, GotoTypes DEF RequestLabels, Results
  <2>3. tries' \in [Requests -> Nat]
    BY <1>6 DEF Send
  <2> QED
    BY <1>6, <2>2, <2>3 DEF Send
<1>7. CASE AnswerValue(r) \/ AnswerError(r)
  <2>1. /\ pc' \in [Requests -> RequestLabels] /\ result' \in [Requests -> Results]
        /\ current' \in [Requests -> MaybeClient] /\ fallback' \in [Requests -> MaybeClient]
    BY <1>7, ResolveTypes DEF AnswerValue, AnswerError, Results
  <2>2. applied' \in [Requests -> Nat]
    <3>1. \E n \in {0, 1} : applied' = [applied EXCEPT ![r] = @ + n]
      BY <1>7 DEF AnswerValue, AnswerError, MaybeApplied
    <3> QED
      BY <3>1
  <2> QED
    BY <1>7, <2>1, <2>2 DEF AnswerValue, AnswerError
<1>8. CASE AnswerUnavailable(r)
  <2>1. applied' \in [Requests -> Nat] /\ unavailable' \in [Requests -> Nat]
    BY <1>8 DEF AnswerUnavailable, MaybeApplied
  <2>2. \/ Resolve(r, "error")
        \/ /\ Goto(r, "send")
           /\ current' = [current EXCEPT ![r] = fallback[r]]
           /\ fallback' = [fallback EXCEPT ![r] = NoClient]
           /\ UNCHANGED result
    BY <1>8 DEF AnswerUnavailable
  <2>3. /\ pc' \in [Requests -> RequestLabels] /\ result' \in [Requests -> Results]
        /\ current' \in [Requests -> MaybeClient] /\ fallback' \in [Requests -> MaybeClient]
    BY <2>2, ResolveTypes, GotoTypes DEF RequestLabels, Results, MaybeClient
  <2> QED
    BY <1>8, <2>1, <2>3 DEF AnswerUnavailable
<1>9. CASE AnswerRedirect(r)
  <2>1. pc' \in [Requests -> RequestLabels]
    BY <1>9, GotoTypes DEF AnswerRedirect, RequestLabels
  <2>2. redirect' \in [Requests -> (Targets \cup {NoTarget}) \X (Targets \cup {NoTarget})]
    BY <1>9, SmartAssumption DEF AnswerRedirect
  <2>3. redirects' \in [Requests -> 0 .. MaxRedirects]
    BY <1>9, SmartAssumption DEF AnswerRedirect
  <2> QED
    BY <1>9, <2>1, <2>2, <2>3 DEF AnswerRedirect
<1>10. CASE FindMaster(r)
  <2>1. redirect[r][1] \in Targets \/ ~Elsewhere(r, redirect[r][1])
    BY DEF Elsewhere
  <2>2. newMaster' \in [Requests -> MaybeClient]
    BY <1>10, <2>1, RegisteredIsClient DEF FindMaster, MaybeClient
  <2>3. pc' \in [Requests -> RequestLabels]
    BY <1>10, GotoTypes DEF FindMaster, RequestLabels
  <2> QED
    BY <1>10, <2>2, <2>3 DEF FindMaster
<1>11. CASE CreateMaster(r)
  <2>1. <<redirect[r][1], byTarget'[redirect[r][1]]>> \in Client
    BY <1>11, CreateTypes DEF CreateMaster, NamedInv
  <2>2. newMaster' \in [Requests -> MaybeClient]
    BY <1>11, <2>1 DEF CreateMaster, MaybeClient
  <2>3. pc' \in [Requests -> RequestLabels]
    BY <1>11, GotoTypes DEF CreateMaster, RequestLabels
  <2> QED
    BY <1>11, <2>2, <2>3 DEF CreateMaster
<1>12. CASE FindBackup(r)
  <2>1. redirect[r][2] \in Targets \/ ~Elsewhere(r, redirect[r][2])
    BY DEF Elsewhere
  <2>2. fallback' \in [Requests -> MaybeClient]
    BY <1>12, <2>1, RegisteredIsClient DEF FindBackup, MaybeClient
  <2>3. pc' \in [Requests -> RequestLabels]
    BY <1>12, GotoTypes DEF FindBackup, RequestLabels
  <2> QED
    BY <1>12, <2>2, <2>3 DEF FindBackup
<1>13. CASE CreateBackup(r)
  <2>1. <<redirect[r][2], byTarget'[redirect[r][2]]>> \in Client
    BY <1>13, CreateTypes DEF CreateBackup, NamedInv
  <2>2. fallback' \in [Requests -> MaybeClient]
    BY <1>13, <2>1 DEF CreateBackup, MaybeClient
  <2>3. pc' \in [Requests -> RequestLabels]
    BY <1>13, GotoTypes DEF CreateBackup, RequestLabels
  <2> QED
    BY <1>13, <2>2, <2>3 DEF CreateBackup
<1>14. CASE Redirect(r)
  <2>1. \/ Resolve(r, "error") /\ UNCHANGED tries
        \/ /\ Goto(r, "send")
           /\ \E c \in MaybeClient : current' = [current EXCEPT ![r] = c]
           /\ fallback' = fallback \/ fallback' = [fallback EXCEPT ![r] = NoClient]
           /\ tries' = [tries EXCEPT ![r] = 0]
           /\ UNCHANGED result
    BY <1>14 DEF Redirect
  <2>2. /\ pc' \in [Requests -> RequestLabels] /\ result' \in [Requests -> Results]
        /\ current' \in [Requests -> MaybeClient] /\ fallback' \in [Requests -> MaybeClient]
        /\ tries' \in [Requests -> Nat]
    <3>1. CASE Resolve(r, "error") /\ UNCHANGED tries
      BY <3>1, ResolveTypes DEF Results
    <3>2. CASE /\ Goto(r, "send")
               /\ \E c \in MaybeClient : current' = [current EXCEPT ![r] = c]
               /\ fallback' = fallback \/ fallback' = [fallback EXCEPT ![r] = NoClient]
               /\ tries' = [tries EXCEPT ![r] = 0]
               /\ UNCHANGED result
      <4>1. pc' \in [Requests -> RequestLabels]
        BY <3>2, GotoTypes DEF RequestLabels
      <4>2. fallback' \in [Requests -> MaybeClient]
        BY <3>2 DEF MaybeClient
      <4>3. /\ current' \in [Requests -> MaybeClient] /\ tries' \in [Requests -> Nat]
            /\ result' \in [Requests -> Results]
        BY <3>2
      <4> QED
        BY <4>1, <4>2, <4>3, Zenon
    <3> QED
      BY <2>1, <3>1, <3>2, Zenon
  <2>3. /\ newMaster' \in [Requests -> MaybeClient]
        /\ redirect' \in [Requests -> (Targets \cup {NoTarget}) \X (Targets \cup {NoTarget})]
    BY <1>14 DEF Redirect, MaybeClient
  <2> QED
    BY <1>14, <2>2, <2>3 DEF Redirect
<1> QED
  BY <1>1, <1>2, <1>3, <1>4, <1>5, <1>6, <1>7, <1>8, <1>9, <1>10, <1>11, <1>12, <1>13, <1>14
     DEF Request, Answer

\* The steps of the periodic thread's loop, of shutdown(), of its caller, and of
\* client->shutdown().
OtherStep ==
    \/ PeriodicWake \/ ShutdownBegin \/ ShutdownStep \/ ClearModeOverride
    \/ \E m \in Modes : SetMode(m)
    \/ \E h \in Refreshers \cup {"closer"} : Retire(h)

LEMMA OtherTypes ==
    ASSUME TypeInv, OtherStep \/ UNCHANGED vars
    PROVE  TableTypeOK' /\ ClientTypeOK' /\ RefreshTypeOK' /\ RequestTypeOK'
<1> USE DEF TypeInv, TypeOK, atomicVars, refreshVars
<1>1. RequestTypeOK'
  <2>1. CASE ShutdownNotify
    <3>1. pc' \in [Requests -> RequestLabels]
      BY <2>1, NotifyTypes DEF ShutdownNotify
    <3>2. UNCHANGED <<current, fallback, result, localVars, ghostVars>>
      BY <2>1 DEF ShutdownNotify
    <3> QED
      BY <3>1, <3>2 DEF RequestTypeOK, localVars, ghostVars
  <2>2. CASE ~ShutdownNotify
    <3>1. UNCHANGED requestVars
      BY <2>2 DEF OtherStep, PeriodicWake, ShutdownBegin, ShutdownStep, JoinRefreshThread,
                  ShutdownUnready, CoordinatorShutdown, CoordinatorJoined, TableShutdown, ShutdownEnd,
                  ClearModeOverride, SetMode, Retire, ShutClient, ClientShut, vars
    <3> QED
      BY <3>1 DEF requestVars, RequestTypeOK, localVars, ghostVars
  <2> QED
    BY <2>1, <2>2
<1>2. CASE PeriodicWake
  <2>1. rounds' \in 0 .. MaxRounds
    BY <1>2, SmartAssumption DEF PeriodicWake, RefreshTypeOK
  <2>2. rpc' \in [Refreshers -> RefreshLabels]
    BY <1>2, AtTypes DEF PeriodicWake, RefreshLabels
  <2> QED
    BY <1>1, <1>2, <2>1, <2>2 DEF PeriodicWake, ClientTypeOK, RefreshTypeOK, tableVars, TableTypeOK
<1>3. CASE ShutdownBegin
  BY <1>1, <1>3 DEF ShutdownBegin, Closing, ClientTypeOK, RefreshTypeOK, tableVars, TableTypeOK
<1>4. CASE ShutdownStep /\ ~TableShutdown
  <2>1. UNCHANGED <<tableVars, refreshVars, removed>>
    BY <1>4 DEF ShutdownStep, JoinRefreshThread, ShutdownUnready, ShutdownNotify, CoordinatorShutdown,
                CoordinatorJoined, ShutdownEnd
  <2>2. ClientTypeOK'
    BY <1>4 DEF ShutdownStep, JoinRefreshThread, ShutdownUnready, ShutdownNotify, CoordinatorShutdown,
                CoordinatorJoined, ShutdownEnd, Closing, ClientTypeOK
  <2> QED
    BY <1>1, <2>1, <2>2 DEF RefreshTypeOK, tableVars, TableTypeOK
<1>5. CASE TableShutdown
  <2>1. TableTypeOK'
    BY <1>5 DEF TableShutdown, ClearTable, TableTypeOK
  <2>2. removed' \in [Refreshers \cup {"closer"} -> SUBSET Client]
    BY <1>5, RegisteredIsClient DEF TableShutdown, RefreshTypeOK
  <2> QED
    BY <1>1, <1>5, <2>1, <2>2 DEF TableShutdown, Closing, ClientTypeOK, RefreshTypeOK
<1>6. CASE ClearModeOverride
  BY <1>1, <1>6 DEF ClearModeOverride, ClientTypeOK, RefreshTypeOK, tableVars, TableTypeOK
<1>7. ASSUME NEW m \in Modes, SetMode(m)
      PROVE  TableTypeOK' /\ ClientTypeOK' /\ RefreshTypeOK' /\ RequestTypeOK'
  <2>1. m \in AllModes
    BY SmartAssumption
  <2> QED
    BY <1>1, <1>7, <2>1 DEF SetMode, ClientTypeOK, RefreshTypeOK, tableVars, TableTypeOK
<1>8. ASSUME NEW h \in Refreshers \cup {"closer"}, Retire(h)
      PROVE  TableTypeOK' /\ ClientTypeOK' /\ RefreshTypeOK' /\ RequestTypeOK'
  <2>1. CASE ShutClient(h)
    BY <1>1, <2>1 DEF ShutClient, ClientTypeOK, RefreshTypeOK, tableVars, TableTypeOK
  <2>2. CASE ClientShut(h)
    BY <1>1, <2>2 DEF ClientShut, ClientTypeOK, RefreshTypeOK, tableVars, TableTypeOK
  <2> QED
    BY <1>8, <2>1, <2>2 DEF Retire
<1>9. CASE UNCHANGED vars
  BY <1>1, <1>9 DEF vars, ClientTypeOK, RefreshTypeOK, tableVars, TableTypeOK
<1> QED
  BY <1>2, <1>3, <1>4, <1>5, <1>6, <1>7, <1>8, <1>9 DEF OtherStep, ShutdownStep

\* A refresher goes to "install" with the reply it fetched, and keeps it until then.
LEMMA FetchedStep == TypeInv /\ [Next]_vars => FetchedInv'
<1> SUFFICES ASSUME TypeInv, [Next]_vars, NEW h \in Refreshers, rpc'[h] = "install"
             PROVE  reply'[h] \in Topologies
  BY DEF FetchedInv
<1> USE DEF TypeInv, TypeOK, RefreshTypeOK, FetchedInv, refreshVars
<1>1. ASSUME NEW g \in Refreshers, Refresh(g) PROVE reply'[h] \in Topologies
  <2>1. CASE FetchOk(g)
    BY <2>1 DEF FetchOk, At
  <2>2. CASE Install(g)
    BY <2>2 DEF Install, At
  <2>3. CASE ~FetchOk(g) /\ ~Install(g)
    <3>1. reply' = reply /\ \E label \in RefreshLabels \ {"install"} : At(g, label)
      BY <1>1, <2>3 DEF Refresh, RefreshEnter, RefreshCas, FetchStart, FetchFail, Retired, Publish,
                        RefreshNotify, RefreshRelease, NextCoordinator, Leave, RefreshLabels
    <3> QED
      BY <3>1 DEF At
  <2> QED
    BY <2>1, <2>2, <2>3
<1>2. ASSUME NEW r \in Requests, Execute(r) \/ Request(r) PROVE reply'[h] \in Topologies
  <2>1. reply' = reply /\ (rpc' = rpc \/ \E g \in Refreshers : At(g, "enter"))
    BY <1>2 DEF Request, Answer, Execute, WaitReady, WaitPredicate, WaitTimeout, PickShard, GetMaster,
                GetBackup, Send, AnswerValue, AnswerError, AnswerUnavailable, AnswerRedirect,
                FindMaster, CreateMaster, FindBackup, CreateBackup, Redirect, TriggerAsyncRefresh,
                Refreshers
  <2> QED
    BY <2>1 DEF At
<1>3. CASE OtherStep \/ UNCHANGED vars
  <2>1. reply' = reply /\ (rpc' = rpc \/ At("periodic", "exited") \/ At("periodic", "enter"))
    BY <1>3 DEF OtherStep, PeriodicWake, ShutdownBegin, ShutdownStep, JoinRefreshThread,
                ShutdownUnready, ShutdownNotify, CoordinatorShutdown, CoordinatorJoined, TableShutdown,
                ShutdownEnd, ClearModeOverride, SetMode, Retire, ShutClient, ClientShut, vars
  <2> QED
    BY <2>1 DEF At
<1> QED
  BY <1>1, <1>2, <1>3 DEF Next, OtherStep

\* A request goes to createMaster or createBackup for a target, not for a blank.
LEMMA NamedStep == TypeInv /\ [Next]_vars => NamedInv'
<1> SUFFICES ASSUME TypeInv, [Next]_vars, NEW r \in Requests
             PROVE  /\ pc'[r] = "createMaster" => redirect'[r][1] \in Targets
                    /\ pc'[r] = "createBackup" => redirect'[r][2] \in Targets
  BY DEF NamedInv
<1> USE DEF TypeInv, TypeOK, RequestTypeOK, NamedInv
<1>1. ASSUME NEW q \in Requests, Execute(q) \/ Request(q)
      PROVE  /\ pc'[r] = "createMaster" => redirect'[r][1] \in Targets
             /\ pc'[r] = "createBackup" => redirect'[r][2] \in Targets
  <2>1. CASE FindMaster(q)
    BY <2>1 DEF FindMaster, Elsewhere, Goto
  <2>2. CASE FindBackup(q)
    BY <2>2 DEF FindBackup, Elsewhere, Goto, localVars
  <2>3. CASE AnswerRedirect(q) \/ Redirect(q)
    BY <2>3 DEF AnswerRedirect, Redirect, Resolve, Goto
  <2>4. CASE ~FindMaster(q) /\ ~FindBackup(q) /\ ~AnswerRedirect(q) /\ ~Redirect(q)
    <3>1. /\ redirect' = redirect
          /\ pc' = pc \/ \E label \in RequestLabels \ {"createMaster", "createBackup"} : Goto(q, label)
      BY <1>1, <2>4 DEF Request, Answer, Execute, WaitReady, WaitPredicate, WaitTimeout, PickShard,
                GetMaster, GetBackup, Send, AnswerValue, AnswerError, AnswerUnavailable,
                CreateMaster, CreateBackup, Resolve, RequestLabels, localVars
    <3> QED
      BY <3>1 DEF Goto
  <2> QED
    BY <2>1, <2>2, <2>3, <2>4
<1>2. CASE UNCHANGED requestVars
  BY <1>2 DEF requestVars, localVars
<1>3. CASE NotifyAll /\ UNCHANGED localVars
  BY <1>3 DEF NotifyAll, localVars
<1>4. ASSUME NEW h \in Refreshers, Refresh(h)
      PROVE  UNCHANGED requestVars \/ (NotifyAll /\ UNCHANGED localVars)
  BY <1>4 DEF Refresh, RefreshEnter, RefreshCas, FetchStart, FetchOk, FetchFail, Install, Retired,
              Publish, RefreshNotify, RefreshRelease
<1>5. CASE OtherStep \/ UNCHANGED vars
  <2>1. UNCHANGED requestVars \/ (NotifyAll /\ UNCHANGED localVars)
    BY <1>5 DEF OtherStep, PeriodicWake, ShutdownBegin, ShutdownStep, JoinRefreshThread,
                ShutdownUnready, ShutdownNotify, CoordinatorShutdown, CoordinatorJoined, TableShutdown,
                ShutdownEnd, ClearModeOverride, SetMode, Retire, ShutClient, ClientShut, vars
  <2> QED
    BY <1>2, <1>3, <2>1
<1> QED
  BY <1>1, <1>2, <1>3, <1>4, <1>5 DEF Next, OtherStep

LEMMA TypeInductive == TypeInv /\ [Next]_vars => TypeInv'
<1> SUFFICES ASSUME TypeInv, [Next]_vars PROVE TypeInv'
  OBVIOUS
<1>1. FetchedInv' /\ NamedInv'
  BY FetchedStep, NamedStep
<1>2. TypeOK'
  BY RefreshTypes, RequestFrame, RequestTable, RequestTypes, OtherTypes DEF Next, OtherStep, TypeOK
<1> QED
  BY <1>1, <1>2 DEF TypeInv

LEMMA TypeInvariance == Spec => []TypeInv
BY TypeInit, TypeInductive, PTL DEF Spec

(***************************************************************************)
(* Type correctness: the smart client's variables keep their types; in     *)
(* particular every route, and every client a request holds, is a client   *)
(* that was created, and the coordinator index stays below the number of   *)
(* coordinators.                                                           *)
(***************************************************************************)
THEOREM TypeCorrect == Spec => []TypeOK
<1>1. TypeInv => TypeOK
  BY DEF TypeInv
<1> QED
  BY <1>1, TypeInvariance, PTL

-----------------------------------------------------------------------------
(* One refresh at a time.                                                    *)

\* A request touches no refresher, but for starting one that was not yet born.
LEMMA RequestsStartRefreshers ==
    ASSUME NEW r \in Requests, Execute(r) \/ Request(r)
    PROVE  /\ isUpdating' = isUpdating /\ isReady' = isReady /\ shutdownRequested' = shutdownRequested
           /\ shutPc' = shutPc /\ base' = base /\ attempt' = attempt /\ removed' = removed
           /\ \/ rpc' = rpc
              \/ \E h \in Refreshers : rpc[h] = "unborn" /\ At(h, "enter")
BY DEF Request, Answer, Execute, WaitReady, WaitPredicate, WaitTimeout, PickShard, GetMaster, GetBackup,
       Send, AnswerValue, AnswerError, AnswerUnavailable, AnswerRedirect, FindMaster, CreateMaster,
       FindBackup, CreateBackup, Redirect, TriggerAsyncRefresh, Refreshers, atomicVars, refreshVars

\* The other threads touch no refresher but the periodic one, between its refreshes.
LEMMA OthersLeaveRefreshers ==
    ASSUME OtherStep \/ UNCHANGED vars
    PROVE  /\ isUpdating' = isUpdating /\ base' = base /\ attempt' = attempt
           /\ \/ rpc' = rpc
              \/ /\ rpc["periodic"] = "sleep"
                 /\ At("periodic", "exited") \/ At("periodic", "enter")
BY DEF OtherStep, PeriodicWake, ShutdownBegin, ShutdownStep, JoinRefreshThread, ShutdownUnready,
       ShutdownNotify, CoordinatorShutdown, CoordinatorJoined, TableShutdown, ShutdownEnd,
       ClearModeOverride, SetMode, Retire, ShutClient, ClientShut, vars, atomicVars, refreshVars

LEMMA UpdateStep == TypeInv /\ OneUpdateAtATime /\ [Next]_vars => OneUpdateAtATime'
<1> SUFFICES ASSUME TypeInv, OneUpdateAtATime, [Next]_vars PROVE OneUpdateAtATime'
  OBVIOUS
<1> USE DEF TypeInv, TypeOK, RefreshTypeOK, ClientTypeOK, OneUpdateAtATime, Updating
<1>1. ASSUME NEW h \in Refreshers, Refresh(h) PROVE OneUpdateAtATime'
  <2>1. CASE RefreshEnter(h)
    BY <2>1 DEF RefreshEnter, Leave, At, atomicVars
  <2>2. CASE RefreshCas(h)
    BY <2>2 DEF RefreshCas, Leave, At
  <2>3. CASE RefreshRelease(h)
    BY <2>3 DEF RefreshRelease, Leave, At
  <2>4. CASE ~RefreshEnter(h) /\ ~RefreshCas(h) /\ ~RefreshRelease(h)
    <3>1. /\ isUpdating' = isUpdating
          /\ Updating(h)
          /\ \E label \in {"fetch", "fetching", "install", "retire", "publish", "notify", "release"} :
                At(h, label)
      BY <1>1, <2>4 DEF Refresh, FetchStart, FetchOk, FetchFail, Install, Retired, Publish,
                        RefreshNotify, NextCoordinator, atomicVars
    <3>2. \A g \in Refreshers : Updating(g)' <=> Updating(g)
      BY <3>1 DEF At
    <3> QED
      BY <3>1, <3>2
  <2> QED
    BY <2>1, <2>2, <2>3, <2>4
<1>2. ASSUME NEW r \in Requests, Execute(r) \/ Request(r) PROVE OneUpdateAtATime'
  <2>1. isUpdating' = isUpdating /\ \A g \in Refreshers : Updating(g)' <=> Updating(g)
    BY <1>2, RequestsStartRefreshers DEF At
  <2> QED
    BY <2>1
<1>3. CASE OtherStep \/ UNCHANGED vars
  <2>1. isUpdating' = isUpdating /\ \A g \in Refreshers : Updating(g)' <=> Updating(g)
    BY <1>3, OthersLeaveRefreshers DEF At
  <2> QED
    BY <2>1
<1> QED
  BY <1>1, <1>2, <1>3 DEF Next, OtherStep

(***************************************************************************)
(* Mutual exclusion of refreshes: is_updating_ is set exactly while one    *)
(* thread is inside refreshRouting, whichever way it leaves it.            *)
(***************************************************************************)
THEOREM UpdatesAreExclusive == Spec => []OneUpdateAtATime
<1>1. Init => OneUpdateAtATime
  BY DEF Init, OneUpdateAtATime, Updating
<1> QED
  BY <1>1, UpdateStep, TypeInvariance, PTL DEF Spec

-----------------------------------------------------------------------------
(* Every coordinator is asked.                                               *)

\* A refresher goes from asking a coordinator to giving up only at the last attempt.
LEMMA GivesUpAtLast ==
    ASSUME TypeInv, [Next]_vars, NEW h \in Refreshers,
           rpc[h] \in {"fetch", "fetching"}, rpc'[h] = "release"
    PROVE  attempt[h] = NCoordinators - 1
<1> USE DEF TypeInv, TypeOK, RefreshTypeOK
<1>1. ASSUME NEW g \in Refreshers, Refresh(g) PROVE attempt[h] = NCoordinators - 1
  <2>1. CASE g = h
    <3>1. NextCoordinator(h)
      BY <1>1, <2>1 DEF Refresh, RefreshEnter, RefreshCas, FetchStart, FetchOk, FetchFail, Install,
                        Retired, Publish, RefreshNotify, RefreshRelease, NextCoordinator, Leave, At
    <3>2. ~(attempt[h] + 1 < NCoordinators)
      BY <3>1 DEF NextCoordinator, At
    <3>3. attempt[h] \in 0 .. NCoordinators - 1 /\ NCoordinators \in Nat \ {0}
      BY SmartAssumption
    <3> QED
      BY ONLY <3>2, <3>3
  <2>2. CASE g # h
    <3>1. \E label \in RefreshLabels : At(g, label)
      BY <1>1 DEF Refresh, RefreshEnter, RefreshCas, FetchStart, FetchOk, FetchFail, Install, Retired,
                  Publish, RefreshNotify, RefreshRelease, NextCoordinator, Leave, RefreshLabels
    <3> QED
      BY <2>2, <3>1 DEF At
  <2> QED
    BY <2>1, <2>2
<1>2. ASSUME NEW r \in Requests, Execute(r) \/ Request(r) PROVE FALSE
  BY <1>2, RequestsStartRefreshers DEF At
<1>3. CASE OtherStep \/ UNCHANGED vars
  BY <1>3, OthersLeaveRefreshers DEF At
<1> QED
  BY <1>1, <1>2, <1>3 DEF Next, OtherStep

(***************************************************************************)
(* A refresh that gives up has asked every coordinator once, whatever      *)
(* their number and whichever answered last.                               *)
(***************************************************************************)
THEOREM EveryCoordinatorIsAsked == Spec => GivesUpOnlyAfterAll
<1> DEFINE AllAsked ==
       \A h \in Refreshers :
          rpc[h] \in {"fetch", "fetching"} /\ rpc'[h] = "release"
             => {(base[h] + i) % NCoordinators : i \in 0 .. attempt[h]} = 0 .. NCoordinators - 1
<1>1. TypeInv /\ [Next]_vars => [AllAsked]_vars
  <2> SUFFICES ASSUME TypeInv, [Next]_vars, NEW h \in Refreshers,
                      rpc[h] \in {"fetch", "fetching"}, rpc'[h] = "release"
               PROVE  {(base[h] + i) % NCoordinators : i \in 0 .. attempt[h]} = 0 .. NCoordinators - 1
    OBVIOUS
  <2>1. attempt[h] = NCoordinators - 1
    BY GivesUpAtLast
  <2>2. base[h] \in 0 .. NCoordinators - 1 /\ NCoordinators \in Nat \ {0}
    BY SmartAssumption DEF TypeInv, TypeOK, RefreshTypeOK
  <2>3. {(base[h] + i) % NCoordinators : i \in 0 .. NCoordinators - 1} = 0 .. NCoordinators - 1
    BY <2>2, FullRound
  <2> QED
    BY <2>1, <2>3
<1> QED
  BY <1>1, TypeInvariance, PTL DEF Spec, GivesUpOnlyAfterAll

-----------------------------------------------------------------------------
(* Waiting for readiness.                                                    *)

LEMMA WakeupStep == TypeInv /\ NoLostWakeup /\ [Next]_vars => NoLostWakeup'
<1> SUFFICES ASSUME TypeInv, NoLostWakeup, [Next]_vars, NEW r \in Requests, pc'[r] = "asleep"
             PROVE  /\ isReady' => \E h \in Refreshers : rpc'[h] = "notify"
                    /\ shutdownRequested' => shutPc' \in {"join", "unready", "notify"}
  BY DEF NoLostWakeup
<1> DEFINE Goal == /\ isReady' => \E h \in Refreshers : rpc'[h] = "notify"
                   /\ shutdownRequested' => shutPc' \in {"join", "unready", "notify"}
<1> USE DEF TypeInv, TypeOK, RefreshTypeOK, RequestTypeOK, ClientTypeOK
<1>1. ASSUME NEW h \in Refreshers, Refresh(h) PROVE Goal
  <2>1. CASE RefreshNotify(h)
    BY <2>1 DEF RefreshNotify, NotifyAll
  <2>2. CASE ~RefreshNotify(h)
    <3>1. UNCHANGED <<pc, shutdownRequested, shutPc>>
      BY <1>1, <2>2 DEF Refresh, RefreshEnter, RefreshCas, FetchStart, FetchOk, FetchFail, Install,
                  Retired, Publish, RefreshRelease, requestVars, atomicVars
    <3>2. CASE Publish(h)
      <4>1. rpc'[h] = "notify"
        BY <3>2 DEF Publish, At
      <4> QED
        BY <3>1, <4>1 DEF NoLostWakeup
    <3>3. CASE ~Publish(h)
      <4>1. isReady' = isReady
        BY <1>1, <2>2, <3>3 DEF Refresh, RefreshEnter, RefreshCas, FetchStart, FetchOk, FetchFail,
                  Install, Retired, RefreshRelease, atomicVars
      <4>2. rpc[h] # "notify" /\ \E label \in RefreshLabels : At(h, label)
        BY <1>1, <2>2 DEF Refresh, RefreshEnter, RefreshCas, FetchStart, FetchOk, FetchFail, Install,
                  Retired, Publish, RefreshRelease, NextCoordinator, Leave, RefreshLabels
      <4>3. \A g \in Refreshers : rpc[g] = "notify" => rpc'[g] = "notify"
        BY <4>2 DEF At
      <4> QED
        BY <3>1, <4>1, <4>3 DEF NoLostWakeup
    <3> QED
      BY <3>2, <3>3
  <2> QED
    BY <2>1, <2>2
<1>2. ASSUME NEW q \in Requests, Execute(q) \/ Request(q) PROVE Goal
  <2>1. /\ isReady' = isReady /\ shutdownRequested' = shutdownRequested /\ shutPc' = shutPc
        /\ \A g \in Refreshers : rpc[g] = "notify" => rpc'[g] = "notify"
    BY <1>2, RequestsStartRefreshers DEF At
  <2>2. pc[r] = "asleep" \/ (~isReady /\ ~shutdownRequested)
    <3>1. CASE WaitPredicate(q)
      BY <3>1 DEF WaitPredicate, Goto, Resolve
    <3>2. CASE ~WaitPredicate(q)
      <4>1. pc' = pc \/ \E label \in RequestLabels \ {"asleep"} : Goto(q, label)
        BY <1>2, <3>2 DEF Request, Answer, Execute, WaitReady, WaitTimeout, PickShard, GetMaster,
                GetBackup, Send, AnswerValue, AnswerError, AnswerUnavailable, AnswerRedirect, FindMaster,
                CreateMaster, FindBackup, CreateBackup, Redirect, Resolve, RequestLabels
      <4> QED
        BY <4>1 DEF Goto
    <3> QED
      BY <3>1, <3>2
  <2> QED
    BY <2>1, <2>2 DEF NoLostWakeup
<1>3. CASE OtherStep \/ UNCHANGED vars
  <2>1. CASE ShutdownNotify
    BY <2>1 DEF ShutdownNotify, NotifyAll
  <2>2. CASE ~ShutdownNotify
    <3>1. pc' = pc
      BY <1>3, <2>2 DEF OtherStep, PeriodicWake, ShutdownBegin, ShutdownStep, JoinRefreshThread,
            ShutdownUnready, CoordinatorShutdown, CoordinatorJoined, TableShutdown, ShutdownEnd,
            ClearModeOverride, SetMode, Retire, ShutClient, ClientShut, vars, requestVars
    <3>2. \A g \in Refreshers : rpc[g] = "notify" => rpc'[g] = "notify"
      BY <1>3, OthersLeaveRefreshers DEF At
    <3>3. isReady' => isReady
      BY <1>3, <2>2 DEF OtherStep, PeriodicWake, ShutdownBegin, ShutdownStep, JoinRefreshThread,
            ShutdownUnready, CoordinatorShutdown, CoordinatorJoined, TableShutdown, ShutdownEnd,
            ClearModeOverride, SetMode, Retire, ShutClient, ClientShut, vars, atomicVars
    <3>4. shutdownRequested' /\ shutPc' \notin {"join", "unready", "notify"}
             => shutdownRequested /\ shutPc \notin {"join", "unready", "notify"}
      BY <1>3, <2>2 DEF OtherStep, PeriodicWake, ShutdownBegin, ShutdownStep, JoinRefreshThread,
            ShutdownUnready, CoordinatorShutdown, CoordinatorJoined, TableShutdown, ShutdownEnd,
            ClearModeOverride, SetMode, Retire, ShutClient, ClientShut, vars, atomicVars, Closing
    <3> QED
      BY <3>1, <3>2, <3>3, <3>4 DEF NoLostWakeup
  <2> QED
    BY <2>1, <2>2
<1> QED
  BY <1>1, <1>2, <1>3 DEF Next, OtherStep

(***************************************************************************)
(* No lost wake-up: a request asleep on ready_cv_ while the client is      *)
(* ready, or is being shut down, will be notified -- readiness and the     *)
(* request to stop are set before the notification, and the predicate is   *)
(* evaluated under ready_mutex_.                                           *)
(***************************************************************************)
THEOREM WakeupsAreNotLost == Spec => []NoLostWakeup
<1>1. Init => NoLostWakeup
  BY DEF Init, NoLostWakeup
<1> QED
  BY <1>1, WakeupStep, TypeInvariance, PTL DEF Spec

=============================================================================

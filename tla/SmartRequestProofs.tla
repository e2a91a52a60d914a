--------------------------- MODULE SmartRequestProofs ---------------------------
(***************************************************************************)
(* Proofs about the requests of SmartClient: failover is bounded, a        *)
(* request is repeated only after UNAVAILABLE, and, when every topology    *)
(* has at least one shard, no request reaches undefined behaviour.         *)
(*                                                                         *)
(* Each of these speaks of one request at a time.  RequestUntouched says   *)
(* what the rest of the system can do to a request, so that only the       *)
(* request's own actions are left to look at.                              *)
(***************************************************************************)
EXTENDS SmartClientProofs

\* A request before its first attempt, and one that looks for the nodes of a redirect.
Starting    == {"idle", "waitReady", "waitLock", "asleep", "shard", "master", "backup"}
Redirecting == {"findMaster", "createMaster", "findBackup", "createBackup", "redirect"}

\* The modes that have a fallback.
FallbackModes == {"LB_SMART", "MASTER_THAN_BACKUP"}

(***************************************************************************)
(* How often r was sent since its last redirect, and whether it may be     *)
(* sent again.  The fallback is spent by the second attempt, and only a    *)
(* mode that has one, or a redirect, can have provided it.                 *)
(***************************************************************************)
FailoverInv(r) ==
    /\ pc[r] \in Starting => tries[r] = 0 /\ fallback[r] = NoClient
    /\ pc[r] = "send" => tries[r] <= 1 /\ (tries[r] = 1 => fallback[r] = NoClient)
    /\ pc[r] = "inFlight" => tries[r] \in {1, 2} /\ (tries[r] = 2 => fallback[r] = NoClient)
    /\ tries[r] <= 2
    /\ pc[r] \in Redirecting => redirects[r] # 0
    /\ redirects[r] = 0 =>
          /\ fallback[r] # NoClient => mode[r] \in FallbackModes
          /\ pc[r] = "send" /\ tries[r] = 1 => mode[r] \in FallbackModes
          /\ tries[r] = 2 => mode[r] \in FallbackModes

\* An answer that may have applied r either ends it or was UNAVAILABLE.
RepeatInv(r) ==
    /\ pc[r] # "done" => applied[r] <= unavailable[r]
    /\ applied[r] <= 1 + unavailable[r]

-----------------------------------------------------------------------------
(* What the rest of the system does to a request.                            *)

\* Nothing changes for request r but that it may be woken.
Untouched(r) ==
    /\ pc'[r] = pc[r] \/ (pc[r] = "asleep" /\ pc'[r] = "waitLock")
    /\ current'[r] = current[r] /\ fallback'[r] = fallback[r] /\ mode'[r] = mode[r]
    /\ tries'[r] = tries[r] /\ redirects'[r] = redirects[r]
    /\ unavailable'[r] = unavailable[r] /\ applied'[r] = applied[r]

LEMMA RequestUntouched ==
    ASSUME TypeInv, [Next]_vars, NEW r \in Requests, ~(Execute(r) \/ Request(r))
    PROVE  Untouched(r)
<1> USE DEF TypeInv, TypeOK, RequestTypeOK
<1>1. CASE UNCHANGED requestVars
  BY <1>1 DEF requestVars, localVars, ghostVars, Untouched
<1>2. CASE NotifyAll /\ UNCHANGED <<current, fallback, localVars, ghostVars>>
  BY <1>2 DEF NotifyAll, localVars, ghostVars, Untouched
<1>3. ASSUME NEW h \in Refreshers, Refresh(h)
      PROVE  \/ UNCHANGED requestVars
             \/ NotifyAll /\ UNCHANGED <<current, fallback, localVars, ghostVars>>
  BY <1>3 DEF Refresh, RefreshEnter, RefreshCas, FetchStart, FetchOk, FetchFail, Install, Retired,
              Publish, RefreshNotify, RefreshRelease
<1>4. CASE OtherStep \/ UNCHANGED vars
  <2>1. \/ UNCHANGED requestVars
        \/ NotifyAll /\ UNCHANGED <<current, fallback, localVars, ghostVars>>
    BY <1>4 DEF OtherStep, PeriodicWake, ShutdownBegin, ShutdownStep, JoinRefreshThread,
                ShutdownUnready, ShutdownNotify, CoordinatorShutdown, CoordinatorJoined, TableShutdown,
                ShutdownEnd, ClearModeOverride, SetMode, Retire, ShutClient, ClientShut, vars
  <2> QED
    BY <1>1, <1>2, <2>1
<1>5. ASSUME NEW q \in Requests, Execute(q) \/ Request(q) PROVE Untouched(r)
  <2>1. q # r
    BY <1>5
  <2>2. pc'[r] = pc[r]
    <3>1. pc' = pc \/ \E label \in RequestLabels : Goto(q, label)
      BY <1>5 DEF Execute, Request, Answer, WaitReady, WaitPredicate, WaitTimeout, PickShard, GetMaster,
                  GetBackup, Send, AnswerValue, AnswerError, AnswerUnavailable, AnswerRedirect,
                  FindMaster, CreateMaster, FindBackup, CreateBackup, Redirect, Resolve, RequestLabels
    <3> QED
      BY <2>1, <3>1 DEF Goto
  <2>3. current'[r] = current[r]
    BY <1>5, <2>1 DEF Execute, Request, Answer, WaitReady, WaitPredicate, WaitTimeout, PickShard, GetMaster,
                  GetBackup, Send, AnswerValue, AnswerError, AnswerUnavailable, AnswerRedirect,
                  FindMaster, CreateMaster, FindBackup, CreateBackup, Redirect, Resolve
  <2>4. fallback'[r] = fallback[r]
    BY <1>5, <2>1 DEF Execute, Request, Answer, WaitReady, WaitPredicate, WaitTimeout, PickShard, GetMaster,
                  GetBackup, Send, AnswerValue, AnswerError, AnswerUnavailable, AnswerRedirect,
                  FindMaster, CreateMaster, FindBackup, CreateBackup, Redirect, Resolve
  <2>5. mode'[r] = mode[r]
    BY <1>5, <2>1 DEF Execute, Request, Answer, WaitReady, WaitPredicate, WaitTimeout, PickShard, GetMaster,
                  GetBackup, Send, AnswerValue, AnswerError, AnswerUnavailable, AnswerRedirect,
                  FindMaster, CreateMaster, FindBackup, CreateBackup, Redirect, localVars
  <2>6. /\ tries'[r] = tries[r] /\ redirects'[r] = redirects[r]
        /\ unavailable'[r] = unavailable[r] /\ applied'[r] = applied[r]
    BY <1>5, <2>1 DEF Execute, Request, Answer, WaitReady, WaitPredicate, WaitTimeout, PickShard, GetMaster,
                  GetBackup, Send, AnswerValue, AnswerError, AnswerUnavailable, AnswerRedirect,
                  FindMaster, CreateMaster, FindBackup, CreateBackup, Redirect, ghostVars, MaybeApplied
  <2> QED
    BY <2>2, <2>3, <2>4, <2>5, <2>6 DEF Untouched
<1> QED
  BY <1>1, <1>2, <1>3, <1>4, <1>5 DEF Next, OtherStep

-----------------------------------------------------------------------------
(* Failover.                                                                 *)

\* Only a mode with a fallback orders two attempts; and, with at least one route found,
\* every mode starts with a client.
LEMMA OrdersOfModes ==
    ASSUME TypeInv, NEW master, NEW backup,
           NEW o \in Orders(ModeFor(master, backup), master, backup)
    PROVE  /\ o[2] # NoClient => ModeFor(master, backup) \in FallbackModes
           /\ master # NoClient \/ backup # NoClient => o[1] # NoClient
<1>1. EffectiveMode \in AllModes
  BY DEF EffectiveMode, TypeInv, TypeOK, ClientTypeOK, AllModes
<1>2. CASE master = NoClient
  BY <1>2 DEF ModeFor, Orders
<1>3. CASE master # NoClient /\ backup = NoClient
  BY <1>3 DEF ModeFor, Orders
<1>4. CASE master # NoClient /\ backup # NoClient
  BY <1>1, <1>4 DEF ModeFor, Orders, AllModes, FallbackModes
<1> QED
  BY <1>2, <1>3, <1>4

LEMMA FailoverStep ==
    ASSUME TypeInv, [Next]_vars, NEW r \in Requests, FailoverInv(r)
    PROVE  FailoverInv(r)'
<1> USE DEF TypeInv, TypeOK, RequestTypeOK, ghostVars, localVars
<1>1. CASE ~(Execute(r) \/ Request(r))
  <2>1. Untouched(r)
    BY <1>1, RequestUntouched
  <2> QED
    BY <2>1 DEF Untouched, FailoverInv, Starting, Redirecting
<1>2. CASE Execute(r) \/ WaitReady(r) \/ WaitPredicate(r) \/ WaitTimeout(r) \/ PickShard(r) \/ GetMaster(r)
  <2>1. pc[r] \in Starting
    BY <1>2 DEF Execute, WaitReady, WaitPredicate, WaitTimeout, PickShard, GetMaster, Starting
  <2>2. pc'[r] \in Starting \cup {"done"}
    BY <1>2 DEF Execute, WaitReady, WaitPredicate, WaitTimeout, PickShard, GetMaster, Resolve, Goto, Starting
  <2>3. fallback'[r] = NoClient
    BY <1>2, <2>1 DEF Execute, WaitReady, WaitPredicate, WaitTimeout, PickShard, GetMaster, Resolve, FailoverInv
  <2>4. tries' = tries
    BY <1>2 DEF Execute, WaitReady, WaitPredicate, WaitTimeout, PickShard, GetMaster
  <2> QED
    BY <2>1, <2>2, <2>3, <2>4 DEF FailoverInv, Starting, Redirecting
<1>3. CASE GetBackup(r)
  <2> DEFINE master == current[r]
             backup == GetRoute(shard[r], "BACKUP")
             m == ModeFor(master, backup)
  <2>1. tries[r] = 0 /\ fallback[r] = NoClient /\ tries'[r] = 0 /\ redirects' = redirects
    BY <1>3 DEF GetBackup, FailoverInv, Starting
  <2>2. \/ pc'[r] = "done" /\ fallback'[r] = NoClient
        \/ /\ pc'[r] = "send" /\ mode'[r] = m
           /\ \E o \in Orders(m, master, backup) : fallback'[r] = o[2]
    BY <1>3 DEF GetBackup, Resolve, Goto
  <2> HIDE DEF master, backup
  <2>3. \/ pc'[r] = "done" /\ fallback'[r] = NoClient
        \/ pc'[r] = "send" /\ (fallback'[r] # NoClient => mode'[r] \in FallbackModes)
    BY <2>2, OrdersOfModes
  <2> QED
    BY <2>1, <2>3 DEF FailoverInv, Starting, Redirecting
<1>4. CASE Send(r)
  <2>1. pc[r] = "send" /\ redirects' = redirects /\ mode' = mode
    BY <1>4 DEF Send
  <2>2. \/ pc'[r] = "send" /\ tries' = tries /\ fallback' = fallback
        \/ pc'[r] = "done" /\ tries' = tries /\ fallback'[r] = NoClient
        \/ pc'[r] = "inFlight" /\ tries'[r] = tries[r] + 1 /\ fallback' = fallback
    BY <1>4 DEF Send, Resolve, Goto
  <2>3. /\ tries[r] <= 1 /\ (tries[r] = 1 => fallback[r] = NoClient)
        /\ redirects[r] = 0 =>
              /\ fallback[r] # NoClient => mode[r] \in FallbackModes
              /\ tries[r] = 1 => mode[r] \in FallbackModes
    BY <2>1 DEF FailoverInv
  <2>4. tries[r] \in {0, 1}
    <3>1. tries[r] \in Nat
      OBVIOUS
    <3> QED
      BY ONLY <2>3, <3>1
  <2> QED
    BY <2>1, <2>2, <2>3, <2>4 DEF FailoverInv, Starting, Redirecting
<1>5. CASE AnswerValue(r) \/ AnswerError(r)
  <2>1. pc'[r] = "done" /\ fallback'[r] = NoClient /\ UNCHANGED <<tries, mode, redirects>>
    BY <1>5 DEF AnswerValue, AnswerError, Resolve, Goto
  <2> QED
    BY <2>1 DEF FailoverInv, Starting, Redirecting
<1>6. CASE AnswerUnavailable(r)
  <2>1. pc[r] = "inFlight" /\ fallback'[r] = NoClient /\ UNCHANGED <<tries, mode, redirects>>
    BY <1>6 DEF AnswerUnavailable, Resolve
  <2>2. pc'[r] = "done" \/ (pc'[r] = "send" /\ fallback[r] # NoClient)
    BY <1>6 DEF AnswerUnavailable, Resolve, Goto
  <2> QED
    BY <2>1, <2>2 DEF FailoverInv, Starting, Redirecting
<1>7. CASE AnswerRedirect(r)
  <2>1. pc'[r] = "findMaster" /\ redirects'[r] = redirects[r] + 1 /\ UNCHANGED <<tries, mode, fallback>>
    BY <1>7 DEF AnswerRedirect, Goto
  <2>2. redirects[r] + 1 # 0
    OBVIOUS
  <2> QED
    BY <2>1, <2>2 DEF FailoverInv, Starting, Redirecting
<1>8. CASE FindMaster(r) \/ CreateMaster(r) \/ FindBackup(r) \/ CreateBackup(r)
  <2>1. pc[r] \in Redirecting /\ pc'[r] \in Redirecting /\ UNCHANGED <<tries, mode, redirects>>
    BY <1>8 DEF FindMaster, CreateMaster, FindBackup, CreateBackup, Goto, Redirecting
  <2> QED
    BY <2>1 DEF FailoverInv, Starting, Redirecting
<1>9. CASE Redirect(r)
  <2>1. redirects[r] # 0 /\ redirects' = redirects
    BY <1>9 DEF Redirect, FailoverInv, Redirecting
  <2>2. \/ pc'[r] = "send" /\ tries'[r] = 0
        \/ pc'[r] = "done" /\ tries' = tries
    BY <1>9 DEF Redirect, Resolve, Goto
  <2> QED
    BY <2>1, <2>2 DEF FailoverInv, Starting, Redirecting
<1> QED
  BY <1>1, <1>2, <1>3, <1>4, <1>5, <1>6, <1>7, <1>8, <1>9 DEF Request, Answer

(***************************************************************************)
(* Failover is bounded: without a new redirect, at most two clients are    *)
(* tried, and a second one only in a mode that has a fallback, whatever    *)
(* the refreshes and the other requests do to the table meanwhile.         *)
(***************************************************************************)
THEOREM FailoverEnds == Spec => []FailoverIsBounded
<1> DEFINE Inv == \A r \in Requests : FailoverInv(r)
<1>1. Init => Inv
  BY DEF Init, FailoverInv, Starting, Redirecting
<1>2. TypeInv /\ Inv /\ [Next]_vars => Inv'
  BY FailoverStep
<1>3. TypeInv /\ Inv => FailoverIsBounded
  BY DEF FailoverInv, FailoverIsBounded, FallbackModes
<1> QED
  BY <1>1, <1>2, <1>3, TypeInvariance, PTL DEF Spec

-----------------------------------------------------------------------------
(* Repetition.                                                               *)

LEMMA RepeatStep ==
    ASSUME TypeInv, [Next]_vars, NEW r \in Requests, RepeatInv(r)
    PROVE  RepeatInv(r)'
<1> USE DEF TypeInv, TypeOK, RequestTypeOK
<1>1. CASE ~(Execute(r) \/ Request(r))
  <2>1. Untouched(r)
    BY <1>1, RequestUntouched
  <2> QED
    BY <2>1 DEF Untouched, RepeatInv
<1>2. CASE AnswerValue(r) \/ AnswerError(r)
  <2>1. pc[r] = "inFlight" /\ pc'[r] = "done" /\ unavailable' = unavailable
    BY <1>2 DEF AnswerValue, AnswerError, Resolve, Goto
  <2>2. \E n \in {0, 1} : applied'[r] = applied[r] + n
    BY <1>2 DEF AnswerValue, AnswerError, MaybeApplied
  <2> QED
    BY <2>1, <2>2 DEF RepeatInv
<1>3. CASE AnswerUnavailable(r)
  <2>1. pc[r] = "inFlight" /\ unavailable'[r] = unavailable[r] + 1
    BY <1>3 DEF AnswerUnavailable
  <2>2. \E n \in {0, 1} : applied'[r] = applied[r] + n
    BY <1>3 DEF AnswerUnavailable, MaybeApplied
  <2> QED
    BY <2>1, <2>2 DEF RepeatInv
<1>4. CASE /\ Execute(r) \/ Request(r)
           /\ ~AnswerValue(r) /\ ~AnswerError(r) /\ ~AnswerUnavailable(r)
  <2>1. pc[r] # "done" /\ UNCHANGED <<applied, unavailable>>
    BY <1>4 DEF Execute, Request, Answer, WaitReady, WaitPredicate, WaitTimeout, PickShard, GetMaster,
                GetBackup, Send, AnswerRedirect, FindMaster, CreateMaster, FindBackup, CreateBackup,
                Redirect, ghostVars
  <2> QED
    BY <2>1 DEF RepeatInv
<1> QED
  BY <1>1, <1>2, <1>3, <1>4

(***************************************************************************)
(* At most once, but for UNAVAILABLE: a server carries a request out       *)
(* beyond the first time only as often as an answer was UNAVAILABLE; an    *)
(* error, a deadline or a redirect never makes the client repeat it.       *)
(***************************************************************************)
THEOREM RepeatsAreJustified == Spec => []RepeatsOnlyAfterUnavailable
<1> DEFINE Inv == \A r \in Requests : RepeatInv(r)
<1>1. Init => Inv
  BY DEF Init, RepeatInv
<1>2. TypeInv /\ Inv /\ [Next]_vars => Inv'
  BY RepeatStep
<1>3. Inv => RepeatsOnlyAfterUnavailable
  BY DEF RepeatInv, RepeatsOnlyAfterUnavailable
<1> QED
  BY <1>1, <1>2, <1>3, TypeInvariance, PTL DEF Spec

-----------------------------------------------------------------------------
(* Undefined behaviour.                                                      *)

(***************************************************************************)
(* Every topology has a shard.  The client does not check it: with a       *)
(* topology of zero shards it divides by zero (run smart_no_chunk).        *)
(***************************************************************************)
PositiveShards == \A T \in Topologies : T.max # 0

\* A request that is about to be sent has a client to send it to.
SafeInv ==
    /\ ~crashed
    /\ maxShards # 0
    /\ \A r \in Requests : pc[r] = "send" => current[r] # NoClient

LEMMA SafeStep ==
    ASSUME PositiveShards, TypeInv, SafeInv, [Next]_vars
    PROVE  SafeInv'
<1> USE DEF TypeInv, TypeOK, RequestTypeOK
<1>1. maxShards' # 0
  <2>1. ASSUME NEW h \in Refreshers, Refresh(h) PROVE maxShards' # 0
    <3>1. CASE Install(h)
      BY <3>1, UpdateTypes DEF Install, FetchedInv, PositiveShards
    <3>2. CASE ~Install(h)
      <4>1. maxShards' = maxShards
        BY <2>1, <3>2 DEF Refresh, RefreshEnter, RefreshCas, FetchStart, FetchOk, FetchFail, Retired,
                          Publish, RefreshNotify, RefreshRelease, tableVars
      <4> QED
        BY <4>1 DEF SafeInv
    <3> QED
      BY <3>1, <3>2
  <2>2. ASSUME NEW r \in Requests, Execute(r) \/ Request(r) PROVE maxShards' = maxShards
    BY <2>2 DEF Execute, Request, Answer, WaitReady, WaitPredicate, WaitTimeout, PickShard, GetMaster,
                GetBackup, Send, AnswerValue, AnswerError, AnswerUnavailable, AnswerRedirect, FindMaster,
                CreateMaster, FindBackup, CreateBackup, Redirect, tableVars
  <2>3. CASE OtherStep \/ UNCHANGED vars
    <3>1. maxShards' = maxShards
      BY <2>3 DEF OtherStep, PeriodicWake, ShutdownBegin, ShutdownStep, JoinRefreshThread,
            ShutdownUnready, ShutdownNotify, CoordinatorShutdown, CoordinatorJoined, TableShutdown,
            ShutdownEnd, ClearModeOverride, SetMode, Retire, ShutClient, ClientShut, vars, tableVars
    <3> QED
      BY <3>1 DEF SafeInv
  <2> QED
    BY <2>1, <2>2, <2>3 DEF Next, OtherStep, SafeInv
<1>2. ~crashed'
  <2>1. ASSUME NEW r \in Requests, Execute(r) \/ Request(r) PROVE crashed' = crashed
    <3>1. CASE PickShard(r)
      BY <3>1 DEF PickShard, SafeInv
    <3>2. CASE Send(r)
      BY <3>2 DEF Send, SafeInv
    <3>3. CASE ~PickShard(r) /\ ~Send(r)
      BY <2>1, <3>3 DEF Execute, Request, Answer, WaitReady, WaitPredicate, WaitTimeout, GetMaster,
                GetBackup, AnswerValue, AnswerError, AnswerUnavailable, AnswerRedirect, FindMaster,
                CreateMaster, FindBackup, CreateBackup, Redirect
    <3> QED
      BY <3>1, <3>2, <3>3
  <2>2. ASSUME NEW h \in Refreshers, Refresh(h) PROVE crashed' = crashed
    BY <2>2 DEF Refresh, RefreshEnter, RefreshCas, FetchStart, FetchOk, FetchFail, Install, Retired,
                Publish, RefreshNotify, RefreshRelease
  <2>3. OtherStep \/ UNCHANGED vars => crashed' = crashed
    BY DEF OtherStep, PeriodicWake, ShutdownBegin, ShutdownStep, JoinRefreshThread,
            ShutdownUnready, ShutdownNotify, CoordinatorShutdown, CoordinatorJoined, TableShutdown,
            ShutdownEnd, ClearModeOverride, SetMode, Retire, ShutClient, ClientShut, vars
  <2>4. crashed' = crashed
    BY <2>1, <2>2, <2>3 DEF Next, OtherStep
  <2> QED
    BY <2>4 DEF SafeInv
<1>3. ASSUME NEW r \in Requests, pc'[r] = "send" PROVE current'[r] # NoClient
  <2>1. CASE ~(Execute(r) \/ Request(r))
    <3>1. Untouched(r)
      BY <2>1, RequestUntouched
    <3> QED
      BY <1>3, <3>1 DEF Untouched, SafeInv
  <2>2. CASE GetBackup(r)
    <3> DEFINE master == current[r]
               backup == GetRoute(shard[r], "BACKUP")
    <3>1. \/ pc'[r] = "done"
          \/ /\ master # NoClient \/ backup # NoClient
             /\ \E o \in Orders(ModeFor(master, backup), master, backup) : current'[r] = o[1]
      BY <2>2 DEF GetBackup, Resolve, Goto
    <3> HIDE DEF master, backup
    <3> QED
      BY <1>3, <3>1, OrdersOfModes
  <2>3. CASE Send(r)
    <3>1. pc'[r] = pc[r] /\ current' = current
      BY <1>3, <2>3 DEF Send, Resolve, Goto
    <3> QED
      BY <1>3, <3>1 DEF SafeInv
  <2>4. CASE AnswerUnavailable(r) \/ Redirect(r)
    BY <1>3, <2>4 DEF AnswerUnavailable, Redirect, Resolve, Goto
  <2>5. CASE /\ Execute(r) \/ Request(r)
             /\ ~GetBackup(r) /\ ~Send(r) /\ ~AnswerUnavailable(r) /\ ~Redirect(r)
    <3>1. pc' = pc \/ \E label \in RequestLabels \ {"send"} : Goto(r, label)
      BY <2>5 DEF Execute, Request, Answer, WaitReady, WaitPredicate, WaitTimeout, PickShard, GetMaster,
                  AnswerValue, AnswerError, AnswerRedirect, FindMaster, CreateMaster, FindBackup,
                  CreateBackup, Resolve, RequestLabels
    <3>2. pc[r] # "send"
      BY <2>5 DEF Execute, Request, Answer, WaitReady, WaitPredicate, WaitTimeout, PickShard, GetMaster,
                  AnswerValue, AnswerError, AnswerRedirect, FindMaster, CreateMaster, FindBackup,
                  CreateBackup
    <3> QED
      BY <1>3, <3>1, <3>2 DEF Goto
  <2> QED
    BY <2>1, <2>2, <2>3, <2>4, <2>5
<1> QED
  BY <1>1, <1>2, <1>3 DEF SafeInv

(***************************************************************************)
(* When every topology has a shard, no request divides by zero and none    *)
(* is sent through a null client, however updates and shutdown() change    *)
(* the table between the lookups of a request.                             *)
(***************************************************************************)
THEOREM PositiveShardsAreSafe ==
    ASSUME PositiveShards
    PROVE  Spec => []NoUndefinedBehaviour
<1>1. Init => SafeInv
  BY TableAssumption DEF Init, TableInit, SafeInv
<1>2. TypeInv /\ SafeInv /\ [Next]_vars => SafeInv'
  BY SafeStep
<1>3. SafeInv => NoUndefinedBehaviour
  BY DEF SafeInv, NoUndefinedBehaviour
<1> QED
  BY <1>1, <1>2, <1>3, TypeInvariance, PTL DEF Spec

=============================================================================

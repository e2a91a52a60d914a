------------------------- MODULE CoordinatorClient -------------------------
(***************************************************************************)
(* CoordinatorClient: fetching the routing information of the cluster.     *)
(*                                                                         *)
(* Refresh threads call provideGlobalRoutingInfo(), each for a coordinator *)
(* of its choice; all share one cached stub, which is replaced when the    *)
(* coordinator changes.  The reply is a stream of chunks that one          *)
(* completion-queue thread puts together.  shutdown() may run on another   *)
(* thread.  gRPC and the coordinators are external; an operation completes *)
(* at the moment cq_.Next hands it out.                                    *)
(***************************************************************************)
EXTENDS Naturals, SequencesExt

CONSTANTS
    Fetches,            \* the calls of provideGlobalRoutingInfo, each made at most once
    Target,             \* Target[f]: the coordinator f asks
    Targets,
    NoTarget,           \* the empty active_target_
    Deadlined,          \* the fetches with a positive timeout
    Chunks,             \* the RoutingInfoData a coordinator may send: [max, peers]
    NoInfo,             \* the null accumulated_result
    MaxChunks           \* bound: MaxChunks[f] chunks in the reply to f

Numbers == {0} \cup {k.max : k \in Chunks}
Peers   == UNION {ToSet(k.peers) : k \in Chunks}

ASSUME CoordinatorAssumption ==
    /\ Target \in [Fetches -> Targets]
    /\ NoTarget \notin Targets
    /\ Deadlined \subseteq Fetches
    /\ Chunks \subseteq [max : Nat, peers : Seq(Peers)]
    /\ NoInfo \notin [max : Nat, peers : Seq(Peers)]
    /\ MaxChunks \in [Fetches -> Nat]

VARIABLES
    shutdown,           \* shutdown_
    activeTarget,       \* active_target_
    stub,               \* stub_ and channel_: the coordinator they lead to, or NoTarget
    cq,                 \* cq_: "open" or "shut"
    cqThread,           \* cq_thread_: "running" or "exited"
    shutPc,             \* where the thread in shutdown() is
    pc,                 \* pc[f]: where f's thread is in provideGlobalRoutingInfo
    via,                \* via[f]: the coordinator the stub it got leads to
    state,              \* state[f]: the RoutingStreamCallData and its State
    accumulated,        \* accumulated[f]: accumulated_result
    promise,            \* promise[f]: "unset", "value" or "error"
    sent,               \* sent[f]: the chunks the coordinator has sent
    delivered,          \* delivered[f]: how many of them were read
    final,              \* final[f]: the RPC's outcome: "none", "OK" or "ERR"
    crashed             \* gRPC aborted the process

clientVars == <<shutdown, activeTarget, stub, cq, cqThread, shutPc>>
callVars   == <<state, accumulated, promise>>
wireVars   == <<sent, delivered, final>>
vars == <<clientVars, pc, via, callVars, wireVars, crashed>>

TypeOK ==
    /\ shutdown \in BOOLEAN
    /\ activeTarget \in Targets \cup {NoTarget}
    /\ stub \in Targets \cup {NoTarget}
    /\ cq \in {"open", "shut"}
    /\ cqThread \in {"running", "exited"}
    /\ shutPc \in {"idle", "channel", "queue", "join", "done"}
    /\ pc \in [Fetches -> {"idle", "checked", "gotStub", "returned"}]
    /\ via \in [Fetches -> Targets \cup {NoTarget}]
    /\ state \in [Fetches -> {"none", "STARTED", "READING", "FINISHING", "deleted"}]
    /\ accumulated \in [Fetches -> [max : Numbers, peers : Seq(Peers)] \cup {NoInfo}]
    /\ promise \in [Fetches -> {"unset", "value", "error"}]
    /\ sent \in [Fetches -> Seq(Chunks)]
    /\ delivered \in [Fetches -> Nat]
    /\ final \in [Fetches -> {"none", "OK", "ERR"}]
    /\ crashed \in BOOLEAN

Init ==
    /\ shutdown = FALSE
    /\ activeTarget = NoTarget
    /\ stub = NoTarget
    /\ cq = "open"
    /\ cqThread = "running"
    /\ shutPc = "idle"
    /\ pc = [f \in Fetches |-> "idle"]
    /\ via = [f \in Fetches |-> NoTarget]
    /\ state = [f \in Fetches |-> "none"]
    /\ accumulated = [f \in Fetches |-> NoInfo]
    /\ promise = [f \in Fetches |-> "unset"]
    /\ sent = [f \in Fetches |-> <<>>]
    /\ delivered = [f \in Fetches |-> 0]
    /\ final = [f \in Fetches |-> "none"]
    /\ crashed = FALSE

-----------------------------------------------------------------------------
(* provideGlobalRoutingInfo, on a refresh thread.                           *)

InFlight == {f \in Fetches : state[f] \in {"STARTED", "READING", "FINISHING"}}

RejectFetch(f) ==
    /\ pc[f] = "idle"
    /\ shutdown
    /\ pc' = [pc EXCEPT ![f] = "returned"]
    /\ promise' = [promise EXCEPT ![f] = "error"]
    /\ UNCHANGED <<clientVars, via, state, accumulated, wireVars, crashed>>

\* Mutant: shutdown_ is not tested.
BeginFetchUnchecked(f) ==
    /\ pc[f] = "idle"
    /\ pc' = [pc EXCEPT ![f] = "checked"]
    /\ UNCHANGED <<clientVars, via, callVars, wireVars, crashed>>

BeginFetch(f) ==
    /\ pc[f] = "idle"
    /\ ~shutdown
    /\ pc' = [pc EXCEPT ![f] = "checked"]
    /\ UNCHANGED <<clientVars, via, callVars, wireVars, crashed>>

\* Mutant: any stub there is will do.
EnsureStubOfAnyTarget(f) ==
    /\ pc[f] = "checked"
    /\ pc' = [pc EXCEPT ![f] = "gotStub"]
    /\ IF stub # NoTarget
         THEN UNCHANGED <<activeTarget, stub>>
         ELSE activeTarget' = Target[f] /\ stub' = Target[f]
    /\ via' = [via EXCEPT ![f] = stub']
    /\ UNCHANGED <<shutdown, cq, cqThread, shutPc, callVars, wireVars, crashed>>

\* ensureStub, under channel_mutex_: the cached stub, or a new channel and stub.  The
\* thread keeps the stub it got alive when another one replaces it.
EnsureStub(f) ==
    /\ pc[f] = "checked"
    /\ pc' = [pc EXCEPT ![f] = "gotStub"]
    /\ IF stub # NoTarget /\ activeTarget = Target[f]
         THEN UNCHANGED <<activeTarget, stub>>
         ELSE activeTarget' = Target[f] /\ stub' = Target[f]
    /\ via' = [via EXCEPT ![f] = stub']
    /\ UNCHANGED <<shutdown, cq, cqThread, shutPc, callVars, wireVars, crashed>>

\* An operation f starts on cq_ is accepted while the queue is open; once it is shut
\* down, only if something is outstanding, which another fetch in flight may have.
\* Otherwise gRPC aborts the process.
QueueMayAccept(f) == cq = "open" \/ InFlight \ {f} # {}

Abort ==
    /\ cq = "shut"
    /\ crashed' = TRUE
    /\ UNCHANGED <<clientVars, pc, via, callVars, wireVars>>

\* The call object, its deadline, and StartCall.
StartFetch(f) ==
    /\ pc[f] = "gotStub"
    /\ QueueMayAccept(f)
    /\ pc' = [pc EXCEPT ![f] = "returned"]
    /\ state' = [state EXCEPT ![f] = "STARTED"]
    /\ UNCHANGED <<clientVars, via, accumulated, promise, wireVars, crashed>>

StartAborts(f) == pc[f] = "gotStub" /\ Abort

-----------------------------------------------------------------------------
(* gRPC and the coordinators (external).                                    *)

CoordinatorSend(f) ==
    /\ f \in InFlight
    /\ final[f] = "none"
    /\ Len(sent[f]) < MaxChunks[f]
    /\ \E k \in Chunks : sent' = [sent EXCEPT ![f] = Append(@, k)]
    /\ UNCHANGED <<clientVars, pc, via, callVars, delivered, final, crashed>>

\* The coordinator ends the stream, or the connection fails.
CoordinatorEnd(f) ==
    /\ f \in InFlight
    /\ final[f] = "none"
    /\ \E s \in {"OK", "ERR"} : final' = [final EXCEPT ![f] = s]
    /\ UNCHANGED <<clientVars, pc, via, callVars, sent, delivered, crashed>>

DeadlineExpires(f) ==
    /\ f \in InFlight \cap Deadlined
    /\ final[f] # "ERR"
    /\ final' = [final EXCEPT ![f] = "ERR"]
    /\ UNCHANGED <<clientVars, pc, via, callVars, sent, delivered, crashed>>

\* The stream is read to its end, or cut.
Drained(f) == final[f] = "ERR" \/ (final[f] = "OK" /\ delivered[f] = Len(sent[f]))

-----------------------------------------------------------------------------
(* RoutingStreamCallData::Proceed, on the completion-queue thread.          *)

\* The operation f's State waits for completes, and Proceed takes it there.
Proceeding(f, from, to) ==
    /\ cqThread = "running"
    /\ state[f] = from
    /\ state' = [state EXCEPT ![f] = to]

\* State::STARTED.
ProceedStarted(f) ==
    /\ QueueMayAccept(f)
    /\ \/ Proceeding(f, "STARTED", "READING")
       \/ final[f] = "ERR" /\ Proceeding(f, "STARTED", "FINISHING")
    /\ UNCHANGED <<clientVars, pc, via, accumulated, promise, wireVars, crashed>>

\* Mutant: the last chunk's peers replace the others.
AccumulateReplaces(info, k) ==
    LET i == IF info = NoInfo THEN [max |-> 0, peers |-> <<>>] ELSE info
    IN  [max |-> IF i.max = 0 THEN k.max ELSE i.max, peers |-> k.peers]

\* Mutant: the shard numbers of the chunks are added up.
AccumulateAddsShards(info, k) ==
    LET i == IF info = NoInfo THEN [max |-> 0, peers |-> <<>>] ELSE info
    IN  [max |-> i.max + k.max, peers |-> i.peers \o k.peers]

\* The first positive max_shards counts; the peers of all chunks are appended.
Accumulate(info, k) ==
    LET i == IF info = NoInfo THEN [max |-> 0, peers |-> <<>>] ELSE info
    IN  [max |-> IF i.max = 0 THEN k.max ELSE i.max, peers |-> i.peers \o k.peers]

\* State::READING with a chunk.
ProceedChunk(f) ==
    /\ QueueMayAccept(f)
    /\ Proceeding(f, "READING", "READING")
    /\ delivered[f] < Len(sent[f])
    /\ delivered' = [delivered EXCEPT ![f] = @ + 1]
    /\ accumulated' = [accumulated EXCEPT ![f] = Accumulate(@, sent[f][delivered[f] + 1])]
    /\ UNCHANGED <<clientVars, pc, via, promise, sent, final, crashed>>

\* Mutant: the end of the stream deletes the call object without asking for the status.
ProceedEndOfStreamDeletes(f) ==
    /\ Drained(f)
    /\ Proceeding(f, "READING", "deleted")
    /\ UNCHANGED <<clientVars, pc, via, accumulated, promise, wireVars, crashed>>

\* State::READING at the end of the stream.
ProceedEndOfStream(f) ==
    /\ QueueMayAccept(f)
    /\ Drained(f)
    /\ Proceeding(f, "READING", "FINISHING")
    /\ UNCHANGED <<clientVars, pc, via, accumulated, promise, wireVars, crashed>>

\* The next Read or Finish is requested on the queue shutdown() shut.
ProceedAborts(f) ==
    /\ cqThread = "running"
    /\ \/ state[f] = "STARTED"
       \/ state[f] = "READING" /\ (delivered[f] < Len(sent[f]) \/ Drained(f))
    /\ Abort

\* State::FINISHING: OK yields what was accumulated, be it nothing at all.
ProceedFinished(f) ==
    /\ Drained(f)
    /\ Proceeding(f, "FINISHING", "deleted")
    /\ IF final[f] = "OK"
         THEN /\ promise' = [promise EXCEPT ![f] = "value"]
              /\ accumulated' = [accumulated EXCEPT ![f] =
                     IF @ = NoInfo THEN [max |-> 0, peers |-> <<>>] ELSE @]
         ELSE /\ promise' = [promise EXCEPT ![f] = "error"]
              /\ UNCHANGED accumulated
    /\ UNCHANGED <<clientVars, pc, via, wireVars, crashed>>

\* cq_.Next returns false.
CqThreadExits ==
    /\ cqThread = "running"
    /\ cq = "shut"
    /\ InFlight = {}
    /\ cqThread' = "exited"
    /\ UNCHANGED <<shutdown, activeTarget, stub, cq, shutPc, pc, via, callVars, wireVars, crashed>>

-----------------------------------------------------------------------------
(* shutdown().                                                              *)

ShutdownBegin ==
    /\ shutPc = "idle"
    /\ shutdown' = TRUE
    /\ shutPc' = "channel"
    /\ UNCHANGED <<activeTarget, stub, cq, cqThread, pc, via, callVars, wireVars, crashed>>

\* Under channel_mutex_.
ResetChannel ==
    /\ shutPc = "channel"
    /\ stub' = NoTarget
    /\ activeTarget' = NoTarget
    /\ shutPc' = "queue"
    /\ UNCHANGED <<shutdown, cq, cqThread, pc, via, callVars, wireVars, crashed>>

ShutCq ==
    /\ shutPc = "queue"
    /\ cq' = "shut"
    /\ shutPc' = "join"
    /\ UNCHANGED <<shutdown, activeTarget, stub, cqThread, pc, via, callVars, wireVars, crashed>>

JoinCqThread ==
    /\ shutPc = "join"
    /\ cqThread = "exited"
    /\ shutPc' = "done"
    /\ UNCHANGED <<shutdown, activeTarget, stub, cq, cqThread, pc, via, callVars, wireVars, crashed>>

-----------------------------------------------------------------------------
ProvideGlobalRoutingInfo(f) == EnsureStub(f) \/ StartFetch(f) \/ StartAborts(f)

Proceed(f) == \/ ProceedStarted(f) \/ ProceedChunk(f) \/ ProceedEndOfStream(f)
              \/ ProceedFinished(f) \/ ProceedAborts(f)

\* An aborted process takes no step.
Next ==
    /\ ~crashed
    /\ \/ \E f \in Fetches :
             \/ RejectFetch(f) \/ BeginFetch(f) \/ ProvideGlobalRoutingInfo(f)
             \/ CoordinatorSend(f) \/ CoordinatorEnd(f) \/ DeadlineExpires(f)
             \/ Proceed(f)
       \/ CqThreadExits
       \/ ShutdownBegin \/ ResetChannel \/ ShutCq \/ JoinCqThread

Spec == Init /\ [][Next]_vars

(***************************************************************************)
(* Threads run, completions are delivered, a deadline passes.  The         *)
(* coordinators owe nothing, and nobody has to fetch or to shut down.      *)
(***************************************************************************)
Fairness ==
    /\ \A f \in Fetches :
          /\ WF_vars(~crashed /\ ProvideGlobalRoutingInfo(f))
          /\ WF_vars(~crashed /\ DeadlineExpires(f))
          /\ WF_vars(~crashed /\ Proceed(f))

FairSpec == Spec /\ Fairness

-----------------------------------------------------------------------------
(* Properties.                                                              *)

(***************************************************************************)
(* A fetch talks to the coordinator it was asked for, although the cached  *)
(* stub may be replaced between the lookup and the start of the call by a  *)
(* fetch for another coordinator.                                          *)
(***************************************************************************)
FetchReachesItsTarget == \A f \in InFlight : via[f] = Target[f]

(***************************************************************************)
(* A fetch that yields a value yields the whole table of the coordinator:  *)
(* the peers of every chunk in order, the first positive number of shards, *)
(* and a stream that ended with OK.  A table cut by an error or by the     *)
(* deadline is never installed.                                            *)
(***************************************************************************)
\* m is the first positive number of shards among the first n chunks of s, 0 if none is.
IsFirstPositive(m, s, n) ==
    \/ m = 0 /\ \A i \in 1..n : s[i].max = 0
    \/ \E i \in 1..n : m > 0 /\ m = s[i].max /\ \A j \in 1..(i - 1) : s[j].max = 0

\* The peers of chunk i end at cut[i] in ps.
EndsAt(cut, ps, s, n) ==
    /\ cut[0] = 0
    /\ cut[n] = Len(ps)
    /\ \A i \in 1..n :
          /\ cut[i] = cut[i - 1] + Len(s[i].peers)
          /\ \A j \in 1..Len(s[i].peers) : ps[cut[i - 1] + j] = s[i].peers[j]

\* ps is the peers of the first n chunks of s, one chunk after the other.
IsConcatenation(ps, s, n) == \E cut \in [0..n -> 0..Len(ps)] : EndsAt(cut, ps, s, n)

IsTableOf(info, s, n) == IsFirstPositive(info.max, s, n) /\ IsConcatenation(info.peers, s, n)

ReplyIsWholeTable ==
    \A f \in Fetches : promise[f] = "value" =>
        /\ final[f] = "OK"
        /\ accumulated[f] # NoInfo
        /\ IsTableOf(accumulated[f], sent[f], Len(sent[f]))

(***************************************************************************)
(* Every fetch with a deadline resolves, unless gRPC aborts the process.   *)
(***************************************************************************)
FetchesResolve == \A f \in Deadlined : pc[f] = "checked" ~> promise[f] # "unset" \/ crashed

(***************************************************************************)
(* Refinement: the client implements RpcContract, whatever the fetching    *)
(* threads do while shutdown() runs: the smart client does not join the    *)
(* detached ones.  A fetch that races with shutdown() is rejected,         *)
(* accepted in time and then resolved, or the one the process ends with.   *)
(***************************************************************************)
phase == [f \in Fetches |-> IF promise[f] # "unset" THEN promise[f]
                            ELSE IF pc[f] = "idle" THEN "new"
                            ELSE IF pc[f] = "returned" THEN "pending" ELSE "entered"]
door == IF ~shutdown THEN "open" ELSE IF shutPc = "done" THEN "closed" ELSE "closing"

Contract == INSTANCE RpcContract WITH Calls <- Fetches

ImplementsContract == Contract!Spec

=============================================================================

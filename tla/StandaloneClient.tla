-------------------------- MODULE StandaloneClient --------------------------
(***************************************************************************)
(* FastCacheStandaloneClient: the life of its asynchronous RPCs.           *)
(*                                                                         *)
(* A caller's thread runs SendAsyncRequest (unary) or                      *)
(* SendAsyncStreamRequest (server stream); one completion-queue thread     *)
(* runs RunCompletionQueue and calls Proceed on the heap-allocated call    *)
(* object of every event; another thread may run shutdown().  gRPC itself  *)
(* (stub, completion queue, server) is external: it is modelled by what    *)
(* the client can observe of it.                                           *)
(***************************************************************************)
EXTENDS Naturals, FiniteSets

CONSTANTS
    Calls,              \* the calls the callers make, each at most once
    StreamCalls,        \* those that go through SendAsyncStreamRequest
    Timeout,            \* Timeout[c]: the timeout argument of the call, in ms
    DefaultTimeout,     \* defaultTimeout_
    MaxChunks,          \* bound: chunks a server sends on one stream
    Serialised          \* the calls whose callers synchronise with shutdown(), as README asks

ASSUME CallAssumption ==
    /\ StreamCalls \subseteq Calls
    /\ Timeout \in [Calls -> Nat]
    /\ DefaultTimeout \in Nat
    /\ MaxChunks \in Nat
    /\ Serialised \subseteq Calls

VARIABLES
    shutdownCalled,     \* shutdown_called_
    stub,               \* asyncStub_: "live", or "null" once reset
    cq,                 \* cq_: "open", or "shut" after cq_.Shutdown()
    cqThread,           \* completion_queue_thread_: "running" or "exited"
    shutPc,             \* where the thread in shutdown() is
    pc,                 \* pc[c]: where the caller's thread is in Send...
    got,                \* got[c]: the stub pointer it read
    state,              \* state[c]: the call object and its State
    status,             \* status[c]: the call object's grpc::Status
    acc,                \* acc[c]: chunks in accumulated_result
    threw,              \* threw[c]: chunk_accumulator threw
    promise,            \* promise[c]: "unset", "value" or "error"
    pending,            \* pending[c]: operations started and not completed
    events,             \* completions queued in cq_: [call, op, ok]
    sent,               \* sent[c]: chunks the server sent
    delivered,          \* delivered[c]: chunks handed to Read
    final,              \* final[c]: the RPC's outcome: "none", "OK" or "ERR"
    crashed             \* undefined behaviour, or gRPC aborted the process

clientVars == <<shutdownCalled, stub, cq, cqThread, shutPc>>
callerVars == <<pc, got>>
callVars   == <<state, status, acc, threw, promise>>
queueVars  == <<pending, events>>
wireVars   == <<sent, delivered, final>>
vars == <<clientVars, callerVars, callVars, queueVars, wireVars, crashed>>

Ops == {"start", "read", "finish"}
Events == [call : Calls, op : Ops, ok : BOOLEAN]
States == {"none", "UNARY", "STARTED", "READING", "FINISHING", "deleted"}

TypeOK ==
    /\ shutdownCalled \in BOOLEAN
    /\ stub \in {"live", "null"}
    /\ cq \in {"open", "shut"}
    /\ cqThread \in {"running", "exited"}
    /\ shutPc \in {"idle", "resetStub", "shutCq", "join", "done"}
    /\ pc \in [Calls -> {"idle", "checked", "gotStub", "prepared", "returned"}]
    /\ got \in [Calls -> {"none", "live", "null"}]
    /\ state \in [Calls -> States]
    /\ status \in [Calls -> {"OK", "ERR"}]
    /\ acc \in [Calls -> Nat]
    /\ threw \in [Calls -> BOOLEAN]
    /\ promise \in [Calls -> {"unset", "value", "error"}]
    /\ pending \in [Calls -> SUBSET Ops]
    /\ events \subseteq Events
    /\ sent \in [Calls -> Nat]
    /\ delivered \in [Calls -> Nat]
    /\ final \in [Calls -> {"none", "OK", "ERR"}]
    /\ crashed \in BOOLEAN

Init ==
    /\ shutdownCalled = FALSE
    /\ stub = "live"
    /\ cq = "open"
    /\ cqThread = "running"
    /\ shutPc = "idle"
    /\ pc = [c \in Calls |-> "idle"]
    /\ got = [c \in Calls |-> "none"]
    /\ state = [c \in Calls |-> "none"]
    /\ status = [c \in Calls |-> "OK"]
    /\ acc = [c \in Calls |-> 0]
    /\ threw = [c \in Calls |-> FALSE]
    /\ promise = [c \in Calls |-> "unset"]
    /\ pending = [c \in Calls |-> {}]
    /\ events = {}
    /\ sent = [c \in Calls |-> 0]
    /\ delivered = [c \in Calls |-> 0]
    /\ final = [c \in Calls |-> "none"]
    /\ crashed = FALSE

-----------------------------------------------------------------------------
(* SendAsyncRequest and SendAsyncStreamRequest, on the caller's thread.     *)

EffectiveTimeout(c) == IF Timeout[c] > 0 THEN Timeout[c] ELSE DefaultTimeout

HasDeadline(c) == EffectiveTimeout(c) > 0

Issuing == {c \in Calls : pc[c] \in {"checked", "gotStub", "prepared"}}

\* The caller may start the call now: always, unless it synchronises.
MayEnter(c) == c \in Serialised => shutPc \in {"idle", "done"}

\* isShutdown() is true: the future comes back already failed.
RejectCall(c) ==
    /\ pc[c] = "idle"
    /\ MayEnter(c)
    /\ shutdownCalled
    /\ pc' = [pc EXCEPT ![c] = "returned"]
    /\ promise' = [promise EXCEPT ![c] = "error"]
    /\ UNCHANGED <<clientVars, got, state, status, acc, threw, queueVars, wireVars, crashed>>

\* Mutant: the isShutdown() check is dropped.
NewCallUnchecked(c) ==
    /\ pc[c] = "idle"
    /\ MayEnter(c)
    /\ pc' = [pc EXCEPT ![c] = "checked"]
    /\ state' = [state EXCEPT ![c] = IF c \in StreamCalls THEN "STARTED" ELSE "UNARY"]
    /\ UNCHANGED <<clientVars, got, status, acc, threw, promise, queueVars, wireVars, crashed>>

\* isShutdown() is false: the call object, its promise and its deadline.
NewCall(c) ==
    /\ pc[c] = "idle"
    /\ MayEnter(c)
    /\ ~shutdownCalled
    /\ pc' = [pc EXCEPT ![c] = "checked"]
    /\ state' = [state EXCEPT ![c] = IF c \in StreamCalls THEN "STARTED" ELSE "UNARY"]
    /\ UNCHANGED <<clientVars, got, status, acc, threw, promise, queueVars, wireVars, crashed>>

\* getAsyncStub() returns the raw pointer held by the unique_ptr.
GetAsyncStub(c) ==
    /\ pc[c] = "checked"
    /\ pc' = [pc EXCEPT ![c] = "gotStub"]
    /\ got' = [got EXCEPT ![c] = stub]
    /\ UNCHANGED <<clientVars, callVars, queueVars, wireVars, crashed>>

\* (stub->*grpc_method_ptr)(...): a null or dangling pointer is undefined behaviour.
PrepareCall(c) ==
    /\ pc[c] = "gotStub"
    /\ IF got[c] = "live" /\ stub = "live"
         THEN pc' = [pc EXCEPT ![c] = "prepared"] /\ UNCHANGED crashed
         ELSE crashed' = TRUE /\ UNCHANGED pc
    /\ UNCHANGED <<clientVars, got, callVars, queueVars, wireVars>>

\* gRPC aborts the process when an operation is started on a completion queue that
\* is shut down and has nothing outstanding.
QueueAccepts == cq = "open" \/ \E c \in Calls : pending[c] # {}

\* StartCall and, for a unary call, Finish.
StartCall(c) ==
    /\ pc[c] = "prepared"
    /\ IF QueueAccepts
         THEN /\ pc' = [pc EXCEPT ![c] = "returned"]
              /\ pending' = [pending EXCEPT ![c] = {IF c \in StreamCalls THEN "start" ELSE "finish"}]
              /\ UNCHANGED crashed
         ELSE /\ crashed' = TRUE
              /\ UNCHANGED <<pc, pending>>
    /\ UNCHANGED <<clientVars, got, callVars, events, wireVars>>

-----------------------------------------------------------------------------
(* gRPC and the server (external).                                          *)

OnWire(c) == pc[c] = "returned" /\ state[c] \notin {"none", "deleted"}

ServerSend(c) ==
    /\ OnWire(c)
    /\ c \in StreamCalls
    /\ final[c] = "none"
    /\ sent[c] < MaxChunks
    /\ sent' = [sent EXCEPT ![c] = @ + 1]
    /\ UNCHANGED <<clientVars, callerVars, callVars, queueVars, delivered, final, crashed>>

\* The server ends the RPC, or the connection fails.
ServerEnd(c) ==
    /\ OnWire(c)
    /\ final[c] = "none"
    /\ \E s \in {"OK", "ERR"} : final' = [final EXCEPT ![c] = s]
    /\ UNCHANGED <<clientVars, callerVars, callVars, queueVars, sent, delivered, crashed>>

\* The deadline set on the context passes before Finish has completed.
DeadlineExpires(c) ==
    /\ OnWire(c)
    /\ HasDeadline(c)
    /\ final[c] # "ERR"
    /\ ~ \E e \in events : e.call = c /\ e.op = "finish"
    /\ final' = [final EXCEPT ![c] = "ERR"]
    /\ UNCHANGED <<clientVars, callerVars, callVars, queueVars, sent, delivered, crashed>>

Complete(c, op, ok) ==
    /\ op \in pending[c]
    /\ pending' = [pending EXCEPT ![c] = @ \ {op}]
    /\ events' = events \cup {[call |-> c, op |-> op, ok |-> ok]}

StartDone(c) ==
    /\ \/ Complete(c, "start", TRUE)
       \/ final[c] = "ERR" /\ Complete(c, "start", FALSE)
    /\ UNCHANGED <<clientVars, callerVars, callVars, wireVars, crashed>>

\* Read completes with a chunk, or with ok = false at the end of the stream.
ReadDone(c) ==
    /\ \/ /\ delivered[c] < sent[c]
          /\ Complete(c, "read", TRUE)
          /\ delivered' = [delivered EXCEPT ![c] = @ + 1]
       \/ /\ final[c] = "ERR" \/ (final[c] = "OK" /\ delivered[c] = sent[c])
          /\ Complete(c, "read", FALSE)
          /\ UNCHANGED delivered
    /\ UNCHANGED <<clientVars, callerVars, callVars, sent, final, crashed>>

\* Finish completes once the stream is drained or the RPC has failed; it
\* overwrites the call object's status.
FinishDone(c) ==
    /\ final[c] = "ERR" \/ (final[c] = "OK" /\ delivered[c] = sent[c])
    /\ Complete(c, "finish", TRUE)
    /\ status' = [status EXCEPT ![c] = final[c]]
    /\ UNCHANGED <<clientVars, callerVars, state, acc, threw, promise, wireVars, crashed>>

-----------------------------------------------------------------------------
(* RunCompletionQueue and the call objects' Proceed.                        *)

\* cq_.Next took the event of operation op of call c.
CqNext(c, op, ok) ==
    /\ cqThread = "running"
    /\ [call |-> c, op |-> op, ok |-> ok] \in events
    /\ events' = events \ {[call |-> c, op |-> op, ok |-> ok]}

\* Both set the promise and delete the call object.
SetPromise(c, outcome) ==
    /\ promise' = [promise EXCEPT ![c] = outcome]
    /\ state' = [state EXCEPT ![c] = "deleted"]

\* Mutant: a failed status deletes the call object without setting the promise.
ProceedUnaryDropsError(c) ==
    /\ state[c] = "UNARY"
    /\ \E ok \in BOOLEAN :
          /\ CqNext(c, "finish", ok)
          /\ promise' = [promise EXCEPT ![c] = IF ok /\ status[c] = "OK" THEN "value" ELSE @]
    /\ state' = [state EXCEPT ![c] = "deleted"]
    /\ UNCHANGED <<clientVars, callerVars, status, acc, threw, pending, wireVars, crashed>>

\* RpcCallData::Proceed; an exception of the transformer goes into the promise.
ProceedUnary(c) ==
    /\ state[c] = "UNARY"
    /\ \E ok \in BOOLEAN :
          /\ CqNext(c, "finish", ok)
          /\ \/ ok /\ status[c] = "OK" /\ SetPromise(c, "value")
             \/ SetPromise(c, "error")
    /\ UNCHANGED <<clientVars, callerVars, status, acc, threw, pending, wireVars, crashed>>

\* StreamCallData::Proceed in State::STARTED.
ProceedStarted(c) ==
    /\ state[c] = "STARTED"
    /\ QueueAccepts
    /\ \E ok \in BOOLEAN :
          /\ CqNext(c, "start", ok)
          /\ state' = [state EXCEPT ![c] = IF ok THEN "READING" ELSE "FINISHING"]
          /\ pending' = [pending EXCEPT ![c] = @ \cup {IF ok THEN "read" ELSE "finish"}]
    /\ UNCHANGED <<clientVars, callerVars, status, acc, threw, promise, wireVars, crashed>>

\* Mutant: the next Read is not requested.
ProceedChunkNoRead(c) ==
    /\ state[c] = "READING"
    /\ QueueAccepts
    /\ CqNext(c, "read", TRUE)
    /\ acc' = [acc EXCEPT ![c] = @ + 1]
    /\ UNCHANGED <<clientVars, callerVars, state, status, threw, promise, pending, wireVars, crashed>>

\* State::READING with a chunk that chunk_accumulator takes.
ProceedChunk(c) ==
    /\ state[c] = "READING"
    /\ QueueAccepts
    /\ CqNext(c, "read", TRUE)
    /\ acc' = [acc EXCEPT ![c] = @ + 1]
    /\ pending' = [pending EXCEPT ![c] = @ \cup {"read"}]
    /\ UNCHANGED <<clientVars, callerVars, state, status, threw, promise, wireVars, crashed>>

\* Mutant: no return after Finish, so the next Read is requested as well.
ProceedChunkThrowsFallsThrough(c) ==
    /\ state[c] = "READING"
    /\ QueueAccepts
    /\ CqNext(c, "read", TRUE)
    /\ threw' = [threw EXCEPT ![c] = TRUE]
    /\ state' = [state EXCEPT ![c] = "FINISHING"]
    /\ status' = [status EXCEPT ![c] = "ERR"]
    /\ pending' = [pending EXCEPT ![c] = @ \cup {"finish", "read"}]
    /\ UNCHANGED <<clientVars, callerVars, acc, promise, wireVars, crashed>>

\* State::READING with a chunk on which chunk_accumulator throws.
ProceedChunkThrows(c) ==
    /\ state[c] = "READING"
    /\ QueueAccepts
    /\ CqNext(c, "read", TRUE)
    /\ threw' = [threw EXCEPT ![c] = TRUE]
    /\ state' = [state EXCEPT ![c] = "FINISHING"]
    /\ status' = [status EXCEPT ![c] = "ERR"]
    /\ pending' = [pending EXCEPT ![c] = @ \cup {"finish"}]
    /\ UNCHANGED <<clientVars, callerVars, acc, promise, wireVars, crashed>>

\* State::READING at the end of the stream.
ProceedEndOfStream(c) ==
    /\ state[c] = "READING"
    /\ QueueAccepts
    /\ CqNext(c, "read", FALSE)
    /\ state' = [state EXCEPT ![c] = "FINISHING"]
    /\ pending' = [pending EXCEPT ![c] = @ \cup {"finish"}]
    /\ UNCHANGED <<clientVars, callerVars, status, acc, threw, promise, wireVars, crashed>>

\* The next Read or Finish of a stream is requested on the queue shutdown() shut.
ProceedAborts(c) ==
    /\ state[c] \in {"STARTED", "READING"}
    /\ cqThread = "running"
    /\ \E e \in events : e.call = c
    /\ ~QueueAccepts
    /\ crashed' = TRUE
    /\ UNCHANGED <<clientVars, callerVars, callVars, queueVars, wireVars>>

\* Mutant: the promise is given the status itself.
ProceedFinishedRawStatus(c) ==
    /\ state[c] = "FINISHING"
    /\ \E ok \in BOOLEAN : CqNext(c, "finish", ok)
    /\ SetPromise(c, status[c])
    /\ UNCHANGED <<clientVars, callerVars, status, acc, threw, pending, wireVars, crashed>>

\* Mutant: whatever was accumulated is returned, the status is not looked at.
ProceedFinishedAnyStatus(c) ==
    /\ state[c] = "FINISHING"
    /\ \E ok \in BOOLEAN : CqNext(c, "finish", ok) /\ SetPromise(c, IF ok THEN "value" ELSE "error")
    /\ UNCHANGED <<clientVars, callerVars, status, acc, threw, pending, wireVars, crashed>>

\* State::FINISHING: the status alone decides the outcome.
ProceedFinished(c) ==
    /\ state[c] = "FINISHING"
    /\ \E ok \in BOOLEAN : CqNext(c, "finish", ok)
    /\ SetPromise(c, IF status[c] = "OK" THEN "value" ELSE "error")
    /\ UNCHANGED <<clientVars, callerVars, status, acc, threw, pending, wireVars, crashed>>

\* Mutant: the loop also ends as soon as shutdown() was called.
CqThreadExitsEarly ==
    /\ cqThread = "running"
    /\ shutdownCalled
    /\ cqThread' = "exited"
    /\ UNCHANGED <<shutdownCalled, stub, cq, shutPc, callerVars, callVars, queueVars, wireVars, crashed>>

\* cq_.Next returns false: shut down, and nothing outstanding or queued.
CqThreadExits ==
    /\ cqThread = "running"
    /\ cq = "shut"
    /\ events = {}
    /\ \A c \in Calls : pending[c] = {}
    /\ cqThread' = "exited"
    /\ UNCHANGED <<shutdownCalled, stub, cq, shutPc, callerVars, callVars, queueVars, wireVars, crashed>>

-----------------------------------------------------------------------------
(* shutdown().                                                              *)

ShutdownBegin ==
    /\ shutPc = "idle"
    /\ Serialised \cap Issuing = {}
    /\ shutdownCalled' = TRUE
    /\ shutPc' = "resetStub"
    /\ UNCHANGED <<stub, cq, cqThread, callerVars, callVars, queueVars, wireVars, crashed>>

ResetStub ==
    /\ shutPc = "resetStub"
    /\ stub' = "null"
    /\ shutPc' = "shutCq"
    /\ UNCHANGED <<shutdownCalled, cq, cqThread, callerVars, callVars, queueVars, wireVars, crashed>>

\* Mutant: the completion queue is never shut down.
ShutCqSkipped ==
    /\ shutPc = "shutCq"
    /\ shutPc' = "join"
    /\ UNCHANGED <<shutdownCalled, stub, cq, cqThread, callerVars, callVars, queueVars, wireVars, crashed>>

ShutCq ==
    /\ shutPc = "shutCq"
    /\ cq' = "shut"
    /\ shutPc' = "join"
    /\ UNCHANGED <<shutdownCalled, stub, cqThread, callerVars, callVars, queueVars, wireVars, crashed>>

\* Mutant: the completion-queue thread is detached instead of joined.
JoinCqThreadDetached ==
    /\ shutPc = "join"
    /\ shutPc' = "done"
    /\ UNCHANGED <<shutdownCalled, stub, cq, cqThread, callerVars, callVars, queueVars, wireVars, crashed>>

JoinCqThread ==
    /\ shutPc = "join"
    /\ cqThread = "exited"
    /\ shutPc' = "done"
    /\ UNCHANGED <<shutdownCalled, stub, cq, cqThread, callerVars, callVars, queueVars, wireVars, crashed>>

-----------------------------------------------------------------------------
Send(c)    == RejectCall(c) \/ NewCall(c) \/ GetAsyncStub(c) \/ PrepareCall(c) \/ StartCall(c)
Grpc(c)    == ServerSend(c) \/ ServerEnd(c) \/ StartDone(c) \/ ReadDone(c) \/ FinishDone(c)
Proceed(c) == \/ ProceedUnary(c) \/ ProceedStarted(c) \/ ProceedChunk(c)
              \/ ProceedChunkThrows(c) \/ ProceedEndOfStream(c) \/ ProceedFinished(c)
              \/ ProceedAborts(c)
Shutdown   == ShutdownBegin \/ ResetStub \/ ShutCq \/ JoinCqThread

\* Whatever follows undefined behaviour, crashed stays TRUE.
Next ==
    \/ \E c \in Calls : Send(c) \/ Grpc(c) \/ DeadlineExpires(c) \/ Proceed(c)
    \/ CqThreadExits
    \/ Shutdown

Spec == Init /\ [][Next]_vars

(***************************************************************************)
(* The threads run and the completion queue delivers; a deadline that was  *)
(* set passes.  The server owes nothing, nobody has to call shutdown(),    *)
(* and chunk_accumulator is never obliged to throw.                        *)
(***************************************************************************)
Fairness ==
    /\ \A c \in Calls :
          /\ WF_vars(GetAsyncStub(c) \/ PrepareCall(c) \/ StartCall(c))
          /\ WF_vars(StartDone(c) \/ ReadDone(c) \/ FinishDone(c))
          /\ WF_vars(DeadlineExpires(c))
          /\ WF_vars(Proceed(c))
    /\ WF_vars(CqThreadExits)
    /\ WF_vars(ResetStub \/ ShutCq \/ JoinCqThread)

FairSpec == Spec /\ Fairness

-----------------------------------------------------------------------------
(* Properties.                                                              *)

Outstanding(c) == {op \in Ops : \/ op \in pending[c]
                                \/ \E e \in events : e.call = c /\ e.op = op}

ExpectedOp(s) == CASE s = "UNARY"     -> {"finish"}
                   [] s = "STARTED"   -> {"start"}
                   [] s = "READING"   -> {"read"}
                   [] s = "FINISHING" -> {"finish"}
                   [] OTHER           -> {}

(***************************************************************************)
(* The completion queue holds only tags of live call objects, and each     *)
(* object that was handed to gRPC has exactly the one operation its State  *)
(* waits for.  Proceed deletes the object, so a second outstanding         *)
(* operation would be a use after free, and none would be a future that    *)
(* never becomes ready.                                                    *)
(***************************************************************************)
TagsAreLive ==
    \A c \in Calls : Outstanding(c) =
        IF pc[c] = "returned" THEN ExpectedOp(state[c]) ELSE {}

(***************************************************************************)
(* A stream call that yields a value yields every chunk the server sent:   *)
(* a stream cut short by an error or the deadline is reported as an error, *)
(* its partial accumulated_result is not returned.  (Streams on which      *)
(* chunk_accumulator threw are the subject of AccumulatorErrorReported.)   *)
(***************************************************************************)
StreamValueIsWhole ==
    \A c \in StreamCalls :
        promise[c] = "value" /\ ~threw[c] => acc[c] = sent[c] /\ final[c] = "OK"

(***************************************************************************)
(* When the completion-queue thread has left its loop, every call that was *)
(* made has its outcome: shutdown() strands no future.                     *)
(***************************************************************************)
DrainedMeansResolved ==
    cqThread = "exited" => \A c \in Calls : pc[c] = "returned" => promise[c] # "unset"

(***************************************************************************)
(* No call dereferences the stub that shutdown() reset, and neither a call *)
(* nor Proceed starts an operation on the drained queue it shut down.      *)
(***************************************************************************)
NoUndefinedBehaviour == ~crashed

(***************************************************************************)
(* What is left of that: the process ends with a call of an unserialised   *)
(* caller that shutdown() has overtaken between its check and its start,   *)
(* or with a stream that was in flight when shutdown() was called and goes *)
(* on after the last outstanding operation of the client completed.  A     *)
(* serialised call is never started in vain, whatever the others do, and   *)
(* Proceed is safe for unary calls and for streams read to their end.      *)
(***************************************************************************)
Overtaken(c) ==
    \/ pc[c] = "gotStub" /\ stub = "null"
    \/ pc[c] = "prepared" /\ ~QueueAccepts

CutStream(c) ==
    /\ c \in StreamCalls
    /\ state[c] \in {"STARTED", "READING"}
    /\ \E e \in events : e.call = c

OnlyRacesAbort ==
    crashed => \/ \E c \in Calls \ Serialised : Overtaken(c)
               \/ ~QueueAccepts /\ \E c \in Calls : CutStream(c)

(***************************************************************************)
(* An exception of chunk_accumulator reaches the caller: Proceed sets the  *)
(* status to UNKNOWN, "Exception in chunk_accumulator".                    *)
(***************************************************************************)
AccumulatorErrorReported == \A c \in Calls : threw[c] => promise[c] # "value"

(***************************************************************************)
(* Every call that got a deadline gets its outcome, whatever the server    *)
(* does and whenever shutdown() is called, unless gRPC aborts the process. *)
(***************************************************************************)
CallsResolve ==
    \A c \in Calls : HasDeadline(c) => (pc[c] = "checked" ~> promise[c] # "unset" \/ crashed)

\* The server ends the calls that have no deadline.
NoneHangs ==
    \A c \in Calls : HasDeadline(c) \/ []<>(OnWire(c) => final[c] # "none")

(***************************************************************************)
(* shutdown() returns unless a call without a deadline hangs: it joins a   *)
(* thread that waits for the outstanding calls.  (Unless gRPC aborts the   *)
(* process.)                                                               *)
(***************************************************************************)
ShutdownReturns == NoneHangs => (shutdownCalled ~> shutPc = "done" \/ crashed)

(***************************************************************************)
(* Refinement: seen from the caller, the call objects, the completion      *)
(* queue and the steps of shutdown() implement RpcContract, whether or not *)
(* callers serialise: a call that races with shutdown() is rejected,       *)
(* accepted in time and then resolved, or the one the process ends with.   *)
(***************************************************************************)
phase == [c \in Calls |-> IF promise[c] # "unset" THEN promise[c]
                          ELSE IF pc[c] = "idle" THEN "new"
                          ELSE IF pc[c] = "returned" THEN "pending" ELSE "entered"]
door == IF ~shutdownCalled THEN "open" ELSE IF shutPc = "done" THEN "closed" ELSE "closing"

Contract == INSTANCE RpcContract

ImplementsContract == Contract!Spec

=============================================================================

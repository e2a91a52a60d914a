----------------------- MODULE StandaloneClientProofs -----------------------
(***************************************************************************)
(* Proofs about StandaloneClient, for any set of calls, any timeouts and   *)
(* any number of chunks.                                                   *)
(***************************************************************************)
EXTENDS StandaloneClient, TLAPS

\* A step of call c, on whichever thread.
CallStep(c) == Send(c) \/ Grpc(c) \/ DeadlineExpires(c) \/ Proceed(c)

-----------------------------------------------------------------------------
(* The inductive invariant: what holds of each call, and of the client.      *)

\* The operation gRPC owes call c.
Due(c) == IF pc[c] = "returned" THEN ExpectedOp(state[c]) ELSE {}

\* It is outstanding or queued, never both, and nothing else is.
TagInv(c) ==
    /\ \A e, f \in events : e.call = c /\ f.call = c => e = f
    /\ \A e \in events : e.call = c => pending[c] = {} /\ Due(c) = {e.op}
    /\ (\A e \in events : e.call # c) => pending[c] = Due(c)

\* The call object is there from the check of isShutdown() to the outcome.
HasObject(c) == state[c] \in {"UNARY", "STARTED", "READING", "FINISHING"}

LifeInv(c) ==
    /\ pc[c] = "idle" => state[c] = "none" /\ promise[c] = "unset"
    /\ pc[c] \in {"checked", "gotStub", "prepared"} =>
          state[c] = IF c \in StreamCalls THEN "STARTED" ELSE "UNARY"
    /\ HasObject(c) <=> pc[c] # "idle" /\ promise[c] = "unset"
    /\ state[c] = "UNARY" => c \notin StreamCalls
    /\ state[c] \in {"STARTED", "READING"} => c \in StreamCalls

\* A chunk is in accumulated_result or in the queue; a queued Finish tells the truth.
StreamInv(c) ==
    /\ ~threw[c] => delivered[c] =
          acc[c] + IF [call |-> c, op |-> "read", ok |-> TRUE] \in events THEN 1 ELSE 0
    /\ \A e \in events : e.call = c /\ e.op = "finish" =>
          /\ status[c] = final[c]
          /\ final[c] = "OK" => delivered[c] = sent[c]
    /\ c \in StreamCalls /\ promise[c] = "value" /\ ~threw[c] =>
          acc[c] = sent[c] /\ final[c] = "OK"

CallInv(c) == TagInv(c) /\ LifeInv(c) /\ StreamInv(c)

\* The order of the steps of shutdown(), and what the thread it joins has left.
ClientInv ==
    /\ shutdownCalled <=> shutPc # "idle"
    /\ stub = "null" <=> shutPc \in {"shutCq", "join", "done"}
    /\ cq = "shut" <=> shutPc \in {"join", "done"}
    /\ cqThread = "exited" =>
          /\ cq = "shut"
          /\ events = {}
          /\ \A c \in Calls : pending[c] = {}
    /\ shutPc = "done" => cqThread = "exited"

IInv == TypeOK /\ ClientInv /\ \A c \in Calls : CallInv(c)

\* What the race with shutdown() leaves of it: callers that synchronise are not in it,
\* and a stub pointer that is null was read after the reset.
RaceInv ==
    /\ shutPc # "idle" => Serialised \cap Issuing = {}
    /\ \A c \in Calls : pc[c] = "gotStub" /\ got[c] # "live" => stub = "null"

-----------------------------------------------------------------------------
\* gRPC completes an operation of a call: the operation leaves pending, its
\* completion enters the queue.
LEMMA CompleteTypes ==
    ASSUME pending \in [Calls -> SUBSET Ops], events \subseteq Events,
           NEW c \in Calls, NEW op \in Ops, NEW ok \in BOOLEAN, Complete(c, op, ok)
    PROVE  /\ pending' \in [Calls -> SUBSET Ops]
           /\ events' \subseteq Events
<1>1. pending' \in [Calls -> SUBSET Ops]
  BY DEF Complete
<1>2. events' \subseteq Events
  BY DEF Complete, Events
<1> QED
  BY <1>1, <1>2

LEMMA TypeInit == Init => TypeOK
<1> SUFFICES ASSUME Init PROVE TypeOK
  OBVIOUS
<1>1. pending \in [Calls -> SUBSET Ops]
  BY DEF Init
<1> QED
  BY <1>1 DEF Init, TypeOK, States

\* Every step of the callers, of gRPC, of Proceed and of shutdown() keeps the types.
LEMMA TypeInductive == TypeOK /\ [Next]_vars => TypeOK'
<1> SUFFICES ASSUME TypeOK, [Next]_vars PROVE TypeOK'
  OBVIOUS
<1> USE DEF TypeOK, States, Ops, Events, clientVars, callerVars, callVars, queueVars, wireVars
<1>1. ASSUME NEW c \in Calls, Send(c) PROVE TypeOK'
  <2>1. CASE RejectCall(c)
    BY <2>1 DEF RejectCall
  <2>2. CASE NewCall(c)
    BY <2>2 DEF NewCall
  <2>3. CASE GetAsyncStub(c)
    BY <2>3 DEF GetAsyncStub
  <2>4. CASE PrepareCall(c)
    BY <2>4 DEF PrepareCall
  <2>5. CASE StartCall(c)
    <3>1. pending' \in [Calls -> SUBSET Ops]
      BY <2>5 DEF StartCall
    <3> QED
      BY <2>5, <3>1 DEF StartCall
  <2> QED
    BY <1>1, <2>1, <2>2, <2>3, <2>4, <2>5 DEF Send
<1>2. ASSUME NEW c \in Calls, Grpc(c) PROVE TypeOK'
  <2>1. CASE ServerSend(c)
    BY <2>1 DEF ServerSend
  <2>2. CASE ServerEnd(c)
    BY <2>2 DEF ServerEnd
  <2>3. CASE StartDone(c)
    <3>1. /\ pending' \in [Calls -> SUBSET Ops]
          /\ events' \subseteq Events
      BY <2>3, CompleteTypes DEF StartDone
    <3> QED
      BY <2>3, <3>1 DEF StartDone, Complete
  <2>4. CASE ReadDone(c)
    <3>1. /\ pending' \in [Calls -> SUBSET Ops]
          /\ events' \subseteq Events
      BY <2>4, CompleteTypes DEF ReadDone
    <3> QED
      BY <2>4, <3>1 DEF ReadDone, Complete
  <2>5. CASE FinishDone(c)
    <3>1. /\ pending' \in [Calls -> SUBSET Ops]
          /\ events' \subseteq Events
      BY <2>5, CompleteTypes DEF FinishDone
    <3> QED
      BY <2>5, <3>1 DEF FinishDone, Complete
  <2> QED
    BY <1>2, <2>1, <2>2, <2>3, <2>4, <2>5 DEF Grpc
<1>3. ASSUME NEW c \in Calls, DeadlineExpires(c) PROVE TypeOK'
  BY <1>3 DEF DeadlineExpires
<1>4. ASSUME NEW c \in Calls, Proceed(c) PROVE TypeOK'
  <2>1. CASE ProceedUnary(c)
    BY <2>1 DEF ProceedUnary, CqNext, SetPromise
  <2>2. CASE ProceedStarted(c)
    BY <2>2 DEF ProceedStarted, CqNext
  <2>3. CASE ProceedChunk(c)
    BY <2>3 DEF ProceedChunk, CqNext
  <2>4. CASE ProceedChunkThrows(c)
    BY <2>4 DEF ProceedChunkThrows, CqNext
  <2>5. CASE ProceedEndOfStream(c)
    BY <2>5 DEF ProceedEndOfStream, CqNext
  <2>6. CASE ProceedFinished(c)
    BY <2>6 DEF ProceedFinished, CqNext, SetPromise
  <2>7. CASE ProceedAborts(c)
    BY <2>7 DEF ProceedAborts
  <2> QED
    BY <1>4, <2>1, <2>2, <2>3, <2>4, <2>5, <2>6, <2>7 DEF Proceed
<1>5. CASE CqThreadExits
  BY <1>5 DEF CqThreadExits
<1>6. CASE Shutdown
  BY <1>6 DEF Shutdown, ShutdownBegin, ResetStub, ShutCq, JoinCqThread
<1>7. CASE UNCHANGED vars
  BY <1>7 DEF vars
<1> QED
  BY <1>1, <1>2, <1>3, <1>4, <1>5, <1>6, <1>7 DEF Next

(***************************************************************************)
(* Type correctness: the client's variables keep their types.              *)
(***************************************************************************)
THEOREM TypeCorrect == Spec => []TypeOK
BY TypeInit, TypeInductive, PTL DEF Spec

-----------------------------------------------------------------------------
\* What a step leaves of call c when it is another call's, or nobody's.
Untouched(c) ==
    /\ pc'[c] = pc[c] /\ got'[c] = got[c]
    /\ state'[c] = state[c] /\ status'[c] = status[c] /\ acc'[c] = acc[c]
    /\ threw'[c] = threw[c] /\ promise'[c] = promise[c] /\ pending'[c] = pending[c]
    /\ sent'[c] = sent[c] /\ delivered'[c] = delivered[c] /\ final'[c] = final[c]
    /\ \A e \in Events : e.call = c => (e \in events' <=> e \in events)

\* The call objects share nothing but the queue: a step of one call leaves the others alone.
LEMMA OthersUntouched ==
    ASSUME TypeOK, NEW c \in Calls, NEW d \in Calls, c # d, CallStep(d)
    PROVE  Untouched(c)
<1> USE DEF Untouched, TypeOK, clientVars, callerVars, callVars, queueVars, wireVars
<1>1. CASE Send(d)
  BY <1>1 DEF Send, RejectCall, NewCall, GetAsyncStub, PrepareCall, StartCall
<1>2. CASE Grpc(d)
  <2>1. CASE ServerSend(d) \/ ServerEnd(d)
    BY <2>1 DEF ServerSend, ServerEnd
  <2>2. CASE StartDone(d)
    BY <2>2 DEF StartDone, Complete
  <2>3. CASE ReadDone(d)
    BY <2>3 DEF ReadDone, Complete
  <2>4. CASE FinishDone(d)
    BY <2>4 DEF FinishDone, Complete
  <2> QED
    BY <1>2, <2>1, <2>2, <2>3, <2>4 DEF Grpc
<1>3. CASE DeadlineExpires(d)
  BY <1>3 DEF DeadlineExpires
<1>4. CASE Proceed(d)
  <2>1. CASE ProceedUnary(d)
    <3> PICK ok \in BOOLEAN : CqNext(d, "finish", ok)
      BY <2>1 DEF ProceedUnary
    <3> QED
      BY <2>1 DEF ProceedUnary, CqNext, SetPromise
  <2>5. CASE ProceedFinished(d)
    BY <2>5 DEF ProceedFinished, CqNext, SetPromise
  <2>2. CASE ProceedStarted(d)
    BY <2>2 DEF ProceedStarted, CqNext
  <2>3. CASE ProceedChunk(d) \/ ProceedChunkThrows(d)
    BY <2>3 DEF ProceedChunk, ProceedChunkThrows, CqNext
  <2>4. CASE ProceedEndOfStream(d)
    BY <2>4 DEF ProceedEndOfStream, CqNext
  <2>6. CASE ProceedAborts(d)
    BY <2>6 DEF ProceedAborts
  <2> QED
    BY <1>4, <2>1, <2>2, <2>3, <2>4, <2>5, <2>6 DEF Proceed
<1> QED
  BY <1>1, <1>2, <1>3, <1>4 DEF CallStep

\* What holds of a call still holds after a step that does not touch it.
LEMMA UntouchedKeeps ==
    ASSUME TypeOK, TypeOK', NEW c \in Calls, CallInv(c), Untouched(c)
    PROVE  CallInv(c)'
<1> USE DEF Untouched, TypeOK, CallInv
<1>1. Due(c)' = Due(c) /\ HasObject(c)' = HasObject(c)
  BY DEF Due, ExpectedOp, HasObject
<1>2. TagInv(c)'
  BY <1>1 DEF TagInv
<1>3. LifeInv(c)'
  BY <1>1 DEF LifeInv
<1>4. StreamInv(c)'
  BY DEF StreamInv, Events, Ops
<1> QED
  BY <1>2, <1>3, <1>4

\* An operation that completes moves from pending to the queue, where it is alone.
LEMMA CompleteKeepsTags ==
    ASSUME TypeOK, TypeOK', NEW c \in Calls, NEW op \in Ops, NEW ok \in BOOLEAN,
           TagInv(c), Complete(c, op, ok), UNCHANGED <<pc, state>>
    PROVE  TagInv(c)' /\ \A e \in events : e.call # c
<1> USE DEF TypeOK, Events
<1>1. \A e \in events : e.call # c
  BY DEF TagInv, Complete
<1>2. Due(c) = pending[c] /\ Due(c)' = Due(c)
  BY <1>1 DEF TagInv, Due
<1>3. Due(c) = {op} /\ pending'[c] = {}
  BY <1>2 DEF Complete, Due, ExpectedOp
<1>4. \A e \in events' : e.call = c => e = [call |-> c, op |-> op, ok |-> ok]
  BY <1>1 DEF Complete
<1>5. [call |-> c, op |-> op, ok |-> ok] \in events'
  BY DEF Complete
<1> QED
  BY <1>1, <1>2, <1>3, <1>4, <1>5 DEF TagInv

\* Taking a completion from the queue leaves nothing outstanding or queued for its call.
LEMMA NextTakesTheOnlyTag ==
    ASSUME TypeOK, NEW c \in Calls, NEW op \in Ops, NEW ok \in BOOLEAN,
           TagInv(c), CqNext(c, op, ok)
    PROVE  /\ \A e \in events' : e.call # c
           /\ \A e \in events : e.call = c => e = [call |-> c, op |-> op, ok |-> ok]
           /\ pending[c] = {} /\ Due(c) = {op} /\ pc[c] = "returned"
<1> DEFINE ev == [call |-> c, op |-> op, ok |-> ok]
<1>1. ev \in events /\ ev.call = c /\ ev.op = op /\ events' = events \ {ev}
  BY DEF CqNext
<1>2. \A e \in events : e.call = c => e = ev
  BY <1>1 DEF TagInv
<1>3. pending[c] = {} /\ Due(c) = {op}
  BY <1>1 DEF TagInv
<1> QED
  BY <1>1, <1>2, <1>3 DEF Due

\* A step of a call keeps what holds of it.
LEMMA OwnStep ==
    ASSUME TypeOK, TypeOK', NEW c \in Calls, CallInv(c), CallStep(c)
    PROVE  CallInv(c)'
<1> USE DEF CallInv, TypeOK, clientVars, callerVars, callVars, queueVars, wireVars
<1>1. CASE Send(c)
  <2>1. CASE RejectCall(c)
    <3>1. Due(c) = {} /\ \A e \in events : e.call # c
      BY <2>1 DEF RejectCall, Due, TagInv
    <3>2. pending'[c] = Due(c)'
      BY <2>1, <3>1 DEF RejectCall, Due, ExpectedOp, TagInv, LifeInv
    <3>3. TagInv(c)'
      BY <2>1, <3>1, <3>2 DEF RejectCall, TagInv
    <3>4. LifeInv(c)'
      BY <2>1 DEF RejectCall, LifeInv, HasObject, States
    <3>5. StreamInv(c)'
      BY <2>1 DEF RejectCall, StreamInv, LifeInv, HasObject, Events
    <3> QED
      BY <3>3, <3>4, <3>5
  <2>2. CASE NewCall(c)
    <3>1. Due(c) = {} /\ \A e \in events : e.call # c
      BY <2>2 DEF NewCall, Due, TagInv
    <3>2. pending'[c] = Due(c)'
      BY <2>2, <3>1 DEF NewCall, Due, TagInv
    <3>3. TagInv(c)'
      BY <2>2, <3>1, <3>2 DEF NewCall, TagInv
    <3>4. LifeInv(c)'
      BY <2>2 DEF NewCall, LifeInv, HasObject, States
    <3>5. StreamInv(c)'
      BY <2>2 DEF NewCall, StreamInv, LifeInv, HasObject, Events
    <3> QED
      BY <3>3, <3>4, <3>5
  <2>3. CASE GetAsyncStub(c)
    <3>1. Due(c) = {} /\ \A e \in events : e.call # c
      BY <2>3 DEF GetAsyncStub, Due, TagInv
    <3>2. pending'[c] = Due(c)'
      BY <2>3, <3>1 DEF GetAsyncStub, Due, TagInv
    <3>3. TagInv(c)'
      BY <2>3, <3>1, <3>2 DEF GetAsyncStub, TagInv
    <3>4. LifeInv(c)'
      BY <2>3 DEF GetAsyncStub, LifeInv, HasObject, States
    <3>5. StreamInv(c)'
      BY <2>3 DEF GetAsyncStub, StreamInv, LifeInv, HasObject, Events
    <3> QED
      BY <3>3, <3>4, <3>5
  <2>4. CASE PrepareCall(c)
    <3>1. Due(c) = {} /\ \A e \in events : e.call # c
      BY <2>4 DEF PrepareCall, Due, TagInv
    <3>2. pending'[c] = Due(c)'
      BY <2>4, <3>1 DEF PrepareCall, Due, TagInv
    <3>3. TagInv(c)'
      BY <2>4, <3>1, <3>2 DEF PrepareCall, TagInv
    <3>4. LifeInv(c)'
      BY <2>4 DEF PrepareCall, LifeInv, HasObject, States
    <3>5. StreamInv(c)'
      BY <2>4 DEF PrepareCall, StreamInv, LifeInv, HasObject, Events
    <3> QED
      BY <3>3, <3>4, <3>5
  <2>5. CASE StartCall(c)
    <3>1. Due(c) = {} /\ \A e \in events : e.call # c
      BY <2>5 DEF StartCall, Due, TagInv
    <3>2. pending'[c] = Due(c)'
      BY <2>5, <3>1 DEF StartCall, Due, ExpectedOp, TagInv, LifeInv
    <3>3. TagInv(c)'
      BY <2>5, <3>1, <3>2 DEF StartCall, TagInv
    <3>4. LifeInv(c)'
      BY <2>5 DEF StartCall, LifeInv, HasObject, States
    <3>5. StreamInv(c)'
      BY <2>5 DEF StartCall, StreamInv, LifeInv, HasObject, Events
    <3> QED
      BY <3>3, <3>4, <3>5
  <2> QED
    BY <1>1, <2>1, <2>2, <2>3, <2>4, <2>5 DEF Send
<1>2. CASE Grpc(c)
  <2>1. CASE ServerSend(c)
    <3>1. TagInv(c)'
      BY <2>1 DEF ServerSend, TagInv, Due
    <3>2. LifeInv(c)'
      BY <2>1 DEF ServerSend, LifeInv, HasObject
    <3>3. StreamInv(c)'
      BY <2>1 DEF ServerSend, OnWire, StreamInv, LifeInv, HasObject, Events, States
    <3> QED
      BY <3>1, <3>2, <3>3
  <2>2. CASE ServerEnd(c)
    <3>1. TagInv(c)'
      BY <2>2 DEF ServerEnd, TagInv, Due
    <3>2. LifeInv(c)'
      BY <2>2 DEF ServerEnd, LifeInv, HasObject
    <3>3. StreamInv(c)'
      BY <2>2 DEF ServerEnd, OnWire, StreamInv, LifeInv, HasObject, Events, States
    <3> QED
      BY <3>1, <3>2, <3>3
  <2>3. CASE StartDone(c)
    <3>1. TagInv(c)' /\ \A e \in events : e.call # c
      BY <2>3, CompleteKeepsTags DEF StartDone, Ops
    <3>2. LifeInv(c)'
      BY <2>3 DEF StartDone, LifeInv, HasObject
    <3>3. StreamInv(c)'
      BY <2>3, <3>1 DEF StartDone, Complete, StreamInv, Events
    <3> QED
      BY <3>1, <3>2, <3>3
  <2>4. CASE ReadDone(c)
    <3>1. TagInv(c)' /\ \A e \in events : e.call # c
      BY <2>4, CompleteKeepsTags DEF ReadDone, Ops
    <3>2. LifeInv(c)'
      BY <2>4 DEF ReadDone, LifeInv, HasObject
    <3>3. StreamInv(c)'
      BY <2>4, <3>1 DEF ReadDone, Complete, StreamInv, Events
    <3> QED
      BY <3>1, <3>2, <3>3
  <2>5. CASE FinishDone(c)
    <3>1. TagInv(c)' /\ \A e \in events : e.call # c
      BY <2>5, CompleteKeepsTags DEF FinishDone, Ops
    <3>2. LifeInv(c)'
      BY <2>5 DEF FinishDone, LifeInv, HasObject
    <3>3. StreamInv(c)'
      BY <2>5, <3>1 DEF FinishDone, Complete, StreamInv, Events
    <3> QED
      BY <3>1, <3>2, <3>3
  <2> QED
    BY <1>2, <2>1, <2>2, <2>3, <2>4, <2>5 DEF Grpc
<1>3. CASE DeadlineExpires(c)
  <2>1. TagInv(c)'
    BY <1>3 DEF DeadlineExpires, TagInv, Due
  <2>2. LifeInv(c)'
    BY <1>3 DEF DeadlineExpires, LifeInv, HasObject
  <2>3. StreamInv(c)'
    BY <1>3 DEF DeadlineExpires, OnWire, StreamInv, LifeInv, HasObject, Events, States
  <2> QED
    BY <2>1, <2>2, <2>3
<1>4. CASE Proceed(c)
  <2>1. CASE ProceedUnary(c)
    <3> PICK ok \in BOOLEAN : CqNext(c, "finish", ok)
      BY <2>1 DEF ProceedUnary
    <3>1. /\ \A e \in events' : e.call # c
          /\ \A e \in events : e.call = c => e = [call |-> c, op |-> "finish", ok |-> ok]
          /\ pending[c] = {} /\ pc[c] = "returned"
      BY <2>1, NextTakesTheOnlyTag DEF ProceedUnary, Ops
    <3>2. pending'[c] = Due(c)'
      BY <2>1, <3>1 DEF ProceedUnary, SetPromise, Due, ExpectedOp
    <3>3. TagInv(c)'
      BY <3>1, <3>2 DEF TagInv
    <3>4. LifeInv(c)'
      BY <2>1, <3>1 DEF ProceedUnary, SetPromise, LifeInv, HasObject, States
    <3>5. StreamInv(c)'
      BY <2>1, <3>1 DEF ProceedUnary, SetPromise, CqNext, StreamInv, LifeInv, HasObject, Events
    <3> QED
      BY <3>3, <3>4, <3>5
  <2>2. CASE ProceedStarted(c)
    <3> PICK ok \in BOOLEAN :
          /\ CqNext(c, "start", ok)
          /\ state' = [state EXCEPT ![c] = IF ok THEN "READING" ELSE "FINISHING"]
          /\ pending' = [pending EXCEPT ![c] = @ \cup {IF ok THEN "read" ELSE "finish"}]
      BY <2>2 DEF ProceedStarted
    <3>1. /\ \A e \in events' : e.call # c
          /\ \A e \in events : e.call = c => e = [call |-> c, op |-> "start", ok |-> ok]
          /\ pending[c] = {} /\ pc[c] = "returned"
      BY <2>2, NextTakesTheOnlyTag DEF ProceedStarted, Ops
    <3>2. pending'[c] = Due(c)'
      BY <2>2, <3>1 DEF ProceedStarted, Due, ExpectedOp
    <3>3. TagInv(c)'
      BY <3>1, <3>2 DEF TagInv
    <3>4. LifeInv(c)'
      BY <2>2, <3>1 DEF ProceedStarted, LifeInv, HasObject, States
    <3>5. StreamInv(c)'
      BY <2>2, <3>1 DEF ProceedStarted, CqNext, StreamInv, LifeInv, HasObject, Events
    <3> QED
      BY <3>3, <3>4, <3>5
  <2>3. CASE ProceedChunk(c)
    <3>1. /\ \A e \in events' : e.call # c
          /\ \A e \in events : e.call = c => e = [call |-> c, op |-> "read", ok |-> TRUE]
          /\ pending[c] = {} /\ pc[c] = "returned"
      BY <2>3, NextTakesTheOnlyTag DEF ProceedChunk, Ops
    <3>2. pending'[c] = Due(c)'
      BY <2>3, <3>1 DEF ProceedChunk, Due, ExpectedOp
    <3>3. TagInv(c)'
      BY <3>1, <3>2 DEF TagInv
    <3>4. LifeInv(c)'
      BY <2>3, <3>1 DEF ProceedChunk, LifeInv, HasObject, States
    <3>5. StreamInv(c)'
      BY <2>3, <3>1 DEF ProceedChunk, CqNext, StreamInv, LifeInv, HasObject, Events
    <3> QED
      BY <3>3, <3>4, <3>5
  <2>4. CASE ProceedChunkThrows(c)
    <3>1. /\ \A e \in events' : e.call # c
          /\ \A e \in events : e.call = c => e = [call |-> c, op |-> "read", ok |-> TRUE]
          /\ pending[c] = {} /\ pc[c] = "returned"
      BY <2>4, NextTakesTheOnlyTag DEF ProceedChunkThrows, Ops
    <3>2. pending'[c] = Due(c)'
      BY <2>4, <3>1 DEF ProceedChunkThrows, Due, ExpectedOp
    <3>3. TagInv(c)'
      BY <3>1, <3>2 DEF TagInv
    <3>4. LifeInv(c)'
      BY <2>4, <3>1 DEF ProceedChunkThrows, LifeInv, HasObject, States
    <3>5. StreamInv(c)'
      BY <2>4, <3>1 DEF ProceedChunkThrows, CqNext, StreamInv, LifeInv, HasObject, Events
    <3> QED
      BY <3>3, <3>4, <3>5
  <2>5. CASE ProceedEndOfStream(c)
    <3>1. /\ \A e \in events' : e.call # c
          /\ \A e \in events : e.call = c => e = [call |-> c, op |-> "read", ok |-> FALSE]
          /\ pending[c] = {} /\ pc[c] = "returned"
      BY <2>5, NextTakesTheOnlyTag DEF ProceedEndOfStream, Ops
    <3>2. pending'[c] = Due(c)'
      BY <2>5, <3>1 DEF ProceedEndOfStream, Due, ExpectedOp
    <3>3. TagInv(c)'
      BY <3>1, <3>2 DEF TagInv
    <3>4. LifeInv(c)'
      BY <2>5, <3>1 DEF ProceedEndOfStream, LifeInv, HasObject, States
    <3>5. StreamInv(c)'
      BY <2>5, <3>1 DEF ProceedEndOfStream, CqNext, StreamInv, LifeInv, HasObject, Events
    <3> QED
      BY <3>3, <3>4, <3>5
  <2>6. CASE ProceedFinished(c)
    <3> PICK ok \in BOOLEAN : CqNext(c, "finish", ok)
      BY <2>6 DEF ProceedFinished
    <3>1. /\ \A e \in events' : e.call # c
          /\ \A e \in events : e.call = c => e = [call |-> c, op |-> "finish", ok |-> ok]
          /\ pending[c] = {} /\ pc[c] = "returned"
      BY <2>6, NextTakesTheOnlyTag DEF ProceedFinished, Ops
    <3>2. pending'[c] = Due(c)'
      BY <2>6, <3>1 DEF ProceedFinished, SetPromise, Due, ExpectedOp
    <3>3. TagInv(c)'
      BY <3>1, <3>2 DEF TagInv
    <3>4. LifeInv(c)'
      BY <2>6, <3>1 DEF ProceedFinished, SetPromise, LifeInv, HasObject, States
    <3>5. StreamInv(c)'
      BY <2>6, <3>1 DEF ProceedFinished, SetPromise, CqNext, StreamInv, LifeInv, HasObject, Events
    <3> QED
      BY <3>3, <3>4, <3>5
  <2>7. CASE ProceedAborts(c)
    <3>1. Untouched(c)
      BY <2>7 DEF ProceedAborts, Untouched
    <3> QED
      BY <3>1, UntouchedKeeps
  <2> QED
    BY <1>4, <2>1, <2>2, <2>3, <2>4, <2>5, <2>6, <2>7 DEF Proceed
<1> QED
  BY <1>1, <1>2, <1>3, <1>4 DEF CallStep

-----------------------------------------------------------------------------
\* The steps of shutdown() keep their order, and no call is started on the queue
\* once it has been drained.
LEMMA ClientStep == IInv /\ [Next]_vars => ClientInv'
<1> SUFFICES ASSUME IInv, [Next]_vars PROVE ClientInv'
  OBVIOUS
<1> USE DEF IInv, ClientInv, TypeOK, clientVars, callerVars, callVars, queueVars, wireVars
<1>1. ASSUME NEW c \in Calls, CallStep(c) PROVE ClientInv'
  <2>1. UNCHANGED clientVars
    BY <1>1 DEF CallStep, Send, RejectCall, NewCall, GetAsyncStub, PrepareCall, StartCall,
                Grpc, ServerSend, ServerEnd, StartDone, ReadDone, FinishDone, DeadlineExpires,
                Proceed, ProceedUnary, ProceedStarted, ProceedChunk, ProceedChunkThrows,
                ProceedEndOfStream, ProceedFinished, ProceedAborts
  <2>2. CASE cqThread # "exited"
    BY <2>1, <2>2
  <2>3. CASE cqThread = "exited"
    <3>1. events' = {} /\ pending' = pending
      <4>1. CASE Send(c)
        BY <2>3, <4>1 DEF Send, RejectCall, NewCall, GetAsyncStub, PrepareCall, StartCall,
                          QueueAccepts
      <4>2. CASE Grpc(c)
        BY <2>3, <4>2 DEF Grpc, ServerSend, ServerEnd, StartDone, ReadDone, FinishDone, Complete
      <4>3. CASE DeadlineExpires(c)
        BY <2>3, <4>3 DEF DeadlineExpires
      <4>4. ~Proceed(c)
        BY <2>3 DEF Proceed, ProceedUnary, ProceedStarted, ProceedChunk, ProceedChunkThrows,
                    ProceedEndOfStream, ProceedFinished, ProceedAborts, CqNext
      <4> QED
        BY <1>1, <4>1, <4>2, <4>3, <4>4 DEF CallStep
    <3> QED
      BY <2>1, <2>3, <3>1
  <2> QED
    BY <2>2, <2>3
<1>2. CASE CqThreadExits
  BY <1>2 DEF CqThreadExits
<1>3. CASE Shutdown
  BY <1>3 DEF Shutdown, ShutdownBegin, ResetStub, ShutCq, JoinCqThread
<1>4. CASE UNCHANGED vars
  BY <1>4 DEF vars
<1> QED
  BY <1>1, <1>2, <1>3, <1>4 DEF Next, CallStep

LEMMA InvInit == Init => IInv
<1> SUFFICES ASSUME Init PROVE IInv
  OBVIOUS
<1>1. TypeOK
  BY TypeInit
<1>2. ClientInv
  BY DEF Init, ClientInv
<1>3. ASSUME NEW c \in Calls PROVE CallInv(c)
  BY DEF Init, CallInv, TagInv, Due, LifeInv, HasObject, StreamInv
<1> QED
  BY <1>1, <1>2, <1>3 DEF IInv

LEMMA InvInductive == IInv /\ [Next]_vars => IInv'
<1> SUFFICES ASSUME IInv, [Next]_vars PROVE IInv'
  OBVIOUS
<1>1. TypeOK'
  BY TypeInductive DEF IInv
<1>2. ASSUME NEW c \in Calls PROVE CallInv(c)'
  <2>1. ASSUME NEW d \in Calls, CallStep(d) PROVE CallInv(c)'
    <3>1. CASE d = c
      BY <1>1, <2>1, <3>1, OwnStep DEF IInv
    <3>2. CASE d # c
      BY <1>1, <2>1, <3>2, OthersUntouched, UntouchedKeeps DEF IInv
    <3> QED
      BY <3>1, <3>2
  <2>2. CASE CqThreadExits \/ Shutdown \/ UNCHANGED vars
    <3>1. Untouched(c)
      BY <2>2 DEF CqThreadExits, Shutdown, ShutdownBegin, ResetStub, ShutCq, JoinCqThread,
                  Untouched, vars, callerVars, callVars, queueVars, wireVars
    <3> QED
      BY <1>1, <3>1, UntouchedKeeps DEF IInv
  <2> QED
    BY <2>1, <2>2 DEF Next, CallStep
<1>3. ClientInv'
  BY ClientStep
<1> QED
  BY <1>1, <1>2, <1>3 DEF IInv

LEMMA Invariance == Spec => []IInv
BY InvInit, InvInductive, PTL DEF Spec

-----------------------------------------------------------------------------
(* The safety properties, for every value of the constants.                  *)

(***************************************************************************)
(* Proceed never runs on a deleted call object, and no call object waits   *)
(* for an operation that was not requested: the completion queue holds one *)
(* tag for each call object gRPC was given, and no other.                  *)
(***************************************************************************)
THEOREM TagsStayLive == Spec => []TagsAreLive
<1>1. IInv => TagsAreLive
  <2> SUFFICES ASSUME IInv, NEW c \in Calls PROVE Outstanding(c) = Due(c)
    BY DEF TagsAreLive, Due
  <2>1. CASE \A e \in events : e.call # c
    <3>1. pending[c] = Due(c) /\ pending[c] \subseteq Ops
      BY <2>1 DEF IInv, CallInv, TagInv, TypeOK
    <3> QED
      BY <2>1, <3>1 DEF Outstanding
  <2>2. ASSUME NEW e \in events, e.call = c PROVE Outstanding(c) = Due(c)
    <3>1. pending[c] = {} /\ Due(c) = {e.op}
      BY <2>2 DEF IInv, CallInv, TagInv
    <3>2. \A f \in events : f.call = c => f = e
      BY <2>2 DEF IInv, CallInv, TagInv
    <3>3. e.op \in Ops
      BY <2>2 DEF IInv, TypeOK, Events
    <3> QED
      BY <2>2, <3>1, <3>2, <3>3 DEF Outstanding
  <2> QED
    BY <2>1, <2>2
<1> QED
  BY <1>1, Invariance, PTL

(***************************************************************************)
(* A stream call whose chunk_accumulator did not throw yields a value only *)
(* when every chunk the server sent is in it and the RPC ended with OK.    *)
(***************************************************************************)
THEOREM StreamValuesAreWhole == Spec => []StreamValueIsWhole
<1>1. IInv => StreamValueIsWhole
  BY CallAssumption DEF IInv, CallInv, StreamInv, StreamValueIsWhole
<1> QED
  BY <1>1, Invariance, PTL

\* Nothing is outstanding once the completion-queue thread is gone.
LEMMA ExitedMeansResolved == IInv => DrainedMeansResolved
<1> SUFFICES ASSUME IInv, cqThread = "exited", NEW c \in Calls, pc[c] = "returned"
             PROVE  promise[c] # "unset"
  BY DEF DrainedMeansResolved
<1>1. Due(c) = {}
  BY DEF IInv, ClientInv, CallInv, TagInv
<1>2. ~HasObject(c)
  BY <1>1 DEF Due, ExpectedOp, HasObject
<1> QED
  BY <1>2 DEF IInv, CallInv, LifeInv

(***************************************************************************)
(* shutdown() strands no future: when RunCompletionQueue has returned,     *)
(* every call that was made has its outcome, even if callers race with     *)
(* shutdown().                                                             *)
(***************************************************************************)
THEOREM ShutdownStrandsNoCall == Spec => []DrainedMeansResolved
BY ExitedMeansResolved, Invariance, PTL

-----------------------------------------------------------------------------
(* The race between callers and shutdown().                                  *)

LEMMA RaceInductive == IInv /\ RaceInv /\ [Next]_vars => RaceInv'
<1> SUFFICES ASSUME IInv, RaceInv, [Next]_vars PROVE RaceInv'
  OBVIOUS
<1> USE DEF RaceInv, Issuing, clientVars, callerVars, callVars, queueVars, wireVars
<1> USE DEF IInv, ClientInv, TypeOK
<1>1. ASSUME NEW c \in Calls, Send(c) PROVE RaceInv'
  <2>1. CASE RejectCall(c)
    BY <2>1 DEF RejectCall
  <2>2. CASE NewCall(c)
    BY <2>2 DEF NewCall
  <2>3. CASE GetAsyncStub(c)
    BY <2>3 DEF GetAsyncStub
  <2>4. CASE PrepareCall(c)
    BY <2>4 DEF PrepareCall
  <2>5. CASE StartCall(c)
    BY <2>5 DEF StartCall
  <2> QED
    BY <1>1, <2>1, <2>2, <2>3, <2>4, <2>5 DEF Send
<1>2. ASSUME NEW c \in Calls, Grpc(c) \/ DeadlineExpires(c) \/ Proceed(c) PROVE RaceInv'
  <2>1. UNCHANGED <<pc, got, stub, shutPc>>
    BY <1>2 DEF Grpc, ServerSend, ServerEnd, StartDone, ReadDone, FinishDone, DeadlineExpires,
                Proceed, ProceedUnary, ProceedStarted, ProceedChunk, ProceedChunkThrows,
                ProceedEndOfStream, ProceedFinished, ProceedAborts
  <2> QED
    BY <2>1
<1>3. CASE CqThreadExits
  BY <1>3 DEF CqThreadExits
<1>4. CASE Shutdown
  BY <1>4 DEF Shutdown, ShutdownBegin, ResetStub, ShutCq, JoinCqThread
<1>5. CASE UNCHANGED vars
  BY <1>5 DEF vars
<1> QED
  BY <1>1, <1>2, <1>3, <1>4, <1>5 DEF Next

LEMMA RaceInvariance == Spec => [](IInv /\ RaceInv)
<1>1. Init => RaceInv
  BY DEF Init, RaceInv, Issuing
<1> QED
  BY <1>1, InvInit, InvInductive, RaceInductive, PTL DEF Spec

\* Once drained, the queue that shutdown() shut takes nothing more.
LEMMA DrainedStays == IInv /\ ~QueueAccepts /\ [Next]_vars => (~QueueAccepts)'
<1> SUFFICES ASSUME IInv, ~QueueAccepts, [Next]_vars PROVE (~QueueAccepts)'
  OBVIOUS
<1> USE DEF IInv, TypeOK, clientVars, callerVars, callVars, queueVars, wireVars
<1>1. cq = "shut" /\ \A c \in Calls : pending[c] = {}
  BY DEF QueueAccepts
<1>2. ASSUME NEW c \in Calls, Send(c) PROVE UNCHANGED <<cq, pending>>
  BY <1>2 DEF Send, RejectCall, NewCall, GetAsyncStub, PrepareCall, StartCall
<1>3. ASSUME NEW c \in Calls, Grpc(c) \/ DeadlineExpires(c) PROVE UNCHANGED <<cq, pending>>
  BY <1>1, <1>3 DEF Grpc, ServerSend, ServerEnd, StartDone, ReadDone, FinishDone, Complete,
                    DeadlineExpires
<1>4. ASSUME NEW c \in Calls, Proceed(c) PROVE UNCHANGED <<cq, pending>>
  BY <1>4 DEF Proceed, ProceedUnary, ProceedStarted, ProceedChunk, ProceedChunkThrows,
              ProceedEndOfStream, ProceedFinished, ProceedAborts
<1>5. CASE CqThreadExits \/ Shutdown \/ UNCHANGED vars
  <2>1. cq' = "shut" /\ UNCHANGED pending
    BY <1>1, <1>5 DEF CqThreadExits, Shutdown, ShutdownBegin, ResetStub, ShutCq, JoinCqThread,
                      vars
  <2> QED
    BY <1>1, <2>1 DEF QueueAccepts
<1> QED
  BY <1>1, <1>2, <1>3, <1>4, <1>5 DEF Next, QueueAccepts

\* An overtaken call is never started, whatever comes after.
LEMMA OvertakenStays ==
    ASSUME IInv, [Next]_vars, NEW c \in Calls, Overtaken(c)
    PROVE  Overtaken(c)'
<1> USE DEF IInv, ClientInv, TypeOK, clientVars, callerVars, callVars, queueVars, wireVars
<1>1. stub = "null" => stub' = "null"
  BY DEF Next, Send, RejectCall, NewCall, GetAsyncStub, PrepareCall, StartCall,
         Grpc, ServerSend, ServerEnd, StartDone, ReadDone, FinishDone, DeadlineExpires,
         Proceed, ProceedUnary, ProceedStarted, ProceedChunk, ProceedChunkThrows,
         ProceedEndOfStream, ProceedFinished, ProceedAborts,
         CqThreadExits, Shutdown, ShutdownBegin, ResetStub, ShutCq, JoinCqThread, vars
<1>2. pc'[c] = pc[c]
  <2>1. ASSUME NEW d \in Calls, Send(d) PROVE pc'[c] = pc[c]
    BY <2>1 DEF Overtaken, Send, RejectCall, NewCall, GetAsyncStub, PrepareCall, StartCall
  <2>2. ASSUME NEW d \in Calls, Grpc(d) \/ DeadlineExpires(d) \/ Proceed(d) PROVE pc' = pc
    BY <2>2 DEF Grpc, ServerSend, ServerEnd, StartDone, ReadDone, FinishDone, DeadlineExpires,
                Proceed, ProceedUnary, ProceedStarted, ProceedChunk, ProceedChunkThrows,
                ProceedEndOfStream, ProceedFinished, ProceedAborts
  <2>3. CASE CqThreadExits \/ Shutdown \/ UNCHANGED vars
    BY <2>3 DEF CqThreadExits, Shutdown, ShutdownBegin, ResetStub, ShutCq, JoinCqThread, vars
  <2> QED
    BY <2>1, <2>2, <2>3 DEF Next
<1> QED
  BY <1>1, <1>2, DrainedStays DEF Overtaken

\* A stream that is cut on the drained queue waits for a Proceed that cannot be
\* carried out.
LEMMA CutStays ==
    ASSUME IInv, [Next]_vars, ~QueueAccepts, NEW c \in Calls, CutStream(c)
    PROVE  CutStream(c)'
<1> USE DEF IInv, TypeOK, clientVars, callerVars, callVars, queueVars, wireVars
<1>1. \A d \in Calls : pending[d] = {}
  BY DEF QueueAccepts
<1>2. PICK ev \in events : ev.call = c
  BY DEF CutStream
<1>3. pc[c] # "idle"
  BY DEF CutStream, CallInv, LifeInv, HasObject
<1>4. state'[c] = state[c] /\ ev \in events'
  <2>1. ASSUME NEW d \in Calls, Send(d) PROVE state'[c] = state[c] /\ ev \in events'
    BY <1>2, <1>3, <2>1 DEF Send, RejectCall, NewCall, GetAsyncStub, PrepareCall, StartCall
  <2>2. ASSUME NEW d \in Calls, Grpc(d) \/ DeadlineExpires(d) \/ ProceedAborts(d)
        PROVE  UNCHANGED <<state, events>>
    BY <1>1, <2>2 DEF Grpc, ServerSend, ServerEnd, StartDone, ReadDone, FinishDone, Complete,
                      DeadlineExpires, ProceedAborts
  <2>3. ASSUME NEW d \in Calls, ProceedUnary(d) \/ ProceedFinished(d)
        PROVE  state'[c] = state[c] /\ ev \in events'
    <3>1. d # c
      BY <2>3 DEF ProceedUnary, ProceedFinished, CutStream
    <3>2. PICK ok \in BOOLEAN : CqNext(d, "finish", ok)
      BY <2>3 DEF ProceedUnary, ProceedFinished
    <3>3. ev \in events'
      BY <1>2, <3>1, <3>2 DEF CqNext
    <3> QED
      BY <2>3, <3>1, <3>3 DEF ProceedUnary, ProceedFinished, SetPromise
  <2>4. ASSUME NEW d \in Calls, Proceed(d)
        PROVE  ProceedUnary(d) \/ ProceedFinished(d) \/ ProceedAborts(d)
    BY <2>4 DEF Proceed, ProceedStarted, ProceedChunk, ProceedChunkThrows, ProceedEndOfStream
  <2>5. CASE CqThreadExits \/ Shutdown \/ UNCHANGED vars
    BY <2>5, <1>2 DEF CqThreadExits, Shutdown, ShutdownBegin, ResetStub, ShutCq, JoinCqThread, vars
  <2> QED
    BY <1>2, <2>1, <2>2, <2>3, <2>4, <2>5 DEF Next
<1> QED
  BY <1>2, <1>4 DEF CutStream

\* The step that ends the process is a call's or a stream's.
LEMMA AbortIsARace ==
    ASSUME IInv, RaceInv, [Next]_vars, ~crashed, crashed'
    PROVE  \/ \E c \in Calls \ Serialised : Overtaken(c)
           \/ ~QueueAccepts /\ \E c \in Calls : CutStream(c)
<1> USE DEF IInv, ClientInv, TypeOK, clientVars, callerVars, callVars, queueVars, wireVars
<1>1. PICK c \in Calls : PrepareCall(c) \/ StartCall(c) \/ ProceedAborts(c)
  BY DEF Next, vars, Send, RejectCall, NewCall, GetAsyncStub,
         Grpc, ServerSend, ServerEnd, StartDone, ReadDone, FinishDone, DeadlineExpires,
         Proceed, ProceedUnary, ProceedStarted, ProceedChunk, ProceedChunkThrows,
         ProceedEndOfStream, ProceedFinished,
         CqThreadExits, Shutdown, ShutdownBegin, ResetStub, ShutCq, JoinCqThread
<1>2. CASE PrepareCall(c)
  <2>1. pc[c] = "gotStub" /\ stub = "null"
    BY <1>2 DEF PrepareCall, RaceInv
  <2>2. c \notin Serialised
    BY <2>1 DEF RaceInv, Issuing
  <2> QED
    BY <2>1, <2>2 DEF Overtaken
<1>3. CASE StartCall(c)
  <2>1. pc[c] = "prepared" /\ ~QueueAccepts
    BY <1>3 DEF StartCall
  <2>2. c \notin Serialised
    BY <2>1 DEF RaceInv, Issuing, QueueAccepts
  <2> QED
    BY <2>1, <2>2 DEF Overtaken
<1>4. CASE ProceedAborts(c)
  BY <1>4 DEF ProceedAborts, CutStream, CallInv, LifeInv
<1> QED
  BY <1>1, <1>2, <1>3, <1>4

LEMMA AbortInductive ==
    IInv /\ RaceInv /\ OnlyRacesAbort /\ [Next]_vars => OnlyRacesAbort'
<1> SUFFICES ASSUME IInv, RaceInv, OnlyRacesAbort, [Next]_vars, crashed' PROVE OnlyRacesAbort'
  BY DEF OnlyRacesAbort
<1>1. \/ \E c \in Calls \ Serialised : Overtaken(c)
      \/ ~QueueAccepts /\ \E c \in Calls : CutStream(c)
  <2>1. CASE crashed
    BY <2>1 DEF OnlyRacesAbort
  <2>2. CASE ~crashed
    BY <2>2, AbortIsARace
  <2> QED
    BY <2>1, <2>2
<1>2. CASE \E c \in Calls \ Serialised : Overtaken(c)
  <2>1. PICK c \in Calls \ Serialised : Overtaken(c)
    BY <1>2
  <2>2. Overtaken(c)'
    BY <2>1, OvertakenStays
  <2> QED
    BY <2>1, <2>2 DEF OnlyRacesAbort
<1>3. CASE ~QueueAccepts /\ \E c \in Calls : CutStream(c)
  <2>1. PICK c \in Calls : CutStream(c)
    BY <1>3
  <2>2. CutStream(c)' /\ (~QueueAccepts)'
    BY <1>3, <2>1, CutStays, DrainedStays
  <2> QED
    BY <2>2 DEF OnlyRacesAbort
<1> QED
  BY <1>1, <1>2, <1>3

(***************************************************************************)
(* The process ends only with a call of an unserialised caller between its *)
(* check and its start, or with a stream in flight on the queue that       *)
(* shutdown() shut.  In particular a caller that synchronises with         *)
(* shutdown() never reaches the reset stub and starts no call on the       *)
(* drained queue, whatever the other callers do.                           *)
(***************************************************************************)
THEOREM OnlyRacesEndTheProcess == Spec => []OnlyRacesAbort
<1>1. Init => OnlyRacesAbort
  BY DEF Init, OnlyRacesAbort
<1> QED
  BY <1>1, AbortInductive, RaceInvariance, PTL DEF Spec

-----------------------------------------------------------------------------
(* Refinement, whether or not callers serialise.                             *)

\* A step that resolves call c is the contract's Resolve: the call was accepted and
\* the client is not closed, since its completion-queue thread still runs.
LEMMA OutcomeResolves ==
    ASSUME IInv, NEW c \in Calls, HasObject(c), pc[c] = "returned", cqThread = "running",
           NEW outcome \in {"value", "error"}, SetPromise(c, outcome),
           UNCHANGED <<clientVars, pc>>
    PROVE  Contract!Resolve(c)
<1> USE DEF IInv, TypeOK, clientVars
<1>1. phase[c] = "pending"
  BY DEF CallInv, LifeInv, phase
<1>2. door # "closed"
  BY DEF ClientInv, door
<1>3. phase' = [phase EXCEPT ![c] = outcome]
  BY DEF SetPromise, phase
<1>4. door' = door
  BY DEF door
<1> QED
  BY <1>1, <1>2, <1>3, <1>4 DEF Contract!Resolve

\* A call that is started while shutdown() runs is accepted only if the queue is not
\* drained, and so before shutdown() returns.
LEMMA StepSimulates == IInv /\ [Next]_vars => [Contract!Next]_<<phase, door>>
<1> SUFFICES ASSUME IInv, [Next]_vars PROVE [Contract!Next]_<<phase, door>>
  OBVIOUS
<1> USE DEF IInv, TypeOK, clientVars, callerVars, callVars, queueVars, wireVars
<1>1. ASSUME NEW c \in Calls, RejectCall(c) PROVE Contract!Reject(c)
  <2>1. phase[c] = "new" /\ door # "open" /\ door' = door
    BY <1>1 DEF RejectCall, CallInv, LifeInv, phase, door
  <2>2. phase' = [phase EXCEPT ![c] = "error"]
    BY <1>1 DEF RejectCall, phase
  <2> QED
    BY <2>1, <2>2 DEF Contract!Reject
<1>2. ASSUME NEW c \in Calls, NewCall(c) PROVE Contract!Enter(c)
  <2>1. phase[c] = "new" /\ door = "open" /\ door' = door
    BY <1>2 DEF NewCall, CallInv, LifeInv, phase, door
  <2>2. phase' = [phase EXCEPT ![c] = "entered"]
    BY <1>2 DEF NewCall, CallInv, LifeInv, phase
  <2> QED
    BY <2>1, <2>2 DEF Contract!Enter
<1>3. ASSUME NEW c \in Calls, GetAsyncStub(c) \/ PrepareCall(c)
      PROVE  UNCHANGED <<phase, door>>
  <2>1. promise' = promise /\ UNCHANGED clientVars
    BY <1>3 DEF GetAsyncStub, PrepareCall
  <2>2. \A d \in Calls : /\ pc'[d] = "idle" <=> pc[d] = "idle"
                         /\ pc'[d] = "returned" <=> pc[d] = "returned"
    BY <1>3 DEF GetAsyncStub, PrepareCall
  <2> QED
    BY <2>1, <2>2 DEF phase, door
<1>11. ASSUME NEW c \in Calls, StartCall(c)
       PROVE  Contract!Accept(c) \/ UNCHANGED <<phase, door>>
  <2>1. UNCHANGED <<promise, clientVars>>
    BY <1>11 DEF StartCall
  <2>2. CASE QueueAccepts
    <3>1. phase[c] = "entered"
      BY <1>11 DEF StartCall, CallInv, LifeInv, HasObject, phase
    <3>2. door # "closed"
      BY <2>2 DEF QueueAccepts, ClientInv, door
    <3>3. promise[c] = "unset" /\ pc' = [pc EXCEPT ![c] = "returned"]
      BY <1>11, <2>2 DEF StartCall, CallInv, LifeInv, HasObject
    <3>4. phase' = [phase EXCEPT ![c] = "pending"]
      BY <2>1, <3>3 DEF phase
    <3>5. door' = door
      BY <2>1 DEF door
    <3> QED
      BY <3>1, <3>2, <3>4, <3>5 DEF Contract!Accept
  <2>3. CASE ~QueueAccepts
    BY <1>11, <2>1, <2>3 DEF StartCall, phase, door
  <2> QED
    BY <2>2, <2>3
<1>4. ASSUME NEW c \in Calls, Grpc(c) \/ DeadlineExpires(c) \/ ProceedStarted(c)
                               \/ ProceedChunk(c) \/ ProceedChunkThrows(c) \/ ProceedEndOfStream(c)
                               \/ ProceedAborts(c)
      PROVE  UNCHANGED <<phase, door>>
  <2>1. UNCHANGED <<promise, pc, shutdownCalled, shutPc>>
    BY <1>4 DEF Grpc, ServerSend, ServerEnd, StartDone, ReadDone, FinishDone, DeadlineExpires,
                ProceedStarted, ProceedChunk, ProceedChunkThrows, ProceedEndOfStream,
                ProceedAborts
  <2> QED
    BY <2>1 DEF phase, door
<1>5. ASSUME NEW c \in Calls, ProceedUnary(c) \/ ProceedFinished(c) PROVE Contract!Resolve(c)
  <2>1. HasObject(c) /\ cqThread = "running" /\ UNCHANGED <<clientVars, pc>>
    BY <1>5 DEF ProceedUnary, ProceedFinished, CqNext, HasObject
  <2>2. SetPromise(c, "value") \/ SetPromise(c, "error")
    BY <1>5 DEF ProceedUnary, ProceedFinished
  <2>3. pc[c] = "returned"
    <3> PICK ok \in BOOLEAN : CqNext(c, "finish", ok)
      BY <1>5 DEF ProceedUnary, ProceedFinished
    <3> QED
      BY NextTakesTheOnlyTag DEF CallInv, Ops
  <2> QED
    BY <2>1, <2>2, <2>3, OutcomeResolves
<1>6. CASE CqThreadExits
  BY <1>6 DEF CqThreadExits, phase, door
<1>7. CASE ShutdownBegin
  <2>1. phase' = phase /\ door = "open" /\ door' = "closing"
    BY <1>7 DEF ShutdownBegin, ClientInv, phase, door
  <2> QED
    BY <2>1 DEF Contract!Next, Contract!Close
<1>8. CASE ResetStub \/ ShutCq
  BY <1>8 DEF ResetStub, ShutCq, phase, door
<1>9. CASE JoinCqThread
  <2>1. phase' = phase /\ door = "closing" /\ door' = "closed"
    BY <1>9 DEF JoinCqThread, ClientInv, phase, door
  <2>2. \A c \in Calls : phase[c] # "pending"
    BY <1>9, ExitedMeansResolved DEF JoinCqThread, DrainedMeansResolved, phase
  <2> QED
    BY <2>1, <2>2 DEF Contract!Next, Contract!Closed
<1>10. CASE UNCHANGED vars
  BY <1>10 DEF vars, phase, door
<1> QED
  BY <1>1, <1>2, <1>3, <1>4, <1>5, <1>6, <1>7, <1>8, <1>9, <1>10, <1>11
     DEF Next, Send, Proceed, Shutdown, Contract!Next

(***************************************************************************)
(* Refinement: the client implements RpcContract, for any interleaving of  *)
(* its callers with the steps of shutdown() -- a call is rejected or       *)
(* enters, and an accepted one is resolved once and before shutdown()      *)
(* returns.                                                                *)
(***************************************************************************)
THEOREM ClientImplementsContract == Spec => ImplementsContract
<1>1. Init => Contract!Init
  BY DEF Init, Contract!Init, phase, door
<1> QED
  BY <1>1, StepSimulates, Invariance, PTL
     DEF Spec, ImplementsContract, Contract!Spec, Contract!vars

=============================================================================

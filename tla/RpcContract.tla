---------------------------- MODULE RpcContract ----------------------------
(***************************************************************************)
(* What an asynchronous client promises its caller, with the completion    *)
(* queue, the call objects and the stub left out: a call is rejected, or   *)
(* enters while the client is open; one that entered may be overtaken by   *)
(* shutdown() before gRPC accepts it; an accepted call is resolved once,   *)
(* and a client that has finished shutting down accepts no call and holds  *)
(* none that is unresolved.  (A call that was overtaken may never leave    *)
(* "entered": the process is gone.)                                        *)
(***************************************************************************)
CONSTANT Calls

VARIABLES
    phase,      \* phase[c]: "new", "entered", "pending", "value" or "error"
    door        \* "open", "closing" or "closed"

vars == <<phase, door>>

TypeOK ==
    /\ phase \in [Calls -> {"new", "entered", "pending", "value", "error"}]
    /\ door \in {"open", "closing", "closed"}

Init ==
    /\ phase = [c \in Calls |-> "new"]
    /\ door = "open"

Enter(c) ==
    /\ phase[c] = "new"
    /\ door = "open"
    /\ phase' = [phase EXCEPT ![c] = "entered"]
    /\ UNCHANGED door

Accept(c) ==
    /\ phase[c] = "entered"
    /\ door # "closed"
    /\ phase' = [phase EXCEPT ![c] = "pending"]
    /\ UNCHANGED door

Reject(c) ==
    /\ phase[c] = "new"
    /\ door # "open"
    /\ phase' = [phase EXCEPT ![c] = "error"]
    /\ UNCHANGED door

Resolve(c) ==
    /\ phase[c] = "pending"
    /\ door # "closed"
    /\ \E outcome \in {"value", "error"} : phase' = [phase EXCEPT ![c] = outcome]
    /\ UNCHANGED door

Close ==
    /\ door = "open"
    /\ door' = "closing"
    /\ UNCHANGED phase

Closed ==
    /\ door = "closing"
    /\ \A c \in Calls : phase[c] # "pending"
    /\ door' = "closed"
    /\ UNCHANGED phase

Next ==
    \/ \E c \in Calls : Enter(c) \/ Accept(c) \/ Reject(c) \/ Resolve(c)
    \/ Close
    \/ Closed

Spec == Init /\ [][Next]_vars

=============================================================================

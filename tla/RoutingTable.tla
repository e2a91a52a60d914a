---------------------------- MODULE RoutingTable ----------------------------
(***************************************************************************)
(* RoutingTable: the map from (role, shard) to standalone clients, and the *)
(* map from targets to the clients it owns.  Each operator below is one    *)
(* critical section of mutex_; the threads that enter them are in          *)
(* SmartClient, which extends this module.                                 *)
(*                                                                         *)
(* A client object is <<t, g>>: the g-th client ever created for target t. *)
(***************************************************************************)
EXTENDS Naturals, FiniteSets, Sequences, FiniteSetsExt

CONSTANTS
    Targets,            \* host:port of the data nodes
    Shards,             \* the shard numbers topologies and hashes can name
    NoClient,           \* a null SharedClient
    InitialMaxShards    \* 1024 in the code, until the first topology

Roles == {"MASTER", "BACKUP"}

ASSUME TableAssumption ==
    /\ InitialMaxShards \in Nat \ {0}
    /\ Shards \subseteq Nat
    /\ NoClient \notin Targets \X Nat

VARIABLES
    maxShards,          \* max_shards_
    route,              \* routing_table_: [Roles \X Shards -> client or NoClient]
    byTarget,           \* routing_table_target_: generation of t's client, 0 if absent
    gen,                \* gen[t]: clients created so far for t
    down                \* clients on which shutdown() was called

tableVars == <<maxShards, route, byTarget, gen, down>>

Client == Targets \X (Nat \ {0})

\* What one coordinator reply holds: max_shards and a sequence of PeerRouting.
PeerRouting == [target : Targets, role : Roles, partitionids : SUBSET Shards]

TableTypeOK ==
    /\ maxShards \in Nat
    /\ route \in [Roles \X Shards -> Client \cup {NoClient}]
    /\ byTarget \in [Targets -> Nat]
    /\ gen \in [Targets -> Nat]
    /\ down \subseteq Client

TableInit ==
    /\ maxShards = InitialMaxShards
    /\ route = [k \in Roles \X Shards |-> NoClient]
    /\ byTarget = [t \in Targets |-> 0]
    /\ gen = [t \in Targets |-> 0]
    /\ down = {}

Registered(t) == byTarget[t] # 0
ClientOf(t) == <<t, byTarget[t]>>
RegisteredClients == {ClientOf(t) : t \in {x \in Targets : Registered(x)}}

-----------------------------------------------------------------------------
NewTargets(topology) == {topology.peers[i].target : i \in DOMAIN topology.peers}

\* Clients of targets the new topology no longer names; shut down after the unlock.
RemovedClients(topology) ==
    {ClientOf(t) : t \in {x \in Targets : Registered(x) /\ x \notin NewTargets(topology)}}

CreateMissing(topology) ==
    [t \in Targets |-> IF t \in NewTargets(topology) /\ ~Registered(t) THEN gen[t] + 1 ELSE gen[t]]

\* The routes of a topology, given the registered generations bt: the last peer wins.
RoutesOf(topology, bt) ==
    [k \in Roles \X Shards |->
        LET hits == {i \in DOMAIN topology.peers :
                        topology.peers[i].role = k[1] /\ k[2] \in topology.peers[i].partitionids}
            t == topology.peers[Max(hits)].target
        IN IF hits = {} THEN NoClient ELSE <<t, bt[t]>>]

\* Mutant: routing_table_ is not cleared, stale routes survive.
UpdateKeepsRoutes(topology) ==
    LET bt == [t \in Targets |->
                  IF t \notin NewTargets(topology) THEN 0
                  ELSE IF Registered(t) THEN byTarget[t] ELSE gen[t] + 1]
        fresh == RoutesOf(topology, bt)
    IN /\ maxShards' = topology.max
       /\ gen' = CreateMissing(topology)
       /\ byTarget' = bt
       /\ route' = [k \in Roles \X Shards |-> IF fresh[k] = NoClient THEN route[k] ELSE fresh[k]]

\* The critical section of updateFromCoordinator.
UpdateFromCoordinator(topology) ==
    LET created == CreateMissing(topology)
        bt == [t \in Targets |->
                  IF t \notin NewTargets(topology) THEN 0
                  ELSE IF created[t] # gen[t] THEN created[t] ELSE byTarget[t]]
    IN /\ maxShards' = topology.max
       /\ gen' = created
       /\ byTarget' = bt
       /\ route' = RoutesOf(topology, bt)

GetRoute(shard, role) ==
    IF shard \in Shards THEN route[<<role, shard>>] ELSE NoClient

\* Mutant: the second lookup, under the unique lock, is left out.
CreateByTargetNoRecheck(t) ==
    /\ gen' = [gen EXCEPT ![t] = @ + 1]
    /\ byTarget' = [byTarget EXCEPT ![t] = gen[t] + 1]

\* getOrCreateByTarget under the unique lock: look again, then create.
CreateByTarget(t) ==
    IF Registered(t)
      THEN UNCHANGED <<gen, byTarget>>
      ELSE /\ gen' = [gen EXCEPT ![t] = @ + 1]
           /\ byTarget' = [byTarget EXCEPT ![t] = gen[t] + 1]

\* The critical section of shutdown(): both maps are emptied.
ClearTable ==
    /\ route' = [k \in Roles \X Shards |-> NoClient]
    /\ byTarget' = [t \in Targets |-> 0]

-----------------------------------------------------------------------------
(***************************************************************************)
(* Every route leads to a client the table owns: an update never leaves a  *)
(* (role, shard) entry on a client that was removed, and so shut down, by  *)
(* this or an earlier update.                                              *)
(***************************************************************************)
RoutesAreRegistered ==
    \A k \in Roles \X Shards : route[k] # NoClient => route[k] \in RegisteredClients

=============================================================================

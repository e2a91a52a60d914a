------------------------------ MODULE MCSmart ------------------------------
(* Small clusters, topologies and redirects for SmartClient. *)
EXTENDS SmartClient
CONSTANTS a, b, c, r1, r2, h1

Peer(t, role, parts) == [target |-> t, role |-> role, partitionids |-> parts]

\* One shard on two nodes; the backup alone, promoted; the backup alone, not promoted.
TwoNodes == [max |-> 1, peers |-> <<Peer(a, "MASTER", {0}), Peer(b, "BACKUP", {0})>>]
OneNode == [max |-> 1, peers |-> <<Peer(b, "MASTER", {0})>>]
BackupOnly == [max |-> 1, peers |-> <<Peer(a, "BACKUP", {0})>>]
\* A reply that names a shard's master twice: the later peer counts.
Overlapping == [max |-> 1, peers |-> <<Peer(a, "MASTER", {0}), Peer(b, "MASTER", {0})>>]
\* A stream that ended with OK before its first chunk.
NoChunk == [max |-> 0, peers |-> <<>>]
\* The key space split over two and over three shards.
TwoShards == [max |-> 2, peers |-> <<Peer(a, "MASTER", {0}), Peer(b, "MASTER", {1})>>]
ThreeShards == [max |-> 3, peers |-> <<Peer(c, "MASTER", {0}), Peer(b, "MASTER", {1}), Peer(a, "MASTER", {2})>>]

\* A failover that retires a's client.
Moving == {TwoNodes, OneNode}
Losing == {TwoNodes, OneNode, BackupOnly}
Degrading == {TwoNodes, OneNode, BackupOnly, Overlapping}
WithNoChunk == {TwoNodes, NoChunk}
Resharding == {TwoShards, ThreeShards}

\* r1 has a key hint; r2, with an empty key, has none.
MCHash == [r \in Requests |-> IF r = r1 THEN 4 ELSE NoHint]

\* "a" and ",a".
ToA == {<<a, NoTarget>>, <<NoTarget, a>>}
=============================================================================

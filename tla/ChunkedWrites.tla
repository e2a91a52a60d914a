--------------------------- MODULE ChunkedWrites ---------------------------
(***************************************************************************)
(* One operation of the smart client on one container.  Most are a single  *)
(* call through execute().  A write larger than one RPC is cut into chunks *)
(* (partition*, firstChunkSplit), whose calls are sent one after the other *)
(* by runAddPipeline or, for a create, by createWithRemainder.             *)
(*                                                                         *)
(* Next to it run other clients of the container and the caller, who frees *)
(* the arguments it passed.  execute() is SmartClient's: here one call is  *)
(* an attempt and, after UNAVAILABLE, one more.  (A redirect only moves an *)
(* attempt to another node.)  What the server does with a call is external.*)
(***************************************************************************)
EXTENDS Naturals, SequencesExt, Selection

CONSTANTS
    Writes,             \* the operations considered: [kind, data, values, pos, pivot, list]
    Raw,                \* Raw[v]: size of element v as it is
    Packed,             \* Packed[v]: its size compressed
    Threshold,          \* compression_threshold_ of the smart client
    DefaultThreshold,   \* 1024, the default of buildValueProtoNoTtl
    BaseSize,           \* the size every chunk starts from: the key plus 32
    CreateBase,         \* 128, the size a create starts from
    MaxRpcSize,         \* maxRpcSize()
    PairOverhead,       \* 32 in partitionMapChunks
    NoValue,            \* a null value, or a null pivot
    Foreign,            \* the element another client adds
    MaxForeign,         \* bound: elements other clients add
    MaxRepeats          \* bound: calls carried out twice

AddKinds    == {"unordered", "tail", "head", "position", "before", "after", "weighted"}
MapKinds    == {"map", "orderedMap", "createMap", "createOrderedMap"}
CreateKinds == {"create", "createOrdered", "createMap", "createOrderedMap"}
PlainKinds  == {"stream", "takeHead", "takeTail", "replace", "remove"}

ASSUME ChunkAssumption ==
    /\ \A w \in Writes : w.kind \in AddKinds \cup MapKinds \cup CreateKinds \cup PlainKinds
    /\ BaseSize \in Nat /\ CreateBase \in Nat /\ PairOverhead \in Nat
    /\ MaxForeign \in Nat /\ MaxRepeats \in Nat
    /\ MaxRpcSize \in Nat \ {0}
    /\ DefaultThreshold \in Nat /\ Threshold \in Nat
    /\ \A v \in DOMAIN Raw : Raw[v] \in Nat /\ Packed[v] \in 0 .. Raw[v]
    /\ \A w \in Writes :
          w.data \in Seq(DOMAIN Raw) /\ w.values \in Seq(DOMAIN Raw) /\ w.list \in Seq(DOMAIN Raw)

VARIABLES
    write,              \* the operation the caller asked for
    calls,              \* its calls that have not returned; the first may be under way
    attempt,            \* "none", or the attempt of the first call that is due: "first",
                        \* or on the fallback: "again", "repeat" if the first was carried out
    list,               \* the container, on the server
    total,              \* runAddPipeline's running total
    outcome,            \* "running", "done", or "failed"
    callerOwns,         \* the caller has not freed its arguments
    foreign,            \* elements other clients added so far
    repeats             \* calls carried out twice so far

vars == <<write, calls, attempt, list, total, outcome, callerOwns, foreign, repeats>>

-----------------------------------------------------------------------------
(* Sizes and splitters.                                                     *)

SumOf(items, sizeOf) ==
    LET sum[n \in 0 .. Len(items)] == IF n = 0 THEN 0 ELSE sum[n - 1] + sizeOf[items[n]]
    IN  sum[Len(items)]

\* buildValueProto compresses what is above its threshold.
SizeAbove(threshold) == [v \in DOMAIN Raw |-> IF Raw[v] > threshold THEN Packed[v] ELSE Raw[v]]

\* The estimates use the smart client's threshold.
Size == SizeAbove(Threshold)

\* Mutant: a chunk is closed only after it has outgrown the limit.
TakeLate(acc, e, elem, base) ==
    IF acc.chunk # <<>> /\ acc.size > MaxRpcSize
      THEN [chunks |-> Append(acc.chunks, acc.chunk), chunk |-> <<e>>, size |-> base + elem]
      ELSE [acc EXCEPT !.chunk = Append(@, e), !.size = @ + elem]

\* The loop body: e, of size elem, opens a new chunk if it does not fit any more.
Take(acc, e, elem, base) ==
    IF acc.chunk # <<>> /\ acc.size + elem > MaxRpcSize
      THEN [chunks |-> Append(acc.chunks, acc.chunk), chunk |-> <<e>>, size |-> base + elem]
      ELSE [chunks |-> acc.chunks, chunk |-> Append(acc.chunk, e), size |-> acc.size + elem]

\* partitionValueChunks and its three variants: greedy, in order.
Partition(items, sizeOf, base) ==
    LET after[n \in 0 .. Len(items)] ==
            IF n = 0 THEN [chunks |-> <<>>, chunk |-> <<>>, size |-> base]
            ELSE Take(after[n - 1], items[n], sizeOf[items[n]], base)
        last == after[Len(items)]
    IN IF last.chunk = <<>> THEN last.chunks ELSE Append(last.chunks, last.chunk)

\* A map entry is <<key, value>>; a null value counts nothing.
PairSize(entries) ==
    [e \in ToSet(entries) |-> Size[e[1]] + PairOverhead + IF e[2] = NoValue THEN 0 ELSE Size[e[2]]]

\* How many elements the create request itself carries.
FirstChunkSplit(items, sizeOf) ==
    LET fitting == {n \in 0 .. Len(items) :
                       \A m \in 1 .. n : CreateBase + SumOf(SubSeq(items, 1, m), sizeOf) <= MaxRpcSize}
    IN  Max(fitting)

-----------------------------------------------------------------------------
(* The calls of each operation.                                             *)

Call(op, vals) == [op |-> op, vals |-> vals]
CallAt(vals, pos) == [op |-> "position", vals |-> vals, pos |-> pos]
CallBy(op, vals, pivot) == [op |-> op, vals |-> vals, pivot |-> pivot]

Chunks(w) == Partition(w.data, Size, BaseSize)

SameOp(op, chunks) == [i \in DOMAIN chunks |-> Call(op, chunks[i])]

\* Mutant: the chunks for the head are pushed in their own order.
HeadCallsForward(chunks) == SameOp("head", chunks)

\* addElementToHead: the last chunk first.
HeadCalls(chunks) == SameOp("head", Reverse(chunks))

ElementsBefore(chunks, i) == Len(FlattenSeq(SubSeq(chunks, 1, i - 1)))

\* addElementToPosition: pos advanced by the sizes of the chunks before.
PositionCalls(chunks, pos) ==
    [i \in DOMAIN chunks |-> CallAt(chunks[i], pos + ElementsBefore(chunks, i))]

\* addElementToPositionBefore / After: later chunks go after the last element
\* of the chunk before.
PivotCalls(op, chunks, pivot) ==
    [i \in DOMAIN chunks |->
        IF i = 1 THEN CallBy(op, chunks[1], pivot)
                 ELSE CallBy("after", chunks[i], Last(chunks[i - 1]))]

\* addElementHashMap / OrderedMap: keys beyond the values get a null value, which
\* is left out of the chunk's values.
MapEntries(w) ==
    [i \in DOMAIN w.data |-> <<w.data[i], IF i \in DOMAIN w.values THEN w.values[i] ELSE NoValue>>]

CallWithPairs(op, entries) ==
    LET values == [i \in DOMAIN entries |-> entries[i][2]]
    IN  [op |-> op,
         vals |-> [i \in DOMAIN entries |-> entries[i][1]],
         values |-> Among(values, ToSet(values) \ {NoValue})]

MapCalls(op, entries, base) ==
    LET chunks == Partition(entries, PairSize(entries), base)
    IN [i \in DOMAIN chunks |-> CallWithPairs(op, chunks[i])]

FirstOf(items, sizeOf) == SubSeq(items, 1, FirstChunkSplit(items, sizeOf))

\* Mutant: the remainder starts one element late.
RestSkipsOne(items, sizeOf) == SubSeq(items, FirstChunkSplit(items, sizeOf) + 2, Len(items))

RestOf(items, sizeOf) == SubSeq(items, FirstChunkSplit(items, sizeOf) + 1, Len(items))

\* createUnorderedContainerSmart, createOrderedSet: what the create request does not
\* carry is added afterwards, in chunks of base 0.
CreateCalls(data, op) ==
    <<Call("create", FirstOf(data, Size))>> \o SameOp(op, Partition(RestOf(data, Size), Size, 0))

\* createMap and createOrderedMap: the split counts no overhead, and an ordered key as it is.
CreateMapCalls(w, op) ==
    LET entries   == MapEntries(w)
        key(e)    == IF w.kind = "createOrderedMap" THEN Raw[e[1]] ELSE Size[e[1]]
        entrySize == [e \in ToSet(entries) |-> key(e) + Size[e[2]]]
    IN <<CallWithPairs(w.kind, FirstOf(entries, entrySize))>>
          \o MapCalls(op, RestOf(entries, entrySize), 0)

\* The operations of one call: the streams, ...
StreamCalls == <<Call("stream", <<>>)>>

\* ... those that take an element from an end, ...
TakeCalls(end) == <<Call(end, <<>>)>>

\* ... updateContainerValue, ...
ReplaceCalls(w) == <<CallBy("replace", w.data, w.pivot)>>

\* ... and removeFromContainer(keys, values).
RemoveCalls(w) == <<Call("remove", w.data)>>

\* An empty add returns 0 at once, without a call.
CallsOf(w) ==
    CASE w.kind \in {"tail", "unordered"}        -> SameOp("tail", Chunks(w))
      [] w.kind = "weighted"                     -> SameOp("weighted", Chunks(w))
      [] w.kind = "head"                         -> HeadCalls(Chunks(w))
      [] w.kind = "position"                     -> PositionCalls(Chunks(w), w.pos)
      [] w.kind \in {"before", "after"}          -> PivotCalls(w.kind, Chunks(w), w.pivot)
      [] w.kind \in {"map", "orderedMap"}        -> MapCalls(w.kind, MapEntries(w), BaseSize)
      [] w.kind = "create"                       -> CreateCalls(w.data, "tail")
      [] w.kind = "createOrdered"                -> CreateCalls(w.data, "weighted")
      [] w.kind = "createMap"                    -> CreateMapCalls(w, "map")
      [] w.kind = "createOrderedMap"             -> CreateMapCalls(w, "orderedMap")
      [] w.kind = "stream"                       -> StreamCalls
      [] w.kind \in {"takeHead", "takeTail"}     -> TakeCalls(w.kind)
      [] w.kind = "replace"                      -> ReplaceCalls(w)
      [] w.kind = "remove"                       -> RemoveCalls(w)

\* Weighted elements, keys of maps, and both halves of an ordered map that is created,
\* are sent as they are.
SentAsIs(call) ==
    CASE call.op \in (MapKinds \ {"createOrderedMap"}) \cup {"weighted"} -> ToSet(call.vals)
      [] call.op = "createOrderedMap" -> ToSet(call.vals \o call.values)
      [] OTHER                        -> {}

\* Mutant: values are added without compression.
SentSizeUncompressed(call) ==
    SumOf(call.vals, Raw) + IF call.op \in MapKinds THEN SumOf(call.values, Raw) ELSE 0

\* The size of a call's elements as the standalone client sends them: the values of a
\* create by the client's threshold, others by the default one, the rest as it is.
SentSize(call) ==
    LET threshold == IF call.op = "create" THEN Threshold ELSE DefaultThreshold
        sent == [v \in DOMAIN Raw |->
                    IF v \in SentAsIs(call) THEN Raw[v] ELSE SizeAbove(threshold)[v]]
    IN  SumOf(call.vals, sent)
          + (CASE call.op \in MapKinds \ {"createOrderedMap"} -> SumOf(call.values, SizeAbove(threshold))
               [] call.op = "createOrderedMap"                -> SumOf(call.values, Raw)
               [] OTHER                                       -> 0)

-----------------------------------------------------------------------------
(* One call on the server (external).  A chunk is inserted as a block; a    *)
(* pivot stands for its first occurrence; a missing one adds nothing, and   *)
(* neither does the standalone client, which returns 0 for a null pivot.    *)

InsertBlock(s, i, vals) == SubSeq(s, 1, i) \o vals \o SubSeq(s, i + 1, Len(s))

FirstIndex(s, v) == CHOOSE i \in DOMAIN s : s[i] = v /\ \A j \in 1 .. i - 1 : s[j] # v

\* The list after a call that names an element of it.
AppliedAt(call, s) ==
    LET i == FirstIndex(s, call.pivot)
    IN  IF call.pivot \notin ToSet(s) THEN s
        ELSE CASE call.op = "before"  -> InsertBlock(s, i - 1, call.vals)
               [] call.op = "after"   -> InsertBlock(s, i, call.vals)
               [] call.op = "replace" -> [s EXCEPT ![i] = call.vals[1]]

Applied(call, s) ==
    CASE call.op \in {"tail", "weighted"} \cup MapKinds \cup CreateKinds -> s \o call.vals
      [] call.op = "head"                              -> call.vals \o s
      [] call.op = "position"                          -> InsertBlock(s, call.pos, call.vals)
      [] call.op \in {"before", "after", "replace"}    -> AppliedAt(call, s)
      [] call.op = "takeHead"                          -> SubSeq(s, 2, Len(s))
      [] call.op = "takeTail"                          -> SubSeq(s, 1, Len(s) - 1)
      [] call.op = "remove"             -> SelectSeq(s, LAMBDA v : v \notin ToSet(call.vals))
      [] call.op = "stream"                            -> s

\* The number it answers: how many elements it added or took.
Answered(before, after) ==
    IF Len(after) >= Len(before) THEN Len(after) - Len(before) ELSE Len(before) - Len(after)

\* addElementHashMap of the standalone client: keys and values must pair up.
Rejected(call) == call.op \in {"map", "orderedMap"} /\ Len(call.vals) # Len(call.values)

-----------------------------------------------------------------------------
\* The operation has given the caller its future: a pipeline has still to start its
\* first call, the others have called execute().
Init ==
    /\ write \in Writes
    /\ calls = CallsOf(write)
    /\ attempt = IF write.kind \in PlainKinds \cup CreateKinds THEN "first" ELSE "none"
    /\ list = write.list
    /\ total = 0
    /\ outcome = "running"
    /\ callerOwns = TRUE
    /\ foreign = 0
    /\ repeats = 0

\* The next call: execute() starts the thread that will build its request.
Submit ==
    /\ outcome = "running" /\ attempt = "none" /\ calls # <<>>
    /\ attempt' = "first"
    /\ UNCHANGED <<write, calls, list, total, outcome, callerOwns, foreign, repeats>>

\* The node that is asked carries the call out, on the fallback perhaps once more.
CarryOut ==
    /\ attempt # "none" /\ ~Rejected(Head(calls))
    /\ list' = Applied(Head(calls), list)
    /\ repeats' = repeats + (IF attempt = "repeat" THEN 1 ELSE 0)
    /\ repeats' <= MaxRepeats

\* It answers with what this attempt added, and the pipeline goes on.
CallReturns ==
    /\ CarryOut
    /\ total' = total + Answered(list, list')
    /\ calls' = Tail(calls)
    /\ attempt' = "none"
    /\ UNCHANGED <<write, outcome, callerOwns, foreign>>

\* Mutant: the fallback's fallback is the first node.
CallUnavailablePingPong ==
    /\ attempt # "none" /\ ~Rejected(Head(calls))
    /\ attempt' = IF attempt = "first" THEN "again" ELSE "first"
    /\ UNCHANGED <<write, calls, list, total, outcome, callerOwns, foreign, repeats>>

\* UNAVAILABLE, carried out or not: the call is repeated on the fallback.
CallUnavailable ==
    /\ attempt = "first" /\ ~Rejected(Head(calls))
    /\ \/ CarryOut /\ attempt' = "repeat"
       \/ UNCHANGED <<list, repeats>> /\ attempt' = "again"
    /\ UNCHANGED <<write, calls, total, outcome, callerOwns, foreign>>

\* Mutant: the pipeline goes on after a failed call.
CallFailsGoesOn ==
    /\ attempt # "none"
    /\ CarryOut \/ UNCHANGED <<list, repeats>>
    /\ attempt' = "none"
    /\ calls' = Tail(calls)
    /\ UNCHANGED <<write, total, outcome, callerOwns, foreign>>

\* It throws, before it was sent, carried out or not: the exception ends the pipeline.
CallFails ==
    /\ attempt # "none"
    /\ CarryOut \/ UNCHANGED <<list, repeats>>
    /\ attempt' = "none"
    /\ outcome' = "failed"
    /\ UNCHANGED <<write, calls, total, callerOwns, foreign>>

\* Mutant: the last call is not waited for.
PipelineEndsEarly ==
    /\ outcome = "running" /\ Len(calls) <= 1
    /\ outcome' = "done"
    /\ UNCHANGED <<write, calls, attempt, list, total, callerOwns, foreign, repeats>>

PipelineEnds ==
    /\ outcome = "running" /\ attempt = "none" /\ calls = <<>>
    /\ outcome' = "done"
    /\ UNCHANGED <<write, calls, attempt, list, total, callerOwns, foreign, repeats>>

\* The caller frees its arguments, once the operation has given it a future.
CallerFrees ==
    /\ callerOwns
    /\ callerOwns' = FALSE
    /\ UNCHANGED <<write, calls, attempt, list, total, outcome, foreign, repeats>>

\* Another client adds an element at either end.
ForeignWrite ==
    /\ foreign < MaxForeign
    /\ foreign' = foreign + 1
    /\ list' \in {<<Foreign>> \o list, Append(list, Foreign)}
    /\ UNCHANGED <<write, calls, attempt, total, outcome, callerOwns, repeats>>

\* The thread of the pipeline and that of the call it waits for.
PipelineStep == Submit \/ CallReturns \/ CallUnavailable \/ CallFails \/ PipelineEnds

Next == PipelineStep \/ CallerFrees \/ ForeignWrite

Spec == Init /\ [][Next]_vars

\* The two threads run, and every attempt ends: the call has a timeout, or the node
\* answers (RequestsResolve and NoneHangs of SmartClient).
FairSpec == Spec /\ WF_vars(PipelineStep)

-----------------------------------------------------------------------------
(* The buffers.                                                             *)

\* The buffers the request of the call under way is built from.  The closure of a
\* single call holds its copies (copyKey, copyValue, ...); a chunk's refers to the
\* copies that the pipeline holds, removeFromContainer's to the caller's arguments.
Reads ==
    (IF write.kind = "remove" THEN {"caller"} ELSE {})
    \cup (IF write.kind \in PlainKinds \/ Head(calls).op \in CreateKinds THEN {} ELSE {"pipeline"})

\* The pipeline's copies live until its thread ends.
Live == (IF outcome = "running" THEN {"pipeline"} ELSE {}) \cup (IF callerOwns THEN {"caller"} ELSE {})

-----------------------------------------------------------------------------
(* Properties.                                                              *)

\* chunks is what a splitter should make of items.
GreedyChunks(chunks, items, sizeOf, base) ==
    /\ FlattenSeq(chunks) = items
    /\ \A i \in DOMAIN chunks :
          /\ chunks[i] # <<>>
          /\ Len(chunks[i]) > 1 => base + SumOf(chunks[i], sizeOf) <= MaxRpcSize
          /\ i > 1 => base + SumOf(Append(chunks[i - 1], chunks[i][1]), sizeOf) > MaxRpcSize

(***************************************************************************)
(* The splitters lose, repeat and reorder nothing; no chunk of several     *)
(* elements exceeds maxRpcSize(); and no chunk could have taken the first  *)
(* element of the next one.                                                *)
(***************************************************************************)
ChunksAreGreedy ==
    IF write.kind \in MapKinds
      THEN LET entries == MapEntries(write)
           IN GreedyChunks(Partition(entries, PairSize(entries), BaseSize),
                           entries, PairSize(entries), BaseSize)
      ELSE GreedyChunks(Chunks(write), write.data, Size, BaseSize)

\* A call of several elements fits, unless an element that is sent as it is has been
\* estimated compressed.
FitsAsSent(call) ==
    Len(call.vals) > 1 /\ (\A v \in SentAsIs(call) : Raw[v] <= Threshold)
        => SentSize(call) <= MaxRpcSize

(***************************************************************************)
(* The estimates the chunks are cut by hold for what is then sent, which   *)
(* is compressed by another threshold or not at all: a call of several     *)
(* elements fits maxRpcSize(), unless an element that is sent as it is has *)
(* been estimated compressed.  (The eighth that maxRpcSize() leaves of a   *)
(* message is for the key and the framing.)  For clients that compress no  *)
(* earlier than the default.                                               *)
(***************************************************************************)
ChunksFitAsSent == \A i \in DOMAIN calls : FitsAsSent(calls[i])

\* The operation as one call, without chunks.
Unchunked(w) ==
    CASE w.kind = "position"             -> Applied(CallAt(w.data, w.pos), w.list)
      [] w.kind \in {"before", "after", "replace"}
                                         -> Applied(CallBy(w.kind, w.data, w.pivot), w.list)
      [] w.kind \in {"head"} \cup (PlainKinds \ {"replace"})
                                         -> Applied(Call(w.kind, w.data), w.list)
      [] OTHER                           -> Applied(Call("tail", w.data), w.list)

(***************************************************************************)
(* Undisturbed by other clients and repeats, an operation that succeeds    *)
(* leaves the container as the same operation in one RPC would: element    *)
(* order kept at the head, at a position and next to a pivot, and nothing  *)
(* added if the pivot is missing.  (For writes of distinct elements: an    *)
(* element equal to the last one of a chunk takes its place as the anchor  *)
(* of the next chunk.)                                                     *)
(***************************************************************************)
ChunkingIsInvisible ==
    outcome = "done" /\ foreign = 0 /\ repeats = 0 => list = Unchunked(write)

(***************************************************************************)
(* Whatever fails or is carried out twice, and whoever else writes, the    *)
(* elements that arrived are a prefix of the data (for the head a suffix): *)
(* a write that ends half way leaves no hole.  Unless a call was carried   *)
(* out more than once they are also in the caller's order; at a position,  *)
(* which is absolute, only while no one else writes.  (For writes of       *)
(* distinct elements.)                                                     *)
(***************************************************************************)
ArrivedInOrder ==
    LET mine == Among(list, ToSet(write.data))
        ended(n) == IF write.kind = "head" THEN SubSeq(write.data, n + 1, Len(write.data))
                                           ELSE SubSeq(write.data, 1, n)
    IN write.kind # "remove" =>
          \E n \in 0 .. Len(write.data) :
             /\ ToSet(mine) = ToSet(ended(n))
             /\ repeats = 0 /\ (write.kind = "position" => foreign = 0) => mine = ended(n)

\* How many elements the caller asked to add or to take.
Asked(w) == IF w.kind \in {"takeHead", "takeTail"} THEN 1
            ELSE IF w.kind \in {"stream", "replace"} THEN 0 ELSE Len(w.data)

(***************************************************************************)
(* Success is all or nothing, and counted once: the calls' answers add up  *)
(* to the number of elements the caller asked to add or to take, also when *)
(* one was carried out twice, and to 0 only if the pivot is missing; then  *)
(* no element was added, by no chunk.                                      *)
(***************************************************************************)
SuccessIsComplete ==
    outcome = "done" =>
        IF write.kind \in {"before", "after"} /\ write.pivot \notin ToSet(write.list)
          THEN total = 0 /\ ToSet(list) \cap ToSet(write.data) = {}
          ELSE total = Asked(write)

(***************************************************************************)
(* When the request of a call, or of its repetition, is built the buffers  *)
(* it is built from have not been freed: not by the caller, who is free to *)
(* do so once it has the future, and not by a pipeline that has ended.     *)
(***************************************************************************)
NoDanglingRead == attempt # "none" => Reads \subseteq Live

(***************************************************************************)
(* The future of a write resolves, however many chunks it has and however  *)
(* they fail: the fallback is tried once, and a failed chunk is the last.  *)
(***************************************************************************)
WritesResolve == <>(outcome # "running")

=============================================================================

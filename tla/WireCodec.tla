----------------------------- MODULE WireCodec -----------------------------
(***************************************************************************)
(* The conversions between the caller's keys and values and the protobuf   *)
(* messages: the request builders and the response readers of utils.cxx    *)
(* and the chunk accumulators of the streams.                              *)
(*                                                                         *)
(* The conversions are operators.  Around them a small state machine sends *)
(* one item to a server and reads it back: the server (external) keeps the *)
(* payload as it came, may leave value_type out of its answer, and the     *)
(* payload may arrive in several pieces, a container in several messages.  *)
(* Times are in milliseconds, on one clock that client and server share.   *)
(***************************************************************************)
EXTENDS Integers, SequencesExt, Selection

CONSTANTS
    Bytes,              \* the bytes payloads are made of
    MaxSize,            \* bound: size of a payload
    Numbers,            \* int_value and double_value
    Thresholds,         \* defaultCompressionThreshold, of a client
    DefaultThreshold,   \* 1024, where the client's is not passed on
    GzipHeader,         \* what a compressed payload begins with
    Null,               \* a null pointer, or an optional field that is not set
    Wild,               \* what is found at an address that is no address
    GivenHint,          \* a KeyHint the caller passes
    Deltas,             \* operands of the atomic operations
    Unit,               \* fixed point: as a double, the operand d is d / Unit
    Ttls,               \* ttl
    DefaultTtls,        \* default_ttl_; 0 for a standalone client, which has none
    MaxStart,           \* bound: how late an item is sent
    MaxTime,            \* bound: how far the clock runs
    Elements,           \* bound: the values that are put into containers
    MapKeys,            \* bound: the keys of the maps that are sent
    MaxLength,          \* bound: elements of a list, entries of a map
    Kinds               \* bound: which of the items below are sent

ASSUME CodecAssumption ==
    /\ MaxSize \in Nat
    /\ Thresholds \subseteq Int /\ DefaultThreshold \in Int
    /\ GzipHeader \notin Bytes
    /\ Null \notin Bytes \cup Numbers \cup Int
    /\ Null \notin Seq(Bytes)
    /\ Null \notin [enabled : BOOLEAN, rawSize : Nat]
    /\ Deltas \subseteq Int /\ Unit \in Nat \ {0}
    /\ Ttls \subseteq Int /\ DefaultTtls \subseteq Nat
    /\ MaxStart \in Nat /\ MaxTime \in Nat
    /\ Kinds \subseteq {"value", "atomic", "key", "ordered", "map", "list", "ttl", "setTtl"}

ByteStrings == BoundedSeq(Bytes, MaxSize)

\* Value: a tagged union; Key: its bytes; OrderedValue: a value and a weight.
ByteValues   == [type : {"BYTES"}, data : ByteStrings]
NumberValues == [type : {"INT", "DOUBLE"}, data : Numbers]
Values       == ByteValues \cup NumberValues

ASSUME ValueAssumption == Null \notin Values

ASSUME ContainerAssumption ==
    /\ Elements \subseteq Values
    /\ MapKeys \subseteq ByteStrings
    /\ Null \notin [key : MapKeys, hint : {Null}] \cup [key : MapKeys, value : Elements]
    /\ MaxLength \in Nat

\* The elements of s that are no null pointers.
NonNull(s) == Among(s, ToSet(s) \ {Null})

-----------------------------------------------------------------------------
(* Compression (external) and its threshold.                                *)

Compress(data) == <<GzipHeader>> \o data

\* The expected length has to be exact.
Decompress(data, rawSize) ==
    IF data # <<>> /\ data[1] = GzipHeader /\ Len(data) - 1 = rawSize THEN Tail(data) ELSE Null

\* size > static_cast<uint64_t>(threshold): a negative threshold is a huge one.
AboveThreshold(data, threshold) == threshold >= 0 /\ Len(data) > threshold

-----------------------------------------------------------------------------
(* The request builders.                                                    *)

Plain(data)  == [payload |-> data, info |-> Null]

Packed(data) == [payload |-> Compress(data), info |-> [enabled |-> TRUE, rawSize |-> Len(data)]]

\* buildValueProto; a failed compression falls back to the plain payload.
BuildValue(v, threshold, compressed) ==
    LET body == IF v.type # "BYTES" THEN Plain(v.data)
                ELSE IF AboveThreshold(v.data, threshold) /\ compressed THEN Packed(v.data)
                ELSE Plain(v.data)
    IN  [type |-> v.type, case |-> v.type, payload |-> body.payload, info |-> body.info]

HashOf(key) == <<"hash", key>>

\* Mutant: a hint passed by the caller is replaced by the computed one.
EffectiveHintIgnored(key, hint) == IF key = <<>> THEN Null ELSE HashOf(key)

\* calculateKeyHint, unless the caller passes a hint; an empty key has none.
EffectiveHint(key, hint) ==
    IF hint # Null THEN hint ELSE IF key = <<>> THEN Null ELSE HashOf(key)

\* buildKeyProto.
BuildKey(key, hint, threshold) ==
    LET body == IF AboveThreshold(key, threshold) THEN Packed(key) ELSE Plain(key)
    IN  [payload |-> body.payload, size |-> Len(body.payload), info |-> body.info,
         hint |-> EffectiveHint(key, hint)]

\* An element of buildContainerRequestOrdered: val->data is read whatever val->type is,
\* and value_type is left out.
BuildOrderedValue(v, weight, threshold) ==
    LET bytes == IF v.type = "BYTES" THEN v.data ELSE <<Wild>>
        body  == IF AboveThreshold(bytes, threshold) THEN Packed(bytes) ELSE Plain(bytes)
    IN  [type |-> "AUTO", case |-> "BYTES", payload |-> body.payload, info |-> body.info,
         order |-> weight]

\* A key of addElementHashMap: as it is, without a hint.
BuildElementKey(key) == [payload |-> key, size |-> Len(key), info |-> Null, hint |-> Null]

\* A double that is passed as an int64_t loses its fraction.
TowardZero(d) == IF d >= 0 THEN d \div Unit ELSE -((-d) \div Unit)

\* Mutant: the double is rounded down.
BuildAtomicFloor(v) ==
    [type |-> "INT", case |-> "INT", info |-> Null,
     payload |-> IF v.type = "DOUBLE" THEN v.data \div Unit ELSE v.data]

\* atomicExchange and the other atomic operations: what they are passed becomes an INT,
\* the double of atomicAdd and atomicSub included.  The ttl they take is not sent.
BuildAtomic(v) ==
    [type |-> "INT", case |-> "INT", info |-> Null,
     payload |-> IF v.type = "DOUBLE" THEN TowardZero(v.data) ELSE v.data]

\* Mutant: a null element ends the list.
BuildContainerUpToNull(values, threshold) ==
    LET nulls == {i \in DOMAIN values : values[i] = Null}
        kept  == IF nulls = {} THEN values ELSE SubSeq(values, 1, Min(nulls) - 1)
    IN  [i \in DOMAIN kept |-> BuildValue(kept[i], threshold, TRUE)]

\* buildContainerRequest: null elements are left out.
BuildContainer(values, threshold) ==
    LET kept == NonNull(values)
    IN  [i \in DOMAIN kept |-> BuildValue(kept[i], threshold, TRUE)]

\* addElementHashMap: the keys beside the values; the client's threshold is not passed on.
BuildEntries(entries) ==
    [keys   |-> [i \in DOMAIN entries |-> BuildElementKey(entries[i].key)],
     values |-> [i \in DOMAIN entries |-> BuildValue(entries[i].value, DefaultThreshold, TRUE)]]

\* The smart client fills in its default ttl.
EffectiveTtl(ttl, default) == IF ttl > 0 THEN ttl ELSE default

\* What is created with a ttl expires at an absolute time.
Expiry(ttl, time) == IF ttl > 0 THEN time + ttl ELSE Null

\* setTtl sends one in any case.
NewExpiry(ttl, time) == time + ttl

-----------------------------------------------------------------------------
(* The response readers.  A received payload is a sequence of pieces.       *)

\* Mutant: only the first piece is copied.
AssembleFirst(pieces) == IF pieces = <<>> THEN <<>> ELSE pieces[1]

\* One piece is used in place, several are copied into a buffer.
Assemble(pieces) == IF Len(pieces) = 1 THEN pieces[1] ELSE FlattenSeq(pieces)

\* Mutant: the payload is taken as it is although it is compressed.
ReadBytesAsIs(m) == Assemble(m.payload)

ReadBytes(m) ==
    LET data == Assemble(m.payload)
    IN  IF m.info # Null /\ m.info.enabled THEN Decompress(data, m.info.rawSize) ELSE data

\* A value, or a null pointer if its bytes could not be read.
ReadAs(m, type) ==
    LET data == IF type = "BYTES" THEN ReadBytes(m) ELSE m.payload
    IN  IF data = Null THEN Null ELSE [type |-> type, data |-> data]

\* valueRequestToValue: AUTO is inferred from the case of the payload.
ReadValue(m) ==
    LET type == IF m.type = "AUTO" THEN m.case ELSE m.type
    IN  IF type = "NOT_SET" THEN Null ELSE ReadAs(m, type)

\* valueRequestToOrderedValue: AUTO is none of the cases.
ReadOrderedValue(m) ==
    IF m.type = "AUTO" \/ ReadAs(m, m.type) = Null THEN Null
    ELSE [value |-> ReadAs(m, m.type), weight |-> m.order]

\* keyRequestToKey: the size has to match; a hint that is not set reads as such.
ReadKey(m) ==
    LET data == IF m.info # Null THEN Decompress(m.payload, m.info.rawSize) ELSE m.payload
    IN  IF m.size # Len(m.payload) \/ data = Null THEN Null
        ELSE [key |-> data, hint |-> m.hint]

SmallerOf(m, n) == IF m < n THEN m ELSE n

\* Mutant: the readable keys are paired with the readable values.
PairUpCompacted(keys, values) ==
    LET ks == NonNull([i \in DOMAIN keys |-> ReadKey(keys[i])])
        vs == NonNull([i \in DOMAIN values |-> ReadValue(values[i])])
    IN  [i \in 1 .. SmallerOf(Len(ks), Len(vs)) |-> [key |-> ks[i].key, value |-> vs[i]]]

\* The accumulators of streamMap and streamOrderedMap, on one message: pairs with a null
\* half are dropped.
PairUp(keys, values) ==
    LET pair(k, v) == IF k = Null \/ v = Null THEN Null ELSE [key |-> k.key, value |-> v]
        read       == [i \in 1 .. SmallerOf(Len(keys), Len(values)) |->
                          pair(ReadKey(keys[i]), ReadValue(values[i]))]
    IN  NonNull(read)

\* The accumulator of streamList, on one message: unreadable elements leave a null.
ReadElements(chunk) == [i \in DOMAIN chunk |-> ReadValue(chunk[i])]

\* What a message holds is put behind what the messages before it held.
ReadList(chunks) == FlattenSeq([c \in DOMAIN chunks |-> ReadElements(chunks[c])])

ReadMap(chunks) == FlattenSeq([c \in DOMAIN chunks |-> PairUp(chunks[c].keys, chunks[c].values)])

\* Mutant: a ttl that passed under way is not told from one that runs.
ReadTtlUnclamped(expiry, time) == IF expiry # Null THEN expiry - time ELSE -1

\* getTtl: -1 stands for no ttl and for one that has passed.
ReadTtl(expiry, time) == IF expiry # Null /\ expiry - time > 0 THEN expiry - time ELSE -1

-----------------------------------------------------------------------------
(* One item is written, kept by a server and read back.                     *)

VARIABLES
    stage,      \* "idle", "sent", "answered" or "read"
    kind,       \* which of Kinds is under way
    written,    \* the item the caller passed
    message,    \* the protobuf message under way
    got,        \* what the reader made of it
    now         \* the time

vars == <<stage, kind, written, message, got, now>>

Init ==
    /\ stage = "idle"
    /\ kind = "none"
    /\ written = Null
    /\ message = Null
    /\ got = Null
    /\ now = 0

Send(k, item, m) ==
    /\ stage = "idle"
    /\ k \in Kinds
    /\ kind' = k /\ written' = item /\ message' = m
    /\ stage' = "sent"
    /\ UNCHANGED <<got, now>>

SendValue ==
    \E v \in Values, t \in Thresholds, compressed \in BOOLEAN :
        Send("value", v, BuildValue(v, t, compressed))

SendAtomic ==
    \E v \in [type : {"INT", "DOUBLE"}, data : Deltas] : Send("atomic", v, BuildAtomic(v))

SendKey ==
    \E k \in ByteStrings, h \in {Null, GivenHint}, t \in Thresholds :
        Send("key", [key |-> k, hint |-> h], BuildKey(k, h, t))

SendOrderedValue ==
    \E v \in Values, w \in Numbers, t \in Thresholds :
        Send("ordered", [value |-> v, weight |-> w], BuildOrderedValue(v, w, t))

\* A map of different keys.
SendMap ==
    \E entries \in BoundedSeq([key : MapKeys, value : Elements], MaxLength) :
        /\ \A i, j \in DOMAIN entries : entries[i].key = entries[j].key => i = j
        /\ Send("map", entries, BuildEntries(entries))

\* A list of elements, some of them null.
SendList ==
    \E values \in BoundedSeq({Null} \cup Elements, MaxLength), t \in Thresholds :
        Send("list", values, BuildContainer(values, t))

\* Creating something with a ttl.
SendTtl ==
    \E ttl \in Ttls, default \in DefaultTtls :
        LET asked == EffectiveTtl(ttl, default)
        IN  Send("ttl", [asked |-> asked, at |-> now], Expiry(asked, now))

\* setTtl, whose ttl is unsigned.
SendSetTtl ==
    \E ttl \in Ttls \cap Nat : Send("setTtl", [asked |-> ttl, at |-> now], NewExpiry(ttl, now))

\* Where n elements may be cut into k pieces, none of them empty: piece i ends at off[i].
Cuts(n, k) ==
    {off \in [0 .. k -> 0 .. n] : off[0] = 0 /\ off[k] = n /\ \A i \in 1 .. k : off[i - 1] < off[i]}

\* The pieces a payload may arrive in: none if it is empty, else any cut.
Pieces(data) ==
    IF data = <<>> THEN {<<>>}
    ELSE UNION {{[i \in 1 .. k |-> SubSeq(data, off[i - 1] + 1, off[i])] : off \in Cuts(Len(data), k)} :
                   k \in 1 .. Len(data)}

Received(m, type) ==
    IF m.case = "BYTES"
      THEN {[m EXCEPT !.payload = p, !.type = type] : p \in Pieces(m.payload)}
      ELSE {[m EXCEPT !.type = type]}

\* The server sends value_type as it got it, or leaves it out.
ValueAnswers(m) == UNION {Received(m, type) : type \in {m.type, "AUTO"}}

\* An element of a container may have lost its payload.
Emptied(m) == [m EXCEPT !.type = "AUTO", !.case = "NOT_SET"]

ElementAnswers(m) == ValueAnswers(m) \cup {Emptied(m)}

\* An answer for each of several elements.
AllAnswers(ms) ==
    {as \in [DOMAIN ms -> UNION {ElementAnswers(ms[i]) : i \in DOMAIN ms}] :
        \A i \in DOMAIN ms : as[i] \in ElementAnswers(ms[i])}

Answer(S) == stage = "sent" /\ stage' = "answered" /\ message' \in S /\ UNCHANGED <<kind, written, got, now>>

ServeValue == kind = "value" /\ Answer(ValueAnswers(message))

\* What was exchanged, or added to zero, is a number like any other.
ServeAtomic == kind = "atomic" /\ Answer(ValueAnswers(message))

ServeKey == kind = "key" /\ Answer({message})

\* The server sends the type it inferred from the payload, or leaves it out.
ServeOrderedValue ==
    /\ kind = "ordered"
    /\ Answer(UNION {Received(message, type) : type \in {message.case, "AUTO"}})

\* A map and a list come back in any number of messages.
ChunkOf(pairs) ==
    [keys |-> [i \in DOMAIN pairs |-> pairs[i][1]], values |-> [i \in DOMAIN pairs |-> pairs[i][2]]]

ServeMap ==
    /\ kind = "map" /\ stage = "sent"
    /\ \E values \in AllAnswers(message.values) :
          LET pairs == [i \in DOMAIN values |-> <<message.keys[i], values[i]>>]
          IN  Answer({[c \in DOMAIN pieces |-> ChunkOf(pieces[c])] : pieces \in Pieces(pairs)})

ServeList ==
    /\ kind = "list" /\ stage = "sent"
    /\ \E elements \in AllAnswers(message) : Answer(Pieces(elements))

\* The server answers the ttl it was sent, until that time has passed.
ServeTtl ==
    /\ kind \in {"ttl", "setTtl"}
    /\ Answer({IF message # Null /\ message > now THEN message ELSE Null})

\* Time passes before anything is sent, and while a ttl runs.
Tick ==
    /\ \/ stage = "idle" /\ now < MaxStart
       \/ kind \in {"ttl", "setTtl"} /\ stage # "read" /\ now < MaxTime
    /\ now' = now + 1
    /\ UNCHANGED <<stage, kind, written, message, got>>

Read(k, item) ==
    /\ stage = "answered"
    /\ kind = k
    /\ got' = item
    /\ stage' = "read"
    /\ UNCHANGED <<kind, written, message, now>>

Next ==
    \/ SendValue \/ SendAtomic \/ SendKey \/ SendOrderedValue
    \/ SendMap \/ SendList \/ SendTtl \/ SendSetTtl
    \/ ServeValue \/ ServeAtomic \/ ServeKey \/ ServeOrderedValue \/ ServeMap \/ ServeList \/ ServeTtl
    \/ Tick
    \/ Read("value", ReadValue(message))
    \/ Read("atomic", ReadValue(message))
    \/ Read("key", ReadKey(message))
    \/ Read("ordered", ReadOrderedValue(message))
    \/ Read("map", ReadMap(message))
    \/ Read("list", ReadList(message))
    \/ Read("ttl", ReadTtl(message, now))
    \/ Read("setTtl", ReadTtl(message, now))

Spec == Init /\ [][Next]_vars

-----------------------------------------------------------------------------
(* Properties.                                                              *)

Done(k) == stage = "read" /\ kind = k

(***************************************************************************)
(* A value that was created or updated is read back as it was written:     *)
(* whatever its type and size, whether or not it was compressed, in one    *)
(* piece or several, and whether or not the server names its type.         *)
(***************************************************************************)
ValueRoundTrip == Done("value") => got = written

(***************************************************************************)
(* An atomic operation sends an integer as it is, and of a double what is  *)
(* left without its fraction: adding a half adds nothing, subtracting one  *)
(* and a half subtracts one.                                               *)
(***************************************************************************)
AtomicOperandAsSent ==
    Done("atomic") =>
        LET d == written.data
        IN  /\ got.type = "INT"
            /\ written.type = "INT" => got.data = d
            /\ written.type = "DOUBLE" =>
                  IF d >= 0 THEN d - got.data * Unit \in 0 .. Unit - 1
                            ELSE got.data * Unit - d \in 0 .. Unit - 1

(***************************************************************************)
(* A key is read back as it was written, with the caller's hint or, unless *)
(* it is empty, the one computed from its uncompressed bytes -- requests   *)
(* that spell a key differently agree on the shard and the bucket.         *)
(***************************************************************************)
KeyRoundTrip ==
    Done("key") =>
        got = [key  |-> written.key,
               hint |-> IF written.hint # Null THEN written.hint
                        ELSE IF written.key = <<>> THEN Null ELSE HashOf(written.key)]

(***************************************************************************)
(* A map that is streamed back, in however many messages, has the pairs    *)
(* that were written, once each, but for those whose value cannot be read: *)
(* such a value drops its own key, not another's.  (In the order of the    *)
(* stream, as streamOrderedMap has them.)                                  *)
(***************************************************************************)
PairsStayTogether ==
    Done("map") =>
        LET sent == FlattenSeq([c \in DOMAIN message |-> message[c].values])
        IN  /\ Len(sent) = Len(written)
            /\ got = NonNull([i \in DOMAIN written |->
                                 IF sent[i].case = "NOT_SET" THEN Null ELSE written[i]])

(***************************************************************************)
(* A list that is streamed back, in however many messages, has the         *)
(* elements that were written, but for null ones, in their order; one that *)
(* cannot be read is a null in its own place.                              *)
(***************************************************************************)
ListRoundTrip ==
    Done("list") =>
        LET kept == NonNull(written)
            sent == FlattenSeq(message)
        IN  /\ Len(sent) = Len(kept)
            /\ got = [i \in DOMAIN kept |-> IF sent[i].case = "NOT_SET" THEN Null ELSE kept[i]]

(***************************************************************************)
(* An ordered value of bytes is read back as it was written if the server  *)
(* names its type, whatever its size and however it is cut, and as a null  *)
(* pointer if not: no answer yields a compressed or truncated one, or a    *)
(* wrong weight.                                                           *)
(***************************************************************************)
OrderedNeverGarbled ==
    Done("ordered") /\ written.value.type = "BYTES" =>
        got = IF message.type = "AUTO" THEN Null ELSE written

(***************************************************************************)
(* The writers of a ttl and its reader agree: getTtl yields what is left   *)
(* of the ttl that was passed to a create or to setTtl, at whatever time   *)
(* it is asked, and -1 once it has passed, also if it passes while the     *)
(* answer is under way.  The atomic operations send no ttl.  The property  *)
(* takes the server to answer the time it was sent, as the tests do that   *)
(* expect a positive getTtl after setTtl (test_kv_ops.cxx); cache.proto    *)
(* calls the two fields durations.                                         *)
(***************************************************************************)
ExpiryAsAsked ==
    Done("ttl") \/ Done("setTtl") =>
        LET left == written.asked - (now - written.at)
        IN  got = IF left > 0 THEN left ELSE -1

=============================================================================

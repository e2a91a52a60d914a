-------------------------- MODULE WireCodecProofs --------------------------
(***************************************************************************)
(* What is written is what is read (but for the fraction of an atomic      *)
(* operation's double): proofs for payloads of any size, cut into any      *)
(* pieces, for every compression threshold and every ttl.  The invariant   *)
(* describes, for each kind of item, what the message under way may be at  *)
(* each stage, in terms of the item that was written.                      *)
(***************************************************************************)
EXTENDS WireCodec, SequenceLemmas

-----------------------------------------------------------------------------
(* Payloads.                                                                *)

\* A payload of bytes is sent as it is or compressed; a number as it is.
Bodies(v) == IF v.type = "BYTES" THEN {Plain(v.data), Packed(v.data)} ELSE {Plain(v.data)}

LEMMA ByteStringsAreSequences == \A s \in ByteStrings : s \in Seq(Bytes)
BY CodecAssumption DEF ByteStrings, BoundedSeq, SeqOf

LEMMA CompressTypes ==
    ASSUME NEW data \in Seq(Bytes)
    PROVE  /\ Compress(data) \in Seq(Bytes \cup {GzipHeader})
           /\ Len(Compress(data)) = Len(data) + 1
           /\ Compress(data)[1] = GzipHeader
           /\ Tail(Compress(data)) = data
<1>1. <<GzipHeader>> \in Seq(Bytes \cup {GzipHeader}) /\ data \in Seq(Bytes \cup {GzipHeader})
  OBVIOUS
<1>2. Compress(data) \in Seq(Bytes \cup {GzipHeader}) /\ Len(Compress(data)) = Len(data) + 1
  BY <1>1 DEF Compress
<1>3. \A i \in 1 .. Len(data) + 1 : Compress(data)[i] = IF i = 1 THEN GzipHeader ELSE data[i - 1]
  BY <1>1 DEF Compress
<1>4. Tail(Compress(data)) = data
  BY <1>1, <1>2, <1>3
<1> QED
  BY <1>2, <1>3, <1>4

\* What was compressed is decompressed to what it was.
LEMMA DecompressCompress ==
    ASSUME NEW data \in Seq(Bytes)
    PROVE  Decompress(Compress(data), Len(data)) = data
<1>1. Compress(data) # <<>>
  BY CompressTypes
<1> QED
  BY <1>1, CompressTypes DEF Decompress

\* However a sequence is cut, its pieces are put together to what it was.
LEMMA PiecesFlatten ==
    ASSUME NEW S, NEW data \in Seq(S), NEW pieces \in Pieces(data)
    PROVE  /\ pieces \in Seq(Seq(S)) /\ FlattenSeq(pieces) = data
           /\ Len(pieces) = 1 => pieces[1] = data
<1>1. CASE data = <<>>
  <2>1. pieces = <<>>
    BY <1>1 DEF Pieces
  <2>2. Len(pieces) # 1 /\ pieces \in Seq(Seq(S))
    BY <2>1
  <2>3. FlattenSeq(pieces) = <<>>
    BY <2>1, FlattenEmpty, Zenon
  <2> QED
    BY <1>1, <2>2, <2>3
<1>2. CASE data # <<>>
  <2>1. PICK k \in 1 .. Len(data) : \E off \in Cuts(Len(data), k) :
               pieces = [i \in 1 .. k |-> SubSeq(data, off[i - 1] + 1, off[i])]
    BY <1>2 DEF Pieces
  <2>2. PICK off \in Cuts(Len(data), k) :
               pieces = [i \in 1 .. k |-> SubSeq(data, off[i - 1] + 1, off[i])]
    BY <2>1
  <2>3. /\ off \in [0 .. k -> 0 .. Len(data)] /\ off[0] = 0 /\ off[k] = Len(data)
        /\ \A i \in 1 .. k : off[i - 1] < off[i]
    BY <2>2 DEF Cuts
  <2>4. k \in Nat \ {0} /\ \A i \in 1 .. k : off[i - 1] <= off[i]
    <3>1. \A i \in 1 .. k : i \in 0 .. k /\ i - 1 \in 0 .. k
      OBVIOUS
    <3> QED
      BY <2>3, <3>1
  <2>5. FlattenSeq(pieces) = data
    BY <2>2, <2>3, <2>4, FlattenOfCut
  <2>6. Len(pieces) = k /\ pieces \in Seq(Seq(S))
    <3>1. ASSUME NEW i \in 1 .. k PROVE SubSeq(data, off[i - 1] + 1, off[i]) \in Seq(S)
      <4>1. i - 1 \in 0 .. k /\ off[i - 1] \in 0 .. Len(data) /\ off[i] \in 0 .. Len(data)
        BY <2>3
      <4>2. \A m \in 1 .. Len(data) + 1, n \in 0 .. Len(data) : SubSeq(data, m, n) \in Seq(S)
        OBVIOUS
      <4> QED
        BY <4>1, <4>2
    <3> QED
      BY <2>2, <2>4, <3>1
  <2>7. ASSUME k = 1 PROVE pieces[1] = data
    <3>1. \A i \in 1 .. k : pieces[i] = SubSeq(data, off[i - 1] + 1, off[i])
      BY <2>2
    <3>2. pieces[1] = SubSeq(data, off[1 - 1] + 1, off[1])
      BY <2>7, <3>1
    <3>3. off[1 - 1] + 1 = 1 /\ off[1] = Len(data)
      BY <2>3, <2>7
    <3>4. pieces[1] = SubSeq(data, 1, Len(data))
      BY <3>2, <3>3, Zenon
    <3> QED
      BY <3>4
  <2> QED
    BY <2>5, <2>6, <2>7
<1> QED
  BY <1>1, <1>2

LEMMA AssemblePieces ==
    ASSUME NEW S, NEW data \in Seq(S), NEW pieces \in Pieces(data)
    PROVE  Assemble(pieces) = data
BY PiecesFlatten DEF Assemble

\* Bytes are read back as they were written, compressed or not.
LEMMA ReadBytesBack ==
    ASSUME NEW data \in Seq(Bytes), NEW body \in {Plain(data), Packed(data)},
           NEW m, m.info = body.info, m.payload \in Pieces(body.payload)
    PROVE  ReadBytes(m) = data
<1>1. CASE body = Plain(data)
  <2>1. body.payload = data /\ body.info = Null
    BY <1>1 DEF Plain
  <2>2. Assemble(m.payload) = data
    BY <2>1, AssemblePieces
  <2> QED
    BY <2>1, <2>2 DEF ReadBytes
<1>2. CASE body = Packed(data)
  <2>1. body.payload = Compress(data) /\ body.info = [enabled |-> TRUE, rawSize |-> Len(data)]
    BY <1>2 DEF Packed
  <2>2. Assemble(m.payload) = Compress(data)
    BY <2>1, CompressTypes, AssemblePieces
  <2>3. body.info # Null
    <3>1. body.info \in [enabled : BOOLEAN, rawSize : Nat]
      BY <2>1
    <3> QED
      BY <3>1, CodecAssumption
  <2>4. ReadBytes(m) = Decompress(Compress(data), Len(data))
    BY <2>1, <2>2, <2>3 DEF ReadBytes
  <2> QED
    BY <2>4, DecompressCompress
<1> QED
  BY <1>1, <1>2

-----------------------------------------------------------------------------
(* The message under way at each stage.                                     *)

\* buildValueProto.
Messages(v) ==
    {[type |-> v.type, case |-> v.type, payload |-> body.payload, info |-> body.info] : body \in Bodies(v)}

ValueInv ==
    kind = "value" =>
        /\ stage \in {"sent", "answered", "read"}
        /\ written \in Values
        /\ stage = "sent" => message \in Messages(written)
        /\ stage = "answered" =>
              \E m \in Messages(written) : \E type \in {m.type, "AUTO"} : message \in Received(m, type)
        /\ ValueRoundTrip

\* What of an operand is sent: an integer as it is, a double without its fraction.
SentAs(operand, n) ==
    /\ operand.type = "INT" => n = operand.data
    /\ operand.type = "DOUBLE" =>
          IF operand.data >= 0 THEN operand.data - n * Unit \in 0 .. Unit - 1
                               ELSE n * Unit - operand.data \in 0 .. Unit - 1

\* The message of an atomic operation: an INT at every stage.
AtomicInv ==
    kind = "atomic" =>
        /\ stage \in {"sent", "answered", "read"}
        /\ stage = "sent" => message.type = "INT"
        /\ stage \in {"sent", "answered"} =>
              /\ message.type \in {"INT", "AUTO"} /\ message.case = "INT"
              /\ message.payload \in Int
              /\ SentAs(written, message.payload)
        /\ stage = "read" => got.type = "INT" /\ SentAs(written, got.data)

KeyMessages(k) ==
    {[payload |-> body.payload, size |-> Len(body.payload), info |-> body.info,
      hint |-> EffectiveHint(k.key, k.hint)] : body \in {Plain(k.key), Packed(k.key)}}

KeyInv ==
    kind = "key" =>
        /\ written \in [key : ByteStrings, hint : {Null, GivenHint}]
        /\ message \in KeyMessages(written)
        /\ KeyRoundTrip

\* An ordered value of bytes; of any other the theorem says nothing.
OrderedMessages(o) ==
    {[type |-> "AUTO", case |-> "BYTES", payload |-> body.payload, info |-> body.info, order |-> o.weight] :
        body \in Bodies(o.value)}

OrderedInv ==
    kind = "ordered" /\ written.value.type = "BYTES" =>
        /\ stage \in {"sent", "answered", "read"}
        /\ written \in [value : ByteValues, weight : Numbers]
        /\ stage = "sent" => message \in OrderedMessages(written)
        /\ stage = "answered" =>
              \E m \in OrderedMessages(written) : \E type \in {"BYTES", "AUTO"} : message \in Received(m, type)
        /\ OrderedNeverGarbled

ClockInv == now \in Nat

\* What was asked for and when; a message without a time is one whose ttl is over.
TtlInv ==
    kind \in {"ttl", "setTtl"} =>
        /\ stage \in {"sent", "answered", "read"}
        /\ written \in [asked : Int, at : Nat]
        /\ written.at <= now
        /\ stage = "sent" =>
              \/ message = written.at + written.asked
              \/ message = Null /\ written.asked <= 0
        /\ stage = "answered" =>
              \/ message = written.at + written.asked
              \/ message = Null /\ written.at + written.asked <= now
        /\ stage = "read" =>
              LET left == written.asked - (now - written.at)
              IN  got = IF left > 0 THEN left ELSE -1

\* ms are the messages for the values vs.
AreMessages(ms, vs) ==
    /\ ms \in Seq(ToSet(ms)) /\ Len(ms) = Len(vs)
    /\ \A i \in 1 .. Len(vs) : ms[i] \in Messages(vs[i])

\* as are what a server may answer for them.
AreAnswers(as, vs) ==
    /\ as \in Seq(ToSet(as)) /\ Len(as) = Len(vs)
    /\ \A i \in 1 .. Len(vs) : \E m \in Messages(vs[i]) : as[i] \in ElementAnswers(m)

\* A list, without its null elements, in whatever messages it comes back.
ListInv ==
    kind = "list" =>
        /\ stage \in {"sent", "answered", "read"}
        /\ written \in Seq({Null} \cup Elements)
        /\ stage = "sent" => AreMessages(message, NonNull(written))
        /\ stage = "answered" =>
              /\ message \in Pieces(FlattenSeq(message))
              /\ AreAnswers(FlattenSeq(message), NonNull(written))
        /\ ListRoundTrip

Entries == [key : MapKeys, value : Elements]

ValuesIn(entries) == [i \in DOMAIN entries |-> entries[i].value]

\* keys are the messages for the keys of entries.
AreKeys(keys, entries) == keys = [i \in DOMAIN entries |-> BuildElementKey(entries[i].key)]

\* pairs are what a server may answer for entries: each key with an answer for its value.
AreEntries(pairs, entries) ==
    /\ pairs \in Seq(ToSet(pairs)) /\ Len(pairs) = Len(entries)
    /\ \A i \in 1 .. Len(entries) :
          /\ pairs[i] = <<BuildElementKey(entries[i].key), pairs[i][2]>>
          /\ \E m \in Messages(entries[i].value) : pairs[i][2] \in ElementAnswers(m)

\* The pairs a message holds, and those of each of several.
PairsIn(chunk) == [i \in DOMAIN chunk.keys |-> <<chunk.keys[i], chunk.values[i]>>]

PiecesOf(chunks) == [c \in DOMAIN chunks |-> PairsIn(chunks[c])]

ChunksOf(pieces) == [c \in DOMAIN pieces |-> ChunkOf(pieces[c])]

\* A map: its keys beside its values, in whatever messages it comes back.
MapInv ==
    kind = "map" =>
        /\ stage \in {"sent", "answered", "read"}
        /\ written \in Seq(Entries)
        /\ stage = "sent" =>
              /\ AreKeys(message.keys, written)
              /\ AreMessages(message.values, ValuesIn(written))
        /\ stage = "answered" =>
              LET pieces == PiecesOf(message)
              IN  /\ pieces \in Pieces(FlattenSeq(pieces))
                  /\ message = ChunksOf(pieces)
                  /\ AreEntries(FlattenSeq(pieces), written)
        /\ PairsStayTogether

IInv ==
    ValueInv /\ AtomicInv /\ KeyInv /\ OrderedInv /\ ListInv /\ MapInv /\ ClockInv /\ TtlInv

-----------------------------------------------------------------------------
(* Which steps are about an item of which kind.                             *)

Untouched == UNCHANGED <<stage, kind, written, message, got>>

LEMMA StepsByKind ==
    ASSUME [Next]_vars
    PROVE  /\ kind' = "value" =>
                 SendValue \/ ServeValue \/ Read("value", ReadValue(message)) \/ Untouched
           /\ kind' = "atomic" =>
                 SendAtomic \/ ServeAtomic \/ Read("atomic", ReadValue(message)) \/ Untouched
           /\ kind' = "key" => SendKey \/ ServeKey \/ Read("key", ReadKey(message)) \/ Untouched
           /\ kind' = "ordered" =>
                 \/ SendOrderedValue \/ ServeOrderedValue
                 \/ Read("ordered", ReadOrderedValue(message)) \/ Untouched
           /\ kind' = "list" => SendList \/ ServeList \/ Read("list", ReadList(message)) \/ Untouched
           /\ kind' = "map" => SendMap \/ ServeMap \/ Read("map", ReadMap(message)) \/ Untouched
           /\ kind' \in {"ttl", "setTtl"} =>
                 \/ SendTtl \/ SendSetTtl \/ ServeTtl
                 \/ Read("ttl", ReadTtl(message, now)) \/ Read("setTtl", ReadTtl(message, now))
                 \/ Tick \/ UNCHANGED vars
<1>1. (SendValue => kind' = "value") /\ (SendAtomic => kind' = "atomic")
  BY DEF SendValue, SendAtomic, Send
<1>2. SendKey => kind' = "key"
  BY DEF SendKey, Send
<1>3. SendOrderedValue => kind' = "ordered"
  BY DEF SendOrderedValue, Send
<1>4. SendMap => kind' = "map"
  BY DEF SendMap, Send
<1>5. SendList => kind' = "list"
  BY DEF SendList, Send
<1>6. SendTtl \/ SendSetTtl => kind' \in {"ttl", "setTtl"}
  BY DEF SendTtl, SendSetTtl, Send
<1>7. /\ ServeValue => kind' = "value"
      /\ ServeAtomic => kind' = "atomic"
      /\ ServeKey => kind' = "key"
      /\ ServeOrderedValue => kind' = "ordered"
      /\ ServeTtl => kind' \in {"ttl", "setTtl"}
  BY DEF ServeValue, ServeAtomic, ServeKey, ServeOrderedValue, ServeTtl, Answer
<1>8. ServeMap => kind' = "map"
  BY DEF ServeMap, Answer
<1>9. ServeList => kind' = "list"
  BY DEF ServeList, Answer
<1>10. ASSUME NEW k, NEW item, Read(k, item) PROVE kind' = k
  BY <1>10 DEF Read
<1>11. Tick \/ UNCHANGED vars => Untouched
  BY DEF Tick, vars, Untouched
<1> QED
  BY <1>1, <1>2, <1>3, <1>4, <1>5, <1>6, <1>7, <1>8, <1>9, <1>10, <1>11 DEF Next

-----------------------------------------------------------------------------
(* Values.                                                                  *)

LEMMA BuildsMessages ==
    ASSUME NEW v \in Values, NEW t, NEW compressed
    PROVE  BuildValue(v, t, compressed) \in Messages(v)
<1> DEFINE body == IF v.type # "BYTES" THEN Plain(v.data)
                   ELSE IF AboveThreshold(v.data, t) /\ compressed THEN Packed(v.data)
                   ELSE Plain(v.data)
<1>1. body \in Bodies(v)
  BY DEF Bodies
<1>2. BuildValue(v, t, compressed) =
         [type |-> v.type, case |-> v.type, payload |-> body.payload, info |-> body.info]
  BY DEF BuildValue
<1> QED
  BY <1>1, <1>2 DEF Messages

\* Whatever a server answers to a message for a value is read as that value.
LEMMA ReadsValue ==
    ASSUME NEW v \in Values, NEW m \in Messages(v), NEW type \in {m.type, "AUTO"},
           NEW answer \in Received(m, type)
    PROVE  ReadValue(answer) = v
<1>1. PICK body \in Bodies(v) :
         m = [type |-> v.type, case |-> v.type, payload |-> body.payload, info |-> body.info]
  BY DEF Messages
<1>2. v.type \in {"BYTES", "INT", "DOUBLE"} /\ v = [type |-> v.type, data |-> v.data]
  BY DEF Values, ByteValues, NumberValues
<1>3. answer.type \in {v.type, "AUTO"} /\ answer.case = v.type /\ answer.info = body.info
  BY <1>1 DEF Received
<1>4. ReadValue(answer) = ReadAs(answer, v.type)
  BY <1>2, <1>3 DEF ReadValue
<1>5. CASE v.type = "BYTES"
  <2>1. v.data \in Seq(Bytes)
    BY <1>5, ByteStringsAreSequences DEF Values, ByteValues, NumberValues
  <2>2. answer.payload \in Pieces(body.payload)
    BY <1>1, <1>5 DEF Received
  <2>3. body \in {Plain(v.data), Packed(v.data)}
    BY <1>5 DEF Bodies
  <2>4. ReadBytes(answer) = v.data
    BY <1>3, <2>1, <2>2, <2>3, ReadBytesBack
  <2>5. v.data # Null
    BY <2>1, CodecAssumption
  <2> QED
    BY <1>2, <1>4, <1>5, <2>4, <2>5 DEF ReadAs
<1>6. CASE v.type # "BYTES"
  <2>1. v.data \in Numbers
    BY <1>6 DEF Values, ByteValues, NumberValues
  <2>2. answer.payload = v.data
    BY <1>1, <1>6 DEF Received, Bodies, Plain
  <2>3. v.data # Null
    BY <2>1, CodecAssumption
  <2> QED
    BY <1>2, <1>4, <1>6, <2>2, <2>3 DEF ReadAs
<1> QED
  BY <1>5, <1>6

LEMMA ValueStep == ValueInv /\ [Next]_vars => ValueInv'
<1> SUFFICES ASSUME ValueInv, [Next]_vars, kind' = "value" PROVE ValueInv'
  BY DEF ValueInv
<1>1. CASE SendValue
  <2>1. PICK v \in Values, t \in Thresholds, compressed \in BOOLEAN :
           Send("value", v, BuildValue(v, t, compressed))
    BY <1>1 DEF SendValue
  <2> QED
    BY <2>1, BuildsMessages DEF ValueInv, ValueRoundTrip, Done, Send
<1>2. CASE ServeValue
  <2>1. /\ kind = "value" /\ stage = "sent" /\ stage' = "answered" /\ written' = written
        /\ \E type \in {message.type, "AUTO"} : message' \in Received(message, type)
    BY <1>2 DEF ServeValue, Answer, ValueAnswers
  <2>2. written' \in Values /\ message \in Messages(written')
    BY <2>1 DEF ValueInv
  <2>3. ValueRoundTrip'
    BY <2>1 DEF ValueRoundTrip, Done
  <2> QED
    BY <2>1, <2>2, <2>3 DEF ValueInv
<1>3. CASE Read("value", ReadValue(message))
  <2>1. /\ kind = "value" /\ stage = "answered" /\ stage' = "read" /\ written' = written
        /\ got' = ReadValue(message)
    BY <1>3 DEF Read
  <2>2. written \in Values /\
        \E m \in Messages(written) : \E type \in {m.type, "AUTO"} : message \in Received(m, type)
    BY <2>1 DEF ValueInv
  <2>3. got' = written
    BY <2>1, <2>2, ReadsValue
  <2> QED
    BY <2>1, <2>2, <2>3 DEF ValueInv, ValueRoundTrip
<1>4. CASE Untouched
  BY <1>4 DEF ValueInv, ValueRoundTrip, Done, Untouched
<1> QED
  BY <1>1, <1>2, <1>3, <1>4, StepsByKind

-----------------------------------------------------------------------------
(* Operands of the atomic operations.                                       *)

\* What a truncated double stands for is nearer to zero by less than one.
LEMMA Truncates ==
    ASSUME NEW d \in Int
    PROVE  /\ TowardZero(d) \in Int
           /\ d >= 0 => d - TowardZero(d) * Unit \in 0 .. Unit - 1
           /\ d < 0 => TowardZero(d) * Unit - d \in 0 .. Unit - 1
<1>1. Unit \in Nat \ {0}
  BY CodecAssumption
<1>2. \A n \in Nat : /\ n \div Unit \in Nat
                     /\ n - (n \div Unit) * Unit \in 0 .. Unit - 1
  BY ONLY <1>1
<1>3. CASE d >= 0
  <2>1. d \in Nat /\ TowardZero(d) = d \div Unit
    BY <1>3 DEF TowardZero
  <2> QED
    BY <1>2, <1>3, <2>1
<1>4. CASE ~(d >= 0)
  <2>1. -d \in Nat /\ TowardZero(d) = -((-d) \div Unit)
    BY <1>4 DEF TowardZero
  <2> DEFINE q == (-d) \div Unit
  <2>2. q \in Nat /\ (-d) - q * Unit \in 0 .. Unit - 1
    BY <1>2, <2>1
  <2> HIDE DEF q
  <2>3. -q \in Int /\ (-q) * Unit = -(q * Unit)
    BY ONLY <1>1, <2>2
  <2>4. q * Unit \in Int
    BY ONLY <1>1, <2>2
  <2>5. (-q) * Unit - d \in 0 .. Unit - 1
    BY <2>2, <2>3, <2>4
  <2> QED
    BY <1>4, <2>1, <2>3, <2>5 DEF q
<1> QED
  BY <1>3, <1>4

LEMMA BuildsAtomicMessages ==
    ASSUME NEW v \in [type : {"INT", "DOUBLE"}, data : Deltas]
    PROVE  LET m == BuildAtomic(v)
           IN  m.type = "INT" /\ m.case = "INT" /\ m.payload \in Int /\ SentAs(v, m.payload)
<1>1. v.data \in Int /\ v.type \in {"INT", "DOUBLE"}
  BY CodecAssumption
<1>2. CASE v.type = "INT"
  BY <1>1, <1>2 DEF BuildAtomic, SentAs
<1>3. CASE v.type = "DOUBLE"
  BY <1>1, <1>3, Truncates DEF BuildAtomic, SentAs
<1> QED
  BY <1>1, <1>2, <1>3

LEMMA AtomicStep == AtomicInv /\ [Next]_vars => AtomicInv'
<1> SUFFICES ASSUME AtomicInv, [Next]_vars, kind' = "atomic" PROVE AtomicInv'
  BY DEF AtomicInv
<1>1. CASE SendAtomic
  <2>1. PICK v \in [type : {"INT", "DOUBLE"}, data : Deltas] : Send("atomic", v, BuildAtomic(v))
    BY <1>1 DEF SendAtomic
  <2>2. stage' = "sent" /\ written' = v /\ message' = BuildAtomic(v)
    BY <2>1 DEF Send
  <2> QED
    BY <2>2, BuildsAtomicMessages DEF AtomicInv
<1>2. CASE ServeAtomic
  <2>1. /\ kind = "atomic" /\ stage = "sent" /\ stage' = "answered" /\ written' = written
        /\ \E type \in {message.type, "AUTO"} : message' \in Received(message, type)
    BY <1>2 DEF ServeAtomic, Answer, ValueAnswers
  <2>2. /\ message.type = "INT" /\ message.case = "INT" /\ message.payload \in Int
        /\ SentAs(written, message.payload)
    BY <2>1 DEF AtomicInv
  <2>3. PICK type \in {"INT", "AUTO"} : message' = [message EXCEPT !.type = type]
    BY <2>1, <2>2 DEF Received
  <2>4. message'.type \in {"INT", "AUTO"} /\ message'.case = "INT" /\ message'.payload = message.payload
    BY <2>2, <2>3
  <2> QED
    BY <2>1, <2>2, <2>4 DEF AtomicInv
<1>3. CASE Read("atomic", ReadValue(message))
  <2>1. /\ kind = "atomic" /\ stage = "answered" /\ stage' = "read" /\ written' = written
        /\ got' = ReadValue(message)
    BY <1>3 DEF Read
  <2>2. /\ message.type \in {"INT", "AUTO"} /\ message.case = "INT" /\ message.payload \in Int
        /\ SentAs(written, message.payload)
    BY <2>1 DEF AtomicInv
  <2>3. message.payload # Null
    BY <2>2, CodecAssumption
  <2>4. got' = [type |-> "INT", data |-> message.payload]
    BY <2>1, <2>2, <2>3 DEF ReadValue, ReadAs
  <2> QED
    BY <2>1, <2>2, <2>4 DEF AtomicInv
<1>4. CASE Untouched
  BY <1>4 DEF AtomicInv, Untouched
<1> QED
  BY <1>1, <1>2, <1>3, <1>4, StepsByKind

-----------------------------------------------------------------------------
(* Keys.                                                                    *)

LEMMA BuildsKeyMessages ==
    ASSUME NEW k, NEW h, NEW t
    PROVE  BuildKey(k, h, t) \in KeyMessages([key |-> k, hint |-> h])
BY DEF BuildKey, KeyMessages

LEMMA ReadsKey ==
    ASSUME NEW k \in ByteStrings, NEW h, NEW m \in KeyMessages([key |-> k, hint |-> h])
    PROVE  ReadKey(m) = [key |-> k, hint |-> EffectiveHint(k, h)]
<1>1. PICK body \in {Plain(k), Packed(k)} :
         m = [payload |-> body.payload, size |-> Len(body.payload), info |-> body.info,
              hint |-> EffectiveHint(k, h)]
  BY DEF KeyMessages
<1>2. k \in Seq(Bytes) /\ k # Null
  BY ByteStringsAreSequences, CodecAssumption
<1>3. CASE body = Plain(k)
  BY <1>1, <1>2, <1>3 DEF Plain, ReadKey
<1>4. CASE body = Packed(k)
  <2>1. body.payload = Compress(k) /\ body.info = [enabled |-> TRUE, rawSize |-> Len(k)]
    BY <1>4 DEF Packed
  <2>2. body.info # Null
    <3>1. body.info \in [enabled : BOOLEAN, rawSize : Nat]
      BY <1>2, <2>1
    <3> QED
      BY <3>1, CodecAssumption
  <2>3. Decompress(m.payload, m.info.rawSize) = k
    BY <1>1, <1>2, <2>1, DecompressCompress
  <2> QED
    BY <1>1, <1>2, <2>1, <2>2, <2>3 DEF ReadKey
<1> QED
  BY <1>1, <1>3, <1>4

LEMMA KeyStep == KeyInv /\ [Next]_vars => KeyInv'
<1> SUFFICES ASSUME KeyInv, [Next]_vars, kind' = "key" PROVE KeyInv'
  BY DEF KeyInv
<1>1. CASE SendKey
  <2>1. PICK k \in ByteStrings, h \in {Null, GivenHint}, t \in Thresholds :
           Send("key", [key |-> k, hint |-> h], BuildKey(k, h, t))
    BY <1>1 DEF SendKey
  <2> QED
    BY <2>1, BuildsKeyMessages DEF KeyInv, KeyRoundTrip, Done, Send
<1>2. CASE ServeKey
  BY <1>2 DEF ServeKey, Answer, KeyInv, KeyRoundTrip, Done
<1>3. CASE Read("key", ReadKey(message))
  <2>1. /\ kind = "key" /\ written' = written /\ message' = message /\ got' = ReadKey(message)
    BY <1>3 DEF Read
  <2>2. written \in [key : ByteStrings, hint : {Null, GivenHint}] /\ message \in KeyMessages(written)
    BY <2>1 DEF KeyInv
  <2>3. written = [key |-> written.key, hint |-> written.hint] /\ written.key \in ByteStrings
    BY <2>2
  <2>4. ReadKey(message) = [key |-> written.key, hint |-> EffectiveHint(written.key, written.hint)]
    BY <2>2, <2>3, ReadsKey
  <2>5. KeyRoundTrip'
    BY <2>1, <2>4 DEF KeyRoundTrip, EffectiveHint
  <2> QED
    BY <2>1, <2>2, <2>5 DEF KeyInv
<1>4. CASE Untouched
  BY <1>4 DEF KeyInv, KeyRoundTrip, Done, Untouched
<1> QED
  BY <1>1, <1>2, <1>3, <1>4, StepsByKind

-----------------------------------------------------------------------------
(* Ordered values.                                                          *)

LEMMA BuildsOrderedMessages ==
    ASSUME NEW v \in Values, v.type = "BYTES", NEW w, NEW t
    PROVE  BuildOrderedValue(v, w, t) \in OrderedMessages([value |-> v, weight |-> w])
<1> DEFINE body == IF AboveThreshold(v.data, t) THEN Packed(v.data) ELSE Plain(v.data)
<1>1. body \in Bodies(v)
  BY DEF Bodies
<1>2. BuildOrderedValue(v, w, t) =
         [type |-> "AUTO", case |-> "BYTES", payload |-> body.payload, info |-> body.info, order |-> w]
  BY DEF BuildOrderedValue
<1> QED
  BY <1>1, <1>2 DEF OrderedMessages

LEMMA ReadsOrderedValue ==
    ASSUME NEW o \in [value : ByteValues, weight : Numbers], NEW m \in OrderedMessages(o),
           NEW type \in {"BYTES", "AUTO"}, NEW answer \in Received(m, type)
    PROVE  ReadOrderedValue(answer) = IF answer.type = "AUTO" THEN Null ELSE o
<1>1. PICK body \in Bodies(o.value) :
         m = [type |-> "AUTO", case |-> "BYTES", payload |-> body.payload, info |-> body.info,
              order |-> o.weight]
  BY DEF OrderedMessages
<1>2. /\ o = [value |-> o.value, weight |-> o.weight]
      /\ o.value = [type |-> "BYTES", data |-> o.value.data]
      /\ o.value.data \in ByteStrings /\ o.value \in Values
  BY DEF ByteValues, Values
<1>3. /\ answer.type = type /\ answer.info = body.info /\ answer.order = o.weight
      /\ answer.payload \in Pieces(body.payload)
  BY <1>1 DEF Received
<1>4. body \in {Plain(o.value.data), Packed(o.value.data)}
  BY <1>2 DEF Bodies
<1>5. o.value.data \in Seq(Bytes) /\ o.value.data # Null
  BY <1>2, ByteStringsAreSequences, CodecAssumption
<1>6. ReadBytes(answer) = o.value.data
  BY <1>3, <1>4, <1>5, ReadBytesBack
<1>7. ReadAs(answer, "BYTES") = o.value /\ o.value # Null
  BY <1>2, <1>5, <1>6, ValueAssumption DEF ReadAs
<1> QED
  BY <1>2, <1>3, <1>7 DEF ReadOrderedValue

LEMMA OrderedStep == OrderedInv /\ [Next]_vars => OrderedInv'
<1> SUFFICES ASSUME OrderedInv, [Next]_vars, kind' = "ordered", written'.value.type = "BYTES"
             PROVE  OrderedInv'
  BY DEF OrderedInv
<1>1. CASE SendOrderedValue
  <2>1. PICK v \in Values, w \in Numbers, t \in Thresholds :
           Send("ordered", [value |-> v, weight |-> w], BuildOrderedValue(v, w, t))
    BY <1>1 DEF SendOrderedValue
  <2>2. /\ stage' = "sent" /\ written' = [value |-> v, weight |-> w]
        /\ message' = BuildOrderedValue(v, w, t)
    BY <2>1 DEF Send
  <2>3. v.type = "BYTES" /\ v \in ByteValues
    BY <2>2 DEF Values, ByteValues, NumberValues
  <2>4. message' \in OrderedMessages(written')
    BY <2>2, <2>3, BuildsOrderedMessages
  <2>5. written' \in [value : ByteValues, weight : Numbers]
    BY <2>2, <2>3
  <2> QED
    BY <2>2, <2>4, <2>5 DEF OrderedInv, OrderedNeverGarbled, Done
<1>2. CASE ServeOrderedValue
  <2>1. /\ kind = "ordered" /\ stage = "sent" /\ stage' = "answered" /\ written' = written
        /\ \E type \in {message.case, "AUTO"} : message' \in Received(message, type)
    BY <1>2 DEF ServeOrderedValue, Answer
  <2>2. written' \in [value : ByteValues, weight : Numbers] /\ message \in OrderedMessages(written')
    BY <2>1 DEF OrderedInv
  <2>3. message.case = "BYTES"
    BY <2>2 DEF OrderedMessages
  <2>4. OrderedNeverGarbled'
    BY <2>1 DEF OrderedNeverGarbled, Done
  <2> QED
    BY <2>1, <2>2, <2>3, <2>4 DEF OrderedInv
<1>3. CASE Read("ordered", ReadOrderedValue(message))
  <2>1. /\ kind = "ordered" /\ stage = "answered" /\ stage' = "read" /\ written' = written
        /\ message' = message /\ got' = ReadOrderedValue(message)
    BY <1>3 DEF Read
  <2>2. written \in [value : ByteValues, weight : Numbers] /\
        \E m \in OrderedMessages(written) : \E type \in {"BYTES", "AUTO"} : message \in Received(m, type)
    BY <2>1 DEF OrderedInv
  <2>3. got' = IF message'.type = "AUTO" THEN Null ELSE written'
    BY <2>1, <2>2, ReadsOrderedValue
  <2> QED
    BY <2>1, <2>2, <2>3 DEF OrderedInv, OrderedNeverGarbled
<1>4. CASE Untouched
  BY <1>4 DEF OrderedInv, OrderedNeverGarbled, Done, Untouched
<1> QED
  BY <1>1, <1>2, <1>3, <1>4, StepsByKind

-----------------------------------------------------------------------------
(* Times.                                                                   *)

LEMMA ClockStep == ClockInv /\ [Next]_vars => ClockInv'
<1> SUFFICES ASSUME ClockInv, [Next]_vars PROVE ClockInv'
  OBVIOUS
<1>1. SendValue \/ SendAtomic \/ SendKey \/ SendOrderedValue => now' = now
  BY DEF SendValue, SendAtomic, SendKey, SendOrderedValue, Send
<1>2. SendMap => now' = now
  BY DEF SendMap, Send
<1>3. SendList \/ SendTtl \/ SendSetTtl => now' = now
  BY DEF SendList, SendTtl, SendSetTtl, Send
<1>4. ServeValue \/ ServeAtomic \/ ServeKey \/ ServeOrderedValue \/ ServeTtl => now' = now
  BY DEF ServeValue, ServeAtomic, ServeKey, ServeOrderedValue, ServeTtl, Answer
<1>5. ServeMap => now' = now
  BY DEF ServeMap, Answer
<1>6. ServeList => now' = now
  BY DEF ServeList, Answer
<1>7. ASSUME NEW k, NEW item, Read(k, item) PROVE now' = now
  BY <1>7 DEF Read
<1>8. Tick => now' = now + 1
  BY DEF Tick
<1>9. now' = now \/ now' = now + 1
  BY <1>1, <1>2, <1>3, <1>4, <1>5, <1>6, <1>7, <1>8 DEF Next, vars
<1> QED
  BY <1>9 DEF ClockInv

LEMMA TtlStep == TtlInv /\ ClockInv /\ [Next]_vars => TtlInv'
<1> SUFFICES ASSUME TtlInv, ClockInv, [Next]_vars, kind' \in {"ttl", "setTtl"} PROVE TtlInv'
  BY DEF TtlInv
<1>1. CASE SendTtl \/ SendSetTtl
  <2>1. PICK k, asked, m :
           /\ asked \in Int
           /\ Send(k, [asked |-> asked, at |-> now], m)
           /\ \/ m = now + asked
              \/ m = Null /\ asked <= 0
    <3>1. CASE SendTtl
      <4>1. PICK ttl \in Ttls, default \in DefaultTtls :
               Send("ttl", [asked |-> EffectiveTtl(ttl, default), at |-> now],
                    Expiry(EffectiveTtl(ttl, default), now))
        BY <3>1 DEF SendTtl
      <4>2. EffectiveTtl(ttl, default) \in Int
        BY CodecAssumption DEF EffectiveTtl
      <4>3. \A asked \in Int : asked > 0 => Expiry(asked, now) = now + asked
        BY DEF Expiry
      <4>4. \A asked \in Int : asked > 0 \/ (Expiry(asked, now) = Null /\ asked <= 0)
        BY DEF Expiry
      <4> QED
        BY <4>1, <4>2, <4>3, <4>4
    <3>2. CASE SendSetTtl
      <4>1. PICK ttl \in Ttls \cap Nat :
               Send("setTtl", [asked |-> ttl, at |-> now], NewExpiry(ttl, now))
        BY <3>2 DEF SendSetTtl
      <4>2. ttl \in Int /\ NewExpiry(ttl, now) = now + ttl
        BY DEF NewExpiry
      <4> QED
        BY <4>1, <4>2
    <3> QED
      BY <1>1, <3>1, <3>2
  <2> QED
    BY <2>1 DEF TtlInv, ClockInv, Send
<1>2. CASE ServeTtl
  <2>1. /\ kind \in {"ttl", "setTtl"} /\ stage = "sent" /\ stage' = "answered" /\ written' = written /\ now' = now
        /\ message' = IF message # Null /\ message > now THEN message ELSE Null
    BY <1>2 DEF ServeTtl, Answer
  <2>2. /\ written \in [asked : Int, at : Nat] /\ written.at <= now /\ now \in Nat
        /\ \/ message = written.at + written.asked
           \/ message = Null /\ written.asked <= 0
    BY <2>1 DEF TtlInv, ClockInv
  <2>3. \/ message' = written.at + written.asked
        \/ message' = Null /\ written.at + written.asked <= now
    BY <2>1, <2>2
  <2> QED
    BY <2>1, <2>2, <2>3 DEF TtlInv
<1>3. CASE Read("ttl", ReadTtl(message, now)) \/ Read("setTtl", ReadTtl(message, now))
  <2>1. /\ kind \in {"ttl", "setTtl"} /\ stage = "answered" /\ stage' = "read" /\ written' = written /\ now' = now
        /\ got' = ReadTtl(message, now)
    BY <1>3 DEF Read
  <2>2. /\ written \in [asked : Int, at : Nat] /\ written.at <= now /\ now \in Nat
        /\ \/ message = written.at + written.asked
           \/ message = Null /\ written.at + written.asked <= now
    BY <2>1 DEF TtlInv, ClockInv
  <2>3. written.at + written.asked # Null
    <3>1. written.at + written.asked \in Int
      BY <2>2
    <3> QED
      BY <3>1, CodecAssumption
  <2>4. got' = IF written.asked - (now - written.at) > 0 THEN written.asked - (now - written.at) ELSE -1
    BY <2>1, <2>2, <2>3 DEF ReadTtl
  <2> QED
    BY <2>1, <2>2, <2>4 DEF TtlInv
<1>4. CASE Tick
  <2>1. /\ UNCHANGED <<stage, kind, written, message>> /\ kind \in {"ttl", "setTtl"} /\ now' = now + 1
        /\ stage \in {"sent", "answered"}
    BY <1>4 DEF Tick, TtlInv
  <2>2. /\ written \in [asked : Int, at : Nat] /\ written.at <= now /\ now \in Nat
        /\ stage = "sent" =>
              \/ message = written.at + written.asked
              \/ message = Null /\ written.asked <= 0
        /\ stage = "answered" =>
              \/ message = written.at + written.asked
              \/ message = Null /\ written.at + written.asked <= now
    BY <2>1 DEF TtlInv, ClockInv
  <2>3. written.at <= now + 1 /\ (written.at + written.asked <= now => written.at + written.asked <= now + 1)
    BY <2>2
  <2> QED
    BY <2>1, <2>2, <2>3 DEF TtlInv
<1>5. CASE UNCHANGED vars
  BY <1>5 DEF TtlInv, vars
<1> QED
  BY <1>1, <1>2, <1>3, <1>4, <1>5, StepsByKind

-----------------------------------------------------------------------------
(* Containers.                                                              *)

LEMMA PositionsOf ==
    ASSUME NEW E, NEW s \in Seq(E)
    PROVE  DOMAIN s = 1 .. Len(s)
OBVIOUS

LEMMA BoundedAreSequences ==
    ASSUME NEW E
    PROVE  \A s \in BoundedSeq(E, MaxLength) : s \in Seq(E)
BY ContainerAssumption DEF BoundedSeq, SeqOf

LEMMA BuildsAllMessages ==
    ASSUME NEW vs \in Seq(Values), NEW t
    PROVE  AreMessages([i \in DOMAIN vs |-> BuildValue(vs[i], t, TRUE)], vs)
<1> DEFINE ms == [i \in DOMAIN vs |-> BuildValue(vs[i], t, TRUE)]
<1>1. Len(vs) \in Nat /\ DOMAIN vs = 1 .. Len(vs) /\ \A i \in 1 .. Len(vs) : vs[i] \in Values
  OBVIOUS
<1>2. ms = [i \in 1 .. Len(vs) |-> ms[i]]
  BY <1>1
<1>3. \A i \in 1 .. Len(vs) : ms[i] \in Messages(vs[i])
  BY <1>1, BuildsMessages
<1> HIDE DEF ms
<1>4. ms \in Seq(ToSet(ms)) /\ Len(ms) = Len(vs)
  BY <1>1, <1>2, SeqOfItself
<1> QED
  BY <1>3, <1>4, Zenon DEF AreMessages, ms

LEMMA AnswersAllMessages ==
    ASSUME NEW vs \in Seq(Values), NEW ms, AreMessages(ms, vs), NEW as \in AllAnswers(ms)
    PROVE  AreAnswers(as, vs)
<1>1. /\ Len(vs) \in Nat /\ DOMAIN ms = 1 .. Len(vs) /\ Len(ms) = Len(vs)
      /\ \A i \in 1 .. Len(vs) : ms[i] \in Messages(vs[i])
  BY DEF AreMessages
<1>2. as = [i \in 1 .. Len(vs) |-> as[i]] /\ \A i \in 1 .. Len(vs) : as[i] \in ElementAnswers(ms[i])
  BY <1>1 DEF AllAnswers
<1>3. as \in Seq(ToSet(as)) /\ Len(as) = Len(vs)
  BY <1>1, <1>2, SeqOfItself
<1> QED
  BY <1>1, <1>2, <1>3, Zenon DEF AreAnswers

\* An element is read as it was written, unless its payload is lost.
LEMMA ReadsElement ==
    ASSUME NEW v \in Values, NEW m \in Messages(v), NEW a \in ElementAnswers(m)
    PROVE  ReadValue(a) = IF a.case = "NOT_SET" THEN Null ELSE v
<1>1. m.case = v.type /\ v.type \in {"BYTES", "INT", "DOUBLE"}
  BY DEF Messages, Values, ByteValues, NumberValues
<1>2. m = [type |-> m.type, case |-> m.case, payload |-> m.payload, info |-> m.info]
  BY DEF Messages
<1>3. CASE a \in ValueAnswers(m)
  <2>1. PICK type \in {m.type, "AUTO"} : a \in Received(m, type)
    BY <1>3 DEF ValueAnswers
  <2>2. ReadValue(a) = v
    BY <2>1, ReadsValue
  <2>3. a.case = v.type
    BY <1>1, <1>2, <2>1 DEF Received
  <2> QED
    BY <1>1, <2>2, <2>3
<1>4. CASE a = Emptied(m)
  <2>1. a.type = "AUTO" /\ a.case = "NOT_SET"
    BY <1>2, <1>4 DEF Emptied
  <2> QED
    BY <2>1 DEF ReadValue
<1> QED
  BY <1>3, <1>4 DEF ElementAnswers

\* The null elements are dropped, and only they.
LEMMA NonNullWithin ==
    ASSUME NEW E, NEW s \in Seq(E)
    PROVE  NonNull(s) = Among(s, E \ {Null}) /\ NonNull(s) \in Seq(E \ {Null})
<1>1. ToSet(s) \subseteq E
  BY DEF ToSet
<1>2. ToSet(s) \cap (ToSet(s) \ {Null}) = ToSet(s) \cap (E \ {Null})
  BY <1>1
<1>3. NonNull(s) = Among(s, E \ {Null})
  BY <1>2, AmongSame DEF NonNull
<1> DEFINE kept == Among(s, E \ {Null})
<1>4. kept \in Seq(E) /\ ToSet(kept) = ToSet(s) \cap (E \ {Null})
  BY AmongTypes, AmongElements
<1> HIDE DEF kept
<1>5. \A i \in 1 .. Len(kept) : kept[i] \in E \ {Null}
  BY <1>4 DEF ToSet
<1>6. kept \in Seq(E \ {Null})
  BY <1>4, <1>5
<1> QED
  BY <1>3, <1>6 DEF kept

-----------------------------------------------------------------------------
(* Lists.                                                                   *)

\* The elements of each message are read, and none is lost or moved.
LEMMA ReadsList ==
    ASSUME NEW vs \in Seq(Values), NEW as, AreAnswers(as, vs), NEW chunks \in Pieces(as)
    PROVE  ReadList(chunks) = [i \in DOMAIN vs |-> IF as[i].case = "NOT_SET" THEN Null ELSE vs[i]]
<1> DEFINE A == ToSet(as)
           F == {ReadValue(a) : a \in A}
           g == [a \in A |-> ReadValue(a)]
           f == [s \in Seq(A) |-> Mapped(g, s)]
<1>1. /\ as \in Seq(A) /\ DOMAIN as = 1 .. Len(vs) /\ DOMAIN vs = 1 .. Len(vs)
      /\ \A i \in 1 .. Len(vs) : vs[i] \in Values
      /\ \A i \in 1 .. Len(vs) : \E m \in Messages(vs[i]) : as[i] \in ElementAnswers(m)
  <2>1. /\ as \in Seq(ToSet(as)) /\ Len(as) = Len(vs)
        /\ \A i \in 1 .. Len(vs) : \E m \in Messages(vs[i]) : as[i] \in ElementAnswers(m)
    BY Zenon DEF AreAnswers
  <2>2. DOMAIN as = 1 .. Len(as)
    BY <2>1, PositionsOf, Zenon
  <2>3. DOMAIN vs = 1 .. Len(vs) /\ \A i \in 1 .. Len(vs) : vs[i] \in Values
    OBVIOUS
  <2> QED
    BY <2>1, <2>2, <2>3, Zenon
<1>2. chunks \in Seq(Seq(A)) /\ FlattenSeq(chunks) = as
  BY <1>1, PiecesFlatten
<1>3. Distributes(f, A, F)
  <2>1. g \in [A -> F]
    OBVIOUS
  <2> HIDE DEF A, F, g
  <2> QED
    BY <2>1, MappedDistributes
<1>4. ASSUME NEW s \in Seq(A) PROVE f[s] = [i \in DOMAIN s |-> ReadValue(s[i])]
  <2>1. \A i \in DOMAIN s : s[i] \in A
    <3> HIDE DEF A
    <3> QED
      OBVIOUS
  <2>2. Mapped(g, s) = [i \in DOMAIN s |-> ReadValue(s[i])]
    BY <2>1 DEF Mapped
  <2> QED
    BY <2>2
<1> HIDE DEF A, F, g, f
<1>5. OfEach(f, chunks) = [c \in DOMAIN chunks |-> ReadElements(chunks[c])]
  <2>1. \A c \in DOMAIN chunks : chunks[c] \in Seq(A)
    BY <1>2
  <2>2. \A c \in DOMAIN chunks : f[chunks[c]] = ReadElements(chunks[c])
    BY <1>4, <2>1 DEF ReadElements
  <2> QED
    BY <2>2 DEF OfEach
<1>6. ReadList(chunks) = f[as]
  <2>1. FlattenSeq(OfEach(f, chunks)) = f[FlattenSeq(chunks)]
    BY <1>2, <1>3, FlattenOfEach
  <2> QED
    BY <1>2, <1>5, <2>1, Zenon DEF ReadList
<1>7. f[as] = [i \in 1 .. Len(vs) |-> ReadValue(as[i])]
  BY <1>1, <1>4
<1>8. \A i \in 1 .. Len(vs) : ReadValue(as[i]) = IF as[i].case = "NOT_SET" THEN Null ELSE vs[i]
  BY <1>1, ReadsElement
<1> QED
  BY <1>1, <1>6, <1>7, <1>8

LEMMA KeptElements ==
    ASSUME NEW values \in Seq({Null} \cup Elements)
    PROVE  NonNull(values) \in Seq(Values)
<1>1. NonNull(values) \in Seq(({Null} \cup Elements) \ {Null})
  BY NonNullWithin
<1>2. ({Null} \cup Elements) \ {Null} \subseteq Values
  BY ContainerAssumption
<1> QED
  BY <1>1, <1>2

LEMMA ListStep == ListInv /\ [Next]_vars => ListInv'
<1> SUFFICES ASSUME ListInv, [Next]_vars, kind' = "list" PROVE ListInv'
  BY DEF ListInv
<1>1. CASE SendList
  <2>1. PICK values \in BoundedSeq({Null} \cup Elements, MaxLength), t \in Thresholds :
           Send("list", values, BuildContainer(values, t))
    BY <1>1 DEF SendList
  <2>2. values \in Seq({Null} \cup Elements)
    BY BoundedAreSequences
  <2>3. NonNull(values) \in Seq(Values)
    BY <2>2, KeptElements
  <2>4. AreMessages(BuildContainer(values, t), NonNull(values))
    BY <2>3, BuildsAllMessages DEF BuildContainer
  <2>5. /\ kind' = "list" /\ written' = values /\ message' = BuildContainer(values, t)
        /\ stage' = "sent"
    BY <2>1 DEF Send
  <2> QED
    BY <2>2, <2>4, <2>5 DEF ListInv, ListRoundTrip, Done
<1>2. CASE ServeList
  <2>1. PICK elements \in AllAnswers(message) : Answer(Pieces(elements))
    BY <1>2 DEF ServeList
  <2>2. /\ kind = "list" /\ stage = "sent" /\ stage' = "answered" /\ written' = written
        /\ message' \in Pieces(elements)
    BY <1>2, <2>1 DEF ServeList, Answer
  <2>3. written \in Seq({Null} \cup Elements) /\ AreMessages(message, NonNull(written))
    BY <2>2 DEF ListInv
  <2>4. NonNull(written) \in Seq(Values)
    BY <2>3, KeptElements
  <2>5. AreAnswers(elements, NonNull(written))
    BY <2>3, <2>4, AnswersAllMessages
  <2>6. elements \in Seq(ToSet(elements))
    BY <2>5, Zenon DEF AreAnswers
  <2>7. FlattenSeq(message') = elements
    BY <2>2, <2>6, PiecesFlatten, Zenon
  <2>8. ListRoundTrip'
    BY <2>2 DEF ListRoundTrip, Done
  <2> QED
    BY <2>2, <2>3, <2>5, <2>7, <2>8 DEF ListInv
<1>3. CASE Read("list", ReadList(message))
  <2>1. /\ kind = "list" /\ stage = "answered" /\ stage' = "read" /\ written' = written
        /\ message' = message /\ got' = ReadList(message)
    BY <1>3 DEF Read
  <2>2. /\ written \in Seq({Null} \cup Elements) /\ message \in Pieces(FlattenSeq(message))
        /\ AreAnswers(FlattenSeq(message), NonNull(written))
    BY <2>1 DEF ListInv
  <2>3. NonNull(written) \in Seq(Values)
    BY <2>2, KeptElements
  <2>4. ReadList(message) = [i \in DOMAIN NonNull(written) |->
                                IF FlattenSeq(message)[i].case = "NOT_SET" THEN Null ELSE NonNull(written)[i]]
    BY <2>2, <2>3, ReadsList
  <2>5. Len(FlattenSeq(message)) = Len(NonNull(written))
    BY <2>2, Zenon DEF AreAnswers
  <2>6. ListRoundTrip'
    BY <2>1, <2>4, <2>5, Zenon DEF ListRoundTrip
  <2> QED
    BY <2>1, <2>2, <2>6 DEF ListInv
<1>4. CASE Untouched
  BY <1>4 DEF ListInv, ListRoundTrip, Done, Untouched
<1> QED
  BY <1>1, <1>2, <1>3, <1>4, StepsByKind

-----------------------------------------------------------------------------
(* Maps.                                                                    *)

LEMMA EntryTypes ==
    ASSUME NEW e \in Entries
    PROVE  /\ e = [key |-> e.key, value |-> e.value] /\ e # Null
           /\ e.key \in ByteStrings /\ e.value \in Values /\ e.value # Null
BY ContainerAssumption, ValueAssumption DEF Entries

\* The key of an entry is read as it was written.
LEMMA ReadsElementKey ==
    ASSUME NEW e \in Entries
    PROVE  /\ ReadKey(BuildElementKey(e.key)) # Null
           /\ ReadKey(BuildElementKey(e.key)).key = e.key
<1>1. e.key \in MapKeys
  BY DEF Entries
<1>2. e.key \in Seq(Bytes) /\ e.key # Null
  BY EntryTypes, ByteStringsAreSequences, CodecAssumption
<1>3. ReadKey(BuildElementKey(e.key)) = [key |-> e.key, hint |-> Null]
  BY <1>2 DEF ReadKey, BuildElementKey
<1>4. [key |-> e.key, hint |-> Null] # Null
  BY <1>1, ContainerAssumption
<1> QED
  BY <1>3, <1>4

\* What the accumulator makes of a pair.
PairRead(x) ==
    IF ReadKey(x[1]) = Null \/ ReadValue(x[2]) = Null THEN Null
    ELSE [key |-> ReadKey(x[1]).key, value |-> ReadValue(x[2])]

LEMMA ReadsPair ==
    ASSUME NEW e \in Entries, NEW x, x = <<BuildElementKey(e.key), x[2]>>,
           NEW m \in Messages(e.value), x[2] \in ElementAnswers(m)
    PROVE  PairRead(x) = IF x[2].case = "NOT_SET" THEN Null ELSE e
<1>1. ReadValue(x[2]) = IF x[2].case = "NOT_SET" THEN Null ELSE e.value
  BY EntryTypes, ReadsElement
<1>2. x[1] = BuildElementKey(e.key)
  OBVIOUS
<1> QED
  BY <1>1, <1>2, EntryTypes, ReadsElementKey, Zenon DEF PairRead

\* A message is read pair by pair.
LEMMA PairsUp ==
    ASSUME NEW F, NEW P, NEW s \in Seq(P), \A x \in P : PairRead(x) \in F
    PROVE  PairUp(ChunkOf(s).keys, ChunkOf(s).values) =
              Among([i \in DOMAIN s |-> PairRead(s[i])], F \ {Null})
<1> DEFINE ks == [i \in DOMAIN s |-> s[i][1]]
           vs == [i \in DOMAIN s |-> s[i][2]]
           read == [i \in DOMAIN s |-> PairRead(s[i])]
<1>1. Len(s) \in Nat /\ DOMAIN s = 1 .. Len(s) /\ \A i \in 1 .. Len(s) : s[i] \in P
  OBVIOUS
<1>2. ChunkOf(s).keys = ks /\ ChunkOf(s).values = vs
  BY DEF ChunkOf
<1>3. SmallerOf(Len(ks), Len(vs)) = Len(s)
  BY <1>1 DEF SmallerOf
<1>4. \A i \in 1 .. Len(s) : ks[i] = s[i][1] /\ vs[i] = s[i][2]
  BY <1>1
<1>5. read \in Seq(F)
  BY <1>1
<1> HIDE DEF ks, vs
<1>6. PairUp(ks, vs) = NonNull([i \in 1 .. Len(s) |-> PairRead(s[i])])
  BY <1>3, <1>4 DEF PairUp, PairRead
<1> HIDE DEF read
<1>7. NonNull(read) = Among(read, F \ {Null})
  BY <1>5, NonNullWithin
<1> QED
  BY <1>1, <1>2, <1>6, <1>7, Zenon DEF read

\* The pairs can be told from the messages.
LEMMA PiecesBack ==
    ASSUME NEW P, \A x \in P : x = <<x[1], x[2]>>, NEW pieces \in Seq(Seq(P))
    PROVE  PiecesOf(ChunksOf(pieces)) = pieces
<1>1. ASSUME NEW s \in Seq(P) PROVE PairsIn(ChunkOf(s)) = s
  <2>1. \A i \in DOMAIN s : s[i] = <<s[i][1], s[i][2]>>
    OBVIOUS
  <2>2. PairsIn(ChunkOf(s)) = [i \in DOMAIN s |-> s[i]]
    BY <2>1 DEF PairsIn, ChunkOf
  <2> QED
    BY <2>2
<1>2. \A c \in DOMAIN pieces : pieces[c] \in Seq(P)
  OBVIOUS
<1>3. \A c \in DOMAIN pieces : PairsIn(ChunkOf(pieces[c])) = pieces[c]
  BY <1>1, <1>2
<1>4. PiecesOf(ChunksOf(pieces)) = [c \in DOMAIN pieces |-> pieces[c]]
  BY <1>3 DEF PiecesOf, ChunksOf
<1> QED
  BY <1>4

\* No pair of the messages is lost, moved or put together with another.
LEMMA ReadsMap ==
    ASSUME NEW entries \in Seq(Entries), NEW pairs, AreEntries(pairs, entries), NEW pieces \in Pieces(pairs)
    PROVE  ReadMap(ChunksOf(pieces)) =
              NonNull([i \in DOMAIN entries |-> IF pairs[i][2].case = "NOT_SET" THEN Null ELSE entries[i]])
<1> DEFINE P == ToSet(pairs)
           F == {PairRead(x) : x \in P}
           D == F \ {Null}
           g == [x \in P |-> PairRead(x)]
           f == [s \in Seq(P) |-> Among(Mapped(g, s), D)]
<1>1. /\ pairs \in Seq(P) /\ DOMAIN pairs = 1 .. Len(entries) /\ DOMAIN entries = 1 .. Len(entries)
      /\ \A i \in 1 .. Len(entries) : entries[i] \in Entries
      /\ \A i \in 1 .. Len(entries) :
            /\ pairs[i] = <<BuildElementKey(entries[i].key), pairs[i][2]>>
            /\ \E m \in Messages(entries[i].value) : pairs[i][2] \in ElementAnswers(m)
  <2>1. /\ pairs \in Seq(ToSet(pairs)) /\ Len(pairs) = Len(entries)
        /\ \A i \in 1 .. Len(entries) :
              /\ pairs[i] = <<BuildElementKey(entries[i].key), pairs[i][2]>>
              /\ \E m \in Messages(entries[i].value) : pairs[i][2] \in ElementAnswers(m)
    BY Zenon DEF AreEntries
  <2>2. DOMAIN pairs = 1 .. Len(pairs)
    BY <2>1, PositionsOf, Zenon
  <2>3. DOMAIN entries = 1 .. Len(entries) /\ \A i \in 1 .. Len(entries) : entries[i] \in Entries
    OBVIOUS
  <2> QED
    BY <2>1, <2>2, <2>3, Zenon
<1>2. pieces \in Seq(Seq(P)) /\ FlattenSeq(pieces) = pairs
  BY <1>1, PiecesFlatten
<1>3. Distributes(f, P, F)
  <2>1. g \in [P -> F]
    OBVIOUS
  <2> HIDE DEF P, F, D, g
  <2> QED
    BY <2>1, SomeMappedDistributes
<1>4. ASSUME NEW s \in Seq(P) PROVE Mapped(g, s) = [i \in DOMAIN s |-> PairRead(s[i])]
  <2>1. \A i \in DOMAIN s : s[i] \in P
    <3> HIDE DEF P
    <3> QED
      OBVIOUS
  <2> QED
    BY <2>1 DEF Mapped
<1>5. ASSUME NEW s \in Seq(P) PROVE f[s] = Among(Mapped(g, s), D)
  OBVIOUS
<1>6. \A x \in P : PairRead(x) \in F
  OBVIOUS
<1> HIDE DEF P, F, g, f
<1>7. ASSUME NEW s \in Seq(P) PROVE PairUp(ChunkOf(s).keys, ChunkOf(s).values) = f[s]
  BY <1>4, <1>5, <1>6, PairsUp
<1>8. OfEach(f, pieces) =
         [c \in DOMAIN ChunksOf(pieces) |-> PairUp(ChunksOf(pieces)[c].keys, ChunksOf(pieces)[c].values)]
  <2>1. \A c \in DOMAIN pieces : pieces[c] \in Seq(P)
    BY <1>2
  <2>2. \A c \in DOMAIN pieces : PairUp(ChunkOf(pieces[c]).keys, ChunkOf(pieces[c]).values) = f[pieces[c]]
    BY <1>7, <2>1
  <2> QED
    BY <2>2 DEF OfEach, ChunksOf
<1>9. ReadMap(ChunksOf(pieces)) = f[pairs]
  <2>1. FlattenSeq(OfEach(f, pieces)) = f[FlattenSeq(pieces)]
    BY <1>2, <1>3, FlattenOfEach
  <2> QED
    BY <1>2, <1>8, <2>1, Zenon DEF ReadMap
<1> DEFINE read == [i \in 1 .. Len(entries) |-> PairRead(pairs[i])]
<1>10. f[pairs] = NonNull(read)
  <2>1. Mapped(g, pairs) = read
    BY <1>1, <1>4
  <2>2. read \in Seq(F)
    <3>1. \A i \in 1 .. Len(entries) : pairs[i] \in P
      BY <1>1
    <3>2. Len(entries) \in Nat
      OBVIOUS
    <3> QED
      BY <1>6, <3>1, <3>2
  <2> HIDE DEF read
  <2>3. NonNull(read) = Among(read, F \ {Null})
    BY <2>2, NonNullWithin
  <2> QED
    BY <1>1, <1>5, <2>1, <2>3, Zenon
<1>11. \A i \in 1 .. Len(entries) : PairRead(pairs[i]) = IF pairs[i][2].case = "NOT_SET" THEN Null ELSE entries[i]
  BY <1>1, ReadsPair
<1>12. read = [i \in DOMAIN entries |-> IF pairs[i][2].case = "NOT_SET" THEN Null ELSE entries[i]]
  BY <1>1, <1>11
<1> QED
  BY <1>9, <1>10, <1>12, Zenon

\* The answers in the messages, in their order.
LEMMA ValuesOfChunks ==
    ASSUME NEW P, NEW pairs \in Seq(P), NEW pieces \in Pieces(pairs)
    PROVE  FlattenSeq([c \in DOMAIN ChunksOf(pieces) |-> ChunksOf(pieces)[c].values]) =
              [i \in DOMAIN pairs |-> pairs[i][2]]
<1> DEFINE F == {x[2] : x \in P}
           g == [x \in P |-> x[2]]
           f == [s \in Seq(P) |-> Mapped(g, s)]
<1>1. pieces \in Seq(Seq(P)) /\ FlattenSeq(pieces) = pairs
  BY PiecesFlatten
<1>2. Distributes(f, P, F)
  <2>1. g \in [P -> F]
    OBVIOUS
  <2> HIDE DEF F, g
  <2> QED
    BY <2>1, MappedDistributes
<1>3. ASSUME NEW s \in Seq(P) PROVE f[s] = [i \in DOMAIN s |-> s[i][2]]
  <2>1. \A i \in DOMAIN s : s[i] \in P
    OBVIOUS
  <2> QED
    BY <2>1 DEF Mapped
<1> HIDE DEF F, g, f
<1>4. OfEach(f, pieces) = [c \in DOMAIN ChunksOf(pieces) |-> ChunksOf(pieces)[c].values]
  <2>1. \A c \in DOMAIN pieces : pieces[c] \in Seq(P)
    BY <1>1
  <2>2. \A c \in DOMAIN pieces : ChunkOf(pieces[c]).values = f[pieces[c]]
    BY <1>3, <2>1 DEF ChunkOf
  <2> QED
    BY <2>2 DEF OfEach, ChunksOf
<1>5. FlattenSeq(OfEach(f, pieces)) = f[FlattenSeq(pieces)]
  BY <1>1, <1>2, FlattenOfEach
<1> QED
  BY <1>1, <1>3, <1>4, <1>5, Zenon

LEMMA BuildsEntries ==
    ASSUME NEW entries \in Seq(Entries)
    PROVE  /\ AreKeys(BuildEntries(entries).keys, entries)
           /\ ValuesIn(entries) \in Seq(Values)
           /\ AreMessages(BuildEntries(entries).values, ValuesIn(entries))
<1> DEFINE vs == ValuesIn(entries)
<1>1. /\ Len(entries) \in Nat /\ DOMAIN entries = 1 .. Len(entries)
      /\ \A i \in 1 .. Len(entries) : entries[i] \in Entries
  OBVIOUS
<1>2. \A i \in 1 .. Len(entries) : entries[i].value \in Values
  BY <1>1, EntryTypes
<1>3. vs \in Seq(Values) /\ DOMAIN vs = DOMAIN entries /\ \A i \in DOMAIN entries : vs[i] = entries[i].value
  BY <1>1, <1>2 DEF ValuesIn
<1> HIDE DEF vs
<1> DEFINE ms == [i \in 1 .. Len(entries) |-> BuildValue(entries[i].value, DefaultThreshold, TRUE)]
<1>4. BuildEntries(entries).values = ms
  BY <1>1 DEF BuildEntries
<1>5. AreMessages(ms, vs)
  <2>1. \A i \in 1 .. Len(entries) : ms[i] \in Messages(entries[i].value)
    BY <1>2, BuildsMessages
  <2>2. ms = [i \in 1 .. Len(entries) |-> ms[i]]
    BY ONLY <1>1
  <2> HIDE DEF ms
  <2>3. ms \in Seq(ToSet(ms)) /\ Len(ms) = Len(entries)
    BY <1>1, <2>2, SeqOfItself
  <2>4. Len(vs) = Len(entries) /\ \A i \in 1 .. Len(entries) : vs[i] = entries[i].value
    BY <1>1, <1>3
  <2> QED
    BY <2>1, <2>3, <2>4, Zenon DEF AreMessages
<1>6. AreKeys(BuildEntries(entries).keys, entries)
  BY DEF BuildEntries, AreKeys
<1> QED
  BY <1>3, <1>4, <1>5, <1>6, Zenon DEF vs

LEMMA AnswersEntries ==
    ASSUME NEW entries \in Seq(Entries), NEW keys, NEW ms,
           AreKeys(keys, entries),
           AreMessages(ms, ValuesIn(entries)), NEW as \in AllAnswers(ms)
    PROVE  AreEntries([i \in DOMAIN as |-> <<keys[i], as[i]>>], entries)
<1> DEFINE pairs == [i \in DOMAIN as |-> <<keys[i], as[i]>>]
           vs == ValuesIn(entries)
           N == Len(entries)
<1>1. N \in Nat /\ DOMAIN entries = 1 .. N
  OBVIOUS
<1>2. vs \in Seq(Values) /\ Len(vs) = N /\ \A i \in 1 .. N : vs[i] = entries[i].value
  <2>1. vs \in Seq(Values)
    BY BuildsEntries
  <2>2. Len(vs) = N /\ \A i \in 1 .. N : vs[i] = entries[i].value
    BY <1>1 DEF ValuesIn
  <2> QED
    BY <2>1, <2>2
<1>3. AreAnswers(as, vs)
  BY <1>2, AnswersAllMessages
<1> HIDE DEF vs, N
<1>4. DOMAIN as = 1 .. N /\ \A i \in 1 .. N : \E m \in Messages(entries[i].value) : as[i] \in ElementAnswers(m)
  <2>1. /\ as \in Seq(ToSet(as)) /\ Len(as) = N
        /\ \A i \in 1 .. N : \E m \in Messages(vs[i]) : as[i] \in ElementAnswers(m)
    BY <1>2, <1>3, Zenon DEF AreAnswers
  <2>2. DOMAIN as = 1 .. N
    BY <2>1, PositionsOf, Zenon
  <2> QED
    BY <1>2, <2>1, <2>2, Zenon
<1>5. \A i \in 1 .. N : keys[i] = BuildElementKey(entries[i].key)
  BY <1>1 DEF AreKeys
<1>6. \A i \in 1 .. N : pairs[i] = <<BuildElementKey(entries[i].key), as[i]>> /\ pairs[i][2] = as[i]
  BY <1>4, <1>5
<1>7. pairs = [i \in 1 .. N |-> pairs[i]]
  <2> DEFINE q == [i \in 1 .. N |-> <<keys[i], as[i]>>]
  <2>1. pairs = q
    BY <1>4, Zenon
  <2>2. q = [i \in 1 .. N |-> q[i]]
    BY ONLY <1>1
  <2> HIDE DEF pairs, q
  <2> QED
    BY <2>1, <2>2, Zenon
<1> HIDE DEF pairs
<1>8. pairs \in Seq(ToSet(pairs)) /\ Len(pairs) = N
  BY <1>1, <1>7, SeqOfItself
<1> QED
  BY <1>4, <1>6, <1>8, Zenon DEF AreEntries, N, pairs

LEMMA EntriesArePairs ==
    ASSUME NEW entries, NEW pairs, AreEntries(pairs, entries)
    PROVE  \A x \in ToSet(pairs) : x = <<x[1], x[2]>>
<1>1. /\ pairs \in Seq(ToSet(pairs)) /\ Len(pairs) = Len(entries)
      /\ \A i \in 1 .. Len(entries) : pairs[i] = <<BuildElementKey(entries[i].key), pairs[i][2]>>
  BY Zenon DEF AreEntries
<1>2. DOMAIN pairs = 1 .. Len(entries)
  BY <1>1, PositionsOf, Zenon
<1>3. ASSUME NEW x \in ToSet(pairs) PROVE x = <<x[1], x[2]>>
  <2>1. PICK i \in 1 .. Len(entries) : x = pairs[i]
    BY <1>2 DEF ToSet
  <2>2. x = <<BuildElementKey(entries[i].key), x[2]>>
    BY <1>1, <2>1, Zenon
  <2>3. x[1] = BuildElementKey(entries[i].key)
    BY <2>2
  <2> QED
    BY <2>2, <2>3, Zenon
<1> QED
  BY <1>3

LEMMA MapStep == MapInv /\ [Next]_vars => MapInv'
<1> SUFFICES ASSUME MapInv, [Next]_vars, kind' = "map" PROVE MapInv'
  BY DEF MapInv
<1>1. CASE SendMap
  <2>1. PICK entries \in BoundedSeq([key : MapKeys, value : Elements], MaxLength) :
           Send("map", entries, BuildEntries(entries))
    BY <1>1 DEF SendMap
  <2>2. entries \in Seq(Entries)
    BY BoundedAreSequences DEF Entries
  <2>3. /\ AreKeys(BuildEntries(entries).keys, entries)
        /\ AreMessages(BuildEntries(entries).values, ValuesIn(entries))
    BY <2>2, BuildsEntries
  <2>4. /\ kind' = "map" /\ written' = entries /\ message' = BuildEntries(entries)
        /\ stage' = "sent"
    BY <2>1 DEF Send
  <2> QED
    BY <2>2, <2>3, <2>4 DEF MapInv, PairsStayTogether, Done
<1>2. CASE ServeMap
  <2> DEFINE PairsOf(values) == [i \in DOMAIN values |-> <<message.keys[i], values[i]>>]
  <2>1. PICK values \in AllAnswers(message.values) :
           Answer({[c \in DOMAIN pieces |-> ChunkOf(pieces[c])] : pieces \in Pieces(PairsOf(values))})
    BY <1>2 DEF ServeMap
  <2>2. /\ kind = "map" /\ stage = "sent" /\ stage' = "answered" /\ written' = written
        /\ message' \in {[c \in DOMAIN pieces |-> ChunkOf(pieces[c])] : pieces \in Pieces(PairsOf(values))}
    BY <1>2, <2>1 DEF ServeMap, Answer
  <2>3. /\ written \in Seq(Entries)
        /\ AreKeys(message.keys, written)
        /\ AreMessages(message.values, ValuesIn(written))
    BY <2>2 DEF MapInv
  <2> DEFINE pairs == PairsOf(values)
  <2>4. AreEntries(pairs, written)
    <3>1. AreEntries([i \in DOMAIN values |-> <<message.keys[i], values[i]>>], written)
      <4> DEFINE keys == message.keys
                 ms == message.values
      <4>1. /\ written \in Seq(Entries) /\ values \in AllAnswers(ms)
            /\ AreKeys(keys, written)
            /\ AreMessages(ms, ValuesIn(written))
        BY <2>1, <2>3, Zenon
      <4> HIDE DEF keys, ms
      <4>2. AreEntries([i \in DOMAIN values |-> <<keys[i], values[i]>>], written)
        BY ONLY <4>1, AnswersEntries, Zenon
      <4> QED
        BY <4>2 DEF keys
    <3> QED
      BY <3>1
  <2>5. PICK pieces \in Pieces(pairs) : message' = ChunksOf(pieces)
    BY <2>2 DEF ChunksOf
  <2> HIDE DEF pairs, PairsOf
  <2>6. pairs \in Seq(ToSet(pairs))
    BY <2>4, Zenon DEF AreEntries
  <2>7. FlattenSeq(pieces) = pairs /\ pieces \in Seq(Seq(ToSet(pairs)))
    BY <2>6, PiecesFlatten, Zenon
  <2>8. PiecesOf(message') = pieces
    BY <2>3, <2>4, <2>5, <2>7, EntriesArePairs, PiecesBack, Zenon
  <2>9. PairsStayTogether'
    BY <2>2 DEF PairsStayTogether, Done
  <2> QED
    BY <2>2, <2>3, <2>4, <2>5, <2>7, <2>8, <2>9, Zenon DEF MapInv
<1>3. CASE Read("map", ReadMap(message))
  <2> DEFINE pieces == PiecesOf(message)
             pairs == FlattenSeq(pieces)
             sent == FlattenSeq([c \in DOMAIN message |-> message[c].values])
  <2>1. /\ kind = "map" /\ stage = "answered" /\ stage' = "read" /\ written' = written
        /\ message' = message /\ got' = ReadMap(message)
    BY <1>3 DEF Read
  <2>2. /\ written \in Seq(Entries) /\ pieces \in Pieces(pairs) /\ message = ChunksOf(pieces)
        /\ AreEntries(pairs, written)
    BY <2>1 DEF MapInv
  <2>3. pairs \in Seq(ToSet(pairs))
    BY <2>2, Zenon DEF AreEntries
  <2> HIDE DEF pieces, pairs
  <2>4. sent = [i \in DOMAIN pairs |-> pairs[i][2]]
    <3>1. FlattenSeq([c \in DOMAIN ChunksOf(pieces) |-> ChunksOf(pieces)[c].values]) =
             [i \in DOMAIN pairs |-> pairs[i][2]]
      BY <2>2, <2>3, ValuesOfChunks, Zenon
    <3> QED
      BY <2>2, <3>1, Zenon
  <2> HIDE DEF sent
  <2>5. ReadMap(message) =
           NonNull([i \in DOMAIN written |-> IF pairs[i][2].case = "NOT_SET" THEN Null ELSE written[i]])
    BY <2>2, ReadsMap, Zenon
  <2>6. Len(sent) = Len(written) /\ \A i \in DOMAIN written : sent[i] = pairs[i][2]
    <3>1. Len(pairs) = Len(written)
      BY <2>2, Zenon DEF AreEntries
    <3>2. DOMAIN pairs = DOMAIN written
      BY <2>2, <2>3, <3>1, PositionsOf, Zenon
    <3>3. Len(sent) = Len(pairs)
      BY <2>3, <2>4
    <3> QED
      BY <2>4, <3>1, <3>2, <3>3
  <2>7. [i \in DOMAIN written |-> IF pairs[i][2].case = "NOT_SET" THEN Null ELSE written[i]] =
        [i \in DOMAIN written |-> IF sent[i].case = "NOT_SET" THEN Null ELSE written[i]]
    BY <2>6
  <2>8. PairsStayTogether'
    BY <2>1, <2>5, <2>6, <2>7, Zenon DEF PairsStayTogether, sent
  <2> QED
    BY <2>1, <2>2, <2>8 DEF MapInv
<1>4. CASE Untouched
  BY <1>4 DEF MapInv, PairsStayTogether, Done, Untouched
<1> QED
  BY <1>1, <1>2, <1>3, <1>4, StepsByKind

-----------------------------------------------------------------------------
(* The theorems.                                                            *)

LEMMA Invariance == Spec => []IInv
<1>1. Init => IInv
  BY DEF Init, IInv, ValueInv, KeyInv, OrderedInv, ListInv, MapInv, ClockInv, TtlInv, AtomicInv
<1>2. IInv /\ [Next]_vars => IInv'
  BY ValueStep, AtomicStep, KeyStep, OrderedStep, ListStep, MapStep, ClockStep, TtlStep DEF IInv
<1> QED
  BY <1>1, <1>2, PTL DEF Spec

(***************************************************************************)
(* A value that was created or updated is read back as it was written,     *)
(* whatever its size, its compression, the cut of its payload and what the *)
(* server says of its type.                                                *)
(***************************************************************************)
THEOREM ValuesSurvive == Spec => []ValueRoundTrip
<1>1. IInv => ValueRoundTrip
  BY DEF IInv, ValueInv, ValueRoundTrip, Done
<1> QED
  BY <1>1, Invariance, PTL

(***************************************************************************)
(* An atomic operation sends every integer as it is and every double       *)
(* without its fraction, in whatever fixed point it is given.              *)
(***************************************************************************)
THEOREM OperandsTruncate == Spec => []AtomicOperandAsSent
<1>1. IInv => AtomicOperandAsSent
  BY DEF IInv, AtomicInv, SentAs, AtomicOperandAsSent, Done
<1> QED
  BY <1>1, Invariance, PTL

(***************************************************************************)
(* A key is read back as it was written, with its own hint, whether or not *)
(* it was compressed.                                                      *)
(***************************************************************************)
THEOREM KeysSurvive == Spec => []KeyRoundTrip
<1>1. IInv => KeyRoundTrip
  BY DEF IInv, KeyInv, KeyRoundTrip, Done
<1> QED
  BY <1>1, Invariance, PTL

(***************************************************************************)
(* An ordered value of bytes is read back as it was written or not at all. *)
(***************************************************************************)
THEOREM OrderedValuesSurvive == Spec => []OrderedNeverGarbled
<1>1. IInv => OrderedNeverGarbled
  BY DEF IInv, OrderedInv, OrderedNeverGarbled, Done
<1> QED
  BY <1>1, Invariance, PTL

(***************************************************************************)
(* A list of any length that is streamed back in any number of messages    *)
(* has its elements in their order, null where one could not be read.      *)
(***************************************************************************)
THEOREM ListsSurvive == Spec => []ListRoundTrip
<1>1. IInv => ListRoundTrip
  BY DEF IInv, ListInv, ListRoundTrip, Done
<1> QED
  BY <1>1, Invariance, PTL

(***************************************************************************)
(* A map of any size that is streamed back in any number of messages has   *)
(* its pairs, but for those whose value could not be read.                 *)
(***************************************************************************)
THEOREM PairsSurvive == Spec => []PairsStayTogether
<1>1. IInv => PairsStayTogether
  BY DEF IInv, MapInv, PairsStayTogether, Done
<1> QED
  BY <1>1, Invariance, PTL

(***************************************************************************)
(* getTtl yields what is left of the ttl a create or setTtl was passed, if *)
(* the server keeps the time that was sent, for every ttl and every time   *)
(* of asking.                                                              *)
(***************************************************************************)
THEOREM TtlsAreKept == Spec => []ExpiryAsAsked
<1>1. IInv => ExpiryAsAsked
  BY DEF IInv, TtlInv, ExpiryAsAsked, Done
<1> QED
  BY <1>1, Invariance, PTL

=============================================================================

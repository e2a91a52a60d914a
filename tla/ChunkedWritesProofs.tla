------------------------ MODULE ChunkedWritesProofs ------------------------
(***************************************************************************)
(* Proofs about ChunkedWrites, for any operations, elements, sizes and     *)
(* thresholds: the buffers outlive the requests that are built from them;  *)
(* the splitters are greedy and lose nothing; a success has counted every  *)
(* element once; undisturbed, a write in chunks is one write; disturbed,   *)
(* what has arrived is a beginning of the data, in order.                  *)
(***************************************************************************)
EXTENDS ChunkedWrites, SequenceLemmas

\* Every operation copies its arguments: all of them but removeFromContainer(keys, values).
CopiesArguments == \A w \in Writes : w.kind # "remove"

\* A call is under way only in a pipeline that waits for it.
AwaitedInv == attempt # "none" => outcome = "running"

\* With it, the copies the call reads are the pipeline's.
OwnedInv == AwaitedInv /\ write.kind # "remove"

(***************************************************************************)
(* Every pipeline starts, and every operation that is a single call has    *)
(* started it, with nothing freed.                                         *)
(***************************************************************************)
LEMMA StartsOwned == CopiesArguments /\ Init => OwnedInv
BY DEF CopiesArguments, Init, OwnedInv, AwaitedInv

(***************************************************************************)
(* runAddPipeline waits for each call: a step that ends the pipeline finds *)
(* no call under way, or is the failure of that call.                      *)
(***************************************************************************)
LEMMA StaysOwned == OwnedInv /\ [Next]_vars => OwnedInv'
<1> SUFFICES ASSUME OwnedInv, [Next]_vars
             PROVE  OwnedInv'
    OBVIOUS
<1> USE DEF OwnedInv, AwaitedInv
<1>1. CASE Submit
      BY <1>1 DEF Submit
<1>2. CASE CallReturns
      BY <1>2 DEF CallReturns
<1>3. CASE CallUnavailable
      BY <1>3 DEF CallUnavailable
<1>4. CASE CallFails
      BY <1>4 DEF CallFails
<1>5. CASE PipelineEnds
      BY <1>5 DEF PipelineEnds
<1>6. CASE CallerFrees \/ ForeignWrite
      BY <1>6 DEF CallerFrees, ForeignWrite
<1>7. CASE UNCHANGED vars
      BY <1>7 DEF vars
<1> QED
    BY <1>1, <1>2, <1>3, <1>4, <1>5, <1>6, <1>7 DEF Next, PipelineStep

(***************************************************************************)
(* No request, and no repetition of one, is built from a buffer that was   *)
(* freed, whenever the caller frees its arguments (smart_client.cpp:14).   *)
(***************************************************************************)
THEOREM BuffersOutliveCalls ==
    ASSUME CopiesArguments
    PROVE  Spec => []NoDanglingRead
<1>1. Init => OwnedInv
      BY StartsOwned, CopiesArguments
<1>2. OwnedInv /\ [Next]_vars => OwnedInv'
      BY StaysOwned
<1>3. OwnedInv => NoDanglingRead
      BY DEF OwnedInv, AwaitedInv, NoDanglingRead, Reads, Live
<1> QED
    BY <1>1, <1>2, <1>3, PTL DEF Spec

-----------------------------------------------------------------------------
(* Sums of sizes.                                                           *)

\* Sizes are natural numbers for the elements of E.
Sized(E, sizeOf) == \A e \in E : sizeOf[e] \in Nat

\* f[n] is the sum of the first n sizes.
Sums(f, items, sizeOf) ==
    f = [n \in 0 .. Len(items) |-> IF n = 0 THEN 0 ELSE f[n - 1] + sizeOf[items[n]]]

LEMMA SumBySteps ==
    ASSUME NEW E, NEW items \in Seq(E), NEW sizeOf, Sized(E, sizeOf)
    PROVE  \E f \in [0 .. Len(items) -> Nat] : Sums(f, items, sizeOf) /\ SumOf(items, sizeOf) = f[Len(items)]
<1> DEFINE N == Len(items)
           step == [n \in 1 .. N |-> [sum \in Nat |-> sum + sizeOf[items[n]]]]
           g == CHOOSE f : Sums(f, items, sizeOf)
<1>1. N \in Nat /\ \A n \in 1 .. N : sizeOf[items[n]] \in Nat
  BY DEF Sized
<1>2. SumOf(items, sizeOf) = g[N]
  BY DEF SumOf, Sums
<1>3. \E f : Sums(f, items, sizeOf)
  <2>1. step \in [1 .. N -> [Nat -> Nat]]
    BY <1>1
  <2>2. PICK f \in [0 .. N -> Nat] : Recursion(f, N, 0, step)
    <3> HIDE DEF step, N
    <3> QED
      BY <1>1, <2>1, RecursionExists
  <2>3. \A n \in 0 .. N : n # 0 => n - 1 \in 0 .. N /\ n \in 1 .. N
    BY <1>1
  <2>4. \A n \in 0 .. N : n # 0 => step[n][f[n - 1]] = f[n - 1] + sizeOf[items[n]]
    BY <1>1, <2>2, <2>3
  <2> HIDE DEF step
  <2>5. f = [n \in 0 .. N |-> IF n = 0 THEN 0 ELSE f[n - 1] + sizeOf[items[n]]]
    BY <2>2, <2>4 DEF Recursion
  <2> QED
    BY <2>5 DEF Sums
<1>4. Sums(g, items, sizeOf)
  BY <1>3
<1> HIDE DEF g, step
<1>5. g = [n \in 0 .. N |-> g[n]] /\ g[0] = 0
      /\ \A n \in 0 .. N : n # 0 => g[n] = g[n - 1] + sizeOf[items[n]]
  BY <1>1, <1>4 DEF Sums
<1> DEFINE T == {n \in Nat : n <= N => g[n] \in Nat}
<1>6. \A n \in Nat : n \in T
  <2>1. 0 \in T
    BY <1>5
  <2>2. ASSUME NEW n \in Nat, n \in T PROVE n + 1 \in T
    <3> SUFFICES ASSUME n + 1 <= N PROVE g[n + 1] \in Nat
      OBVIOUS
    <3>1. n + 1 \in 0 .. N /\ n + 1 \in 1 .. N /\ n + 1 # 0 /\ n + 1 - 1 = n
      BY <1>1
    <3>2. g[n + 1] = g[n] + sizeOf[items[n + 1]]
      BY <1>5, <3>1
    <3>3. g[n] \in Nat /\ sizeOf[items[n + 1]] \in Nat
      BY <1>1, <2>2, <3>1
    <3> QED
      BY <3>2, <3>3
  <2> HIDE DEF T
  <2> QED
    BY <2>1, <2>2, Induction
<1>7. g \in [0 .. N -> Nat]
  <2>1. \A n \in 0 .. N : g[n] \in Nat
    BY <1>1, <1>6
  <2> QED
    BY <1>5, <2>1
<1> QED
  BY <1>2, <1>4, <1>7

LEMMA SumTypes ==
    ASSUME NEW E, NEW items \in Seq(E), NEW sizeOf, Sized(E, sizeOf)
    PROVE  SumOf(items, sizeOf) \in Nat
<1>1. PICK f \in [0 .. Len(items) -> Nat] : SumOf(items, sizeOf) = f[Len(items)]
  BY SumBySteps
<1> QED
  BY <1>1

LEMMA SumEmpty ==
    ASSUME NEW sizeOf
    PROVE  SumOf(<<>>, sizeOf) = 0
<1>1. Sized({}, sizeOf) /\ <<>> \in Seq({})
  BY DEF Sized
<1>2. PICK f \in [0 .. Len(<<>>) -> Nat] : Sums(f, <<>>, sizeOf) /\ SumOf(<<>>, sizeOf) = f[Len(<<>>)]
  BY <1>1, SumBySteps
<1>3. f[0] = 0
  BY <1>2 DEF Sums
<1> QED
  BY <1>2, <1>3

LEMMA SumAppend ==
    ASSUME NEW E, NEW items \in Seq(E), NEW e \in E, NEW sizeOf, Sized(E, sizeOf)
    PROVE  SumOf(Append(items, e), sizeOf) = SumOf(items, sizeOf) + sizeOf[e]
<1> DEFINE N == Len(items)
           more == Append(items, e)
<1>1. /\ N \in Nat /\ more \in Seq(E) /\ Len(more) = N + 1 /\ more[N + 1] = e
      /\ \A n \in 1 .. N : more[n] = items[n]
  OBVIOUS
<1>2. PICK f \in [0 .. N -> Nat] : Sums(f, items, sizeOf) /\ SumOf(items, sizeOf) = f[N]
  BY SumBySteps
<1>3. PICK g \in [0 .. N + 1 -> Nat] : Sums(g, more, sizeOf) /\ SumOf(more, sizeOf) = g[N + 1]
  <2> HIDE DEF more, N
  <2> QED
    BY <1>1, SumBySteps
<1> HIDE DEF more, N
<1>4. f[0] = 0 /\ \A n \in 1 .. N : f[n] = f[n - 1] + sizeOf[items[n]]
  BY <1>1, <1>2 DEF Sums, N
<1>5. g[0] = 0 /\ \A n \in 1 .. N + 1 : g[n] = g[n - 1] + sizeOf[more[n]]
  BY <1>1, <1>3 DEF Sums
<1> DEFINE T == {n \in Nat : n <= N => f[n] = g[n]}
<1>6. N \in T
  <2>1. 0 \in T
    BY <1>4, <1>5
  <2>2. ASSUME NEW n \in Nat, n \in T PROVE n + 1 \in T
    <3> SUFFICES ASSUME n + 1 <= N PROVE f[n + 1] = g[n + 1]
      OBVIOUS
    <3>1. n + 1 \in 1 .. N /\ n + 1 \in 1 .. N + 1 /\ n + 1 - 1 = n /\ n <= N
      BY <1>1
    <3>2. f[n + 1] = f[n] + sizeOf[items[n + 1]]
      BY <1>4, <3>1
    <3>3. g[n + 1] = g[n] + sizeOf[more[n + 1]]
      BY <1>5, <3>1
    <3>4. f[n] = g[n] /\ more[n + 1] = items[n + 1]
      BY <1>1, <2>2, <3>1
    <3> QED
      BY <3>2, <3>3, <3>4
  <2> HIDE DEF T
  <2> QED
    BY <1>1, <2>1, <2>2, Induction
<1>7. g[N + 1] = g[N] + sizeOf[e]
  <2>1. N + 1 \in 1 .. N + 1 /\ N + 1 - 1 = N
    BY <1>1
  <2> QED
    BY <1>1, <1>5, <2>1
<1> QED
  BY <1>1, <1>2, <1>3, <1>6, <1>7 DEF more

-----------------------------------------------------------------------------
(* The splitters: the loop of partitionValueChunks, one element at a time.  *)

States(E) == [chunks : Seq(Seq(E)), chunk : Seq(E), size : Nat]

Start(base) == [chunks |-> <<>>, chunk |-> <<>>, size |-> base]

\* f[n] is the state of the loop after n elements.
Loop(f, items, sizeOf, base) ==
    f = [n \in 0 .. Len(items) |->
            IF n = 0 THEN [chunks |-> <<>>, chunk |-> <<>>, size |-> base]
            ELSE Take(f[n - 1], items[n], sizeOf[items[n]], base)]

\* What the loop leaves becomes the last chunk.
Closed(acc) == IF acc.chunk = <<>> THEN acc.chunks ELSE Append(acc.chunks, acc.chunk)

\* The two ways to take an element.
LEMMA TakeCases ==
    ASSUME NEW E, NEW acc \in States(E), NEW e \in E, NEW elem \in Nat, NEW base \in Nat
    PROVE  LET next == Take(acc, e, elem, base)
           IN  \/ /\ acc.chunk # <<>> /\ acc.size + elem > MaxRpcSize
                  /\ next = [chunks |-> Append(acc.chunks, acc.chunk), chunk |-> <<e>>, size |-> base + elem]
               \/ /\ acc.chunk = <<>> \/ acc.size + elem <= MaxRpcSize
                  /\ next = [chunks |-> acc.chunks, chunk |-> Append(acc.chunk, e), size |-> acc.size + elem]
<1>1. MaxRpcSize \in Nat /\ acc.size + elem \in Nat
  BY ChunkAssumption DEF States
<1> QED
  BY <1>1 DEF Take

LEMMA TakeTypes ==
    ASSUME NEW E, NEW acc \in States(E), NEW e \in E, NEW elem \in Nat, NEW base \in Nat
    PROVE  Take(acc, e, elem, base) \in States(E)
<1>1. <<e>> \in Seq(E) /\ Append(acc.chunk, e) \in Seq(E) /\ Append(acc.chunks, acc.chunk) \in Seq(Seq(E))
  BY DEF States
<1>2. acc.size + elem \in Nat /\ base + elem \in Nat /\ acc.chunks \in Seq(Seq(E))
  BY DEF States
<1>3. \A x \in Seq(Seq(E)), y \in Seq(E), n \in Nat : [chunks |-> x, chunk |-> y, size |-> n] \in States(E)
  BY DEF States
<1>4. acc.chunks \in Seq(Seq(E)) /\ acc.chunk \in Seq(E)
  BY DEF States
<1> DEFINE opened == [chunks |-> Append(acc.chunks, acc.chunk), chunk |-> <<e>>, size |-> base + elem]
           grown == [chunks |-> acc.chunks, chunk |-> Append(acc.chunk, e), size |-> acc.size + elem]
<1>5. opened \in States(E) /\ grown \in States(E)
  BY <1>1, <1>2, <1>3
<1>6. Take(acc, e, elem, base) \in {opened, grown}
  BY TakeCases
<1> QED
  BY <1>5, <1>6

LEMMA PartitionBySteps ==
    ASSUME NEW E, NEW items \in Seq(E), NEW sizeOf, Sized(E, sizeOf), NEW base \in Nat
    PROVE  \E f \in [0 .. Len(items) -> States(E)] :
              /\ f[0] = Start(base)
              /\ \A n \in 1 .. Len(items) : f[n] = Take(f[n - 1], items[n], sizeOf[items[n]], base)
              /\ Partition(items, sizeOf, base) = Closed(f[Len(items)])
<1> DEFINE N == Len(items)
           step == [n \in 1 .. N |-> [acc \in States(E) |-> Take(acc, items[n], sizeOf[items[n]], base)]]
           g == CHOOSE f : Loop(f, items, sizeOf, base)
<1>1. N \in Nat /\ \A n \in 1 .. N : items[n] \in E /\ sizeOf[items[n]] \in Nat
  BY DEF Sized
<1>2. Partition(items, sizeOf, base) = Closed(g[N])
  BY DEF Partition, Loop, Closed
<1>3. step \in [1 .. N -> [States(E) -> States(E)]]
  BY <1>1, TakeTypes
<1>4. Start(base) \in States(E)
  BY DEF Start, States
<1>5. PICK f \in [0 .. N -> States(E)] : Recursion(f, N, Start(base), step)
  <2> HIDE DEF step, N
  <2> QED
    BY <1>1, <1>3, <1>4, RecursionExists
<1>6. \A n \in 0 .. N : n # 0 => n - 1 \in 0 .. N /\ n \in 1 .. N
  BY <1>1
<1>7. \A n \in 0 .. N : n # 0 => step[n][f[n - 1]] = Take(f[n - 1], items[n], sizeOf[items[n]], base)
  BY <1>1, <1>5, <1>6
<1> HIDE DEF step, N, g
<1>8. f[0] = Start(base) /\ \A n \in 1 .. N : f[n] = Take(f[n - 1], items[n], sizeOf[items[n]], base)
  <2>1. f = [n \in 0 .. N |-> IF n = 0 THEN Start(base) ELSE step[n][f[n - 1]]]
    BY <1>5 DEF Recursion
  <2>2. f[0] = Start(base)
    <3>1. 0 \in 0 .. N
      BY <1>1
    <3> QED
      BY <2>1, <3>1
  <2>3. ASSUME NEW n \in 1 .. N PROVE f[n] = Take(f[n - 1], items[n], sizeOf[items[n]], base)
    <3>1. n \in 0 .. N /\ n # 0
      BY <1>1
    <3>2. f[n] = step[n][f[n - 1]]
      BY <2>1, <3>1
    <3> QED
      BY <1>7, <3>1, <3>2
  <2> QED
    BY <2>2, <2>3
<1>9. Loop(f, items, sizeOf, base)
  <2>1. f = [n \in 0 .. N |-> f[n]]
    BY <1>5
  <2>2. \A n \in 0 .. N : f[n] = IF n = 0 THEN Start(base)
                                 ELSE Take(f[n - 1], items[n], sizeOf[items[n]], base)
    BY <1>6, <1>8
  <2>3. f = [n \in 0 .. N |-> IF n = 0 THEN Start(base)
                              ELSE Take(f[n - 1], items[n], sizeOf[items[n]], base)]
    BY <2>1, <2>2
  <2> QED
    BY <2>3 DEF Loop, Start, N
<1>10. Loop(g, items, sizeOf, base)
  BY <1>9 DEF g
<1>11. g[0] = Start(base) /\ \A n \in 1 .. N : g[n] = Take(g[n - 1], items[n], sizeOf[items[n]], base)
  <2>1. g = [n \in 0 .. N |-> IF n = 0 THEN Start(base)
                              ELSE Take(g[n - 1], items[n], sizeOf[items[n]], base)]
    BY <1>10 DEF Loop, Start, N
  <2> QED
    BY <1>1, <2>1
<1> DEFINE T == {n \in Nat : n <= N => f[n] = g[n]}
<1>12. N \in T
  <2>1. 0 \in T
    BY <1>8, <1>11
  <2>2. ASSUME NEW n \in Nat, n \in T PROVE n + 1 \in T
    <3> SUFFICES ASSUME n + 1 <= N PROVE f[n + 1] = g[n + 1]
      OBVIOUS
    <3>1. n + 1 \in 1 .. N /\ n + 1 - 1 = n /\ n <= N
      BY <1>1
    <3>2. f[n + 1] = Take(f[n], items[n + 1], sizeOf[items[n + 1]], base)
      BY <1>8, <3>1
    <3>3. g[n + 1] = Take(g[n], items[n + 1], sizeOf[items[n + 1]], base)
      BY <1>11, <3>1
    <3>4. f[n] = g[n]
      BY <2>2, <3>1
    <3> QED
      BY <3>2, <3>3, <3>4
  <2> HIDE DEF T
  <2> QED
    BY <1>1, <2>1, <2>2, Induction
<1>13. f[N] = g[N]
  BY <1>1, <1>12
<1> QED
  BY <1>2, <1>5, <1>8, <1>13 DEF N

\* A chunk of several elements fits an RPC; e does not fit chunk c any more.
Fits(c, sizeOf, base)     == c # <<>> /\ (Len(c) > 1 => base + SumOf(c, sizeOf) <= MaxRpcSize)
Full(c, e, sizeOf, base)  == base + SumOf(Append(c, e), sizeOf) > MaxRpcSize

ClosedInv(chunks, sizeOf, base) ==
    \A i \in 1 .. Len(chunks) :
       /\ Fits(chunks[i], sizeOf, base)
       /\ i > 1 => Full(chunks[i - 1], chunks[i][1], sizeOf, base)

\* The loop has taken the elements of done.
LoopInv(acc, done, sizeOf, base) ==
    /\ FlattenSeq(acc.chunks) \o acc.chunk = done
    /\ acc.size = base + SumOf(acc.chunk, sizeOf)
    /\ acc.chunk = <<>> => acc.chunks = <<>>
    /\ acc.chunk # <<>> => Fits(acc.chunk, sizeOf, base)
    /\ ClosedInv(acc.chunks, sizeOf, base)
    /\ acc.chunks # <<>> => Full(acc.chunks[Len(acc.chunks)], acc.chunk[1], sizeOf, base)

LEMMA StartLoop ==
    ASSUME NEW sizeOf, NEW base \in Nat
    PROVE  LoopInv(Start(base), <<>>, sizeOf, base)
<1>1. FlattenSeq(<<>>) \o <<>> = <<>>
  <2>1. FlattenSeq(<<>>) = <<>>
    BY FlattenEmpty
  <2>2. <<>> \o <<>> = <<>>
    OBVIOUS
  <2> QED
    BY <2>1, <2>2, Zenon
<1>2. base = base + SumOf(<<>>, sizeOf)
  BY SumEmpty
<1>3. ClosedInv(<<>>, sizeOf, base)
  BY DEF ClosedInv
<1> QED
  BY <1>1, <1>2, <1>3 DEF Start, LoopInv

\* Closing a full chunk keeps the closed ones in order.
LEMMA CloseChunk ==
    ASSUME NEW E, NEW chunks \in Seq(Seq(E)), NEW chunk \in Seq(E), NEW sizeOf, NEW base \in Nat,
           ClosedInv(chunks, sizeOf, base), Fits(chunk, sizeOf, base),
           chunks # <<>> => Full(chunks[Len(chunks)], chunk[1], sizeOf, base)
    PROVE  ClosedInv(Append(chunks, chunk), sizeOf, base)
<1> DEFINE N == Len(chunks)
           more == Append(chunks, chunk)
<1>1. /\ N \in Nat /\ Len(more) = N + 1 /\ more[N + 1] = chunk
      /\ \A i \in 1 .. N : more[i] = chunks[i]
      /\ N > 0 => chunks # <<>>
  OBVIOUS
<1> HIDE DEF more
<1>2. ASSUME NEW i \in 1 .. N + 1
      PROVE  Fits(more[i], sizeOf, base) /\ (i > 1 => Full(more[i - 1], more[i][1], sizeOf, base))
  <2>1. CASE i = N + 1
    <3>1. i > 1 => more[i - 1] = chunks[N] /\ chunks # <<>>
      BY <1>1, <2>1
    <3> QED
      BY <1>1, <2>1, <3>1
  <2>2. CASE i # N + 1
    <3>1. i \in 1 .. N /\ (i > 1 => i - 1 \in 1 .. N)
      BY <1>1, <2>2
    <3>2. more[i] = chunks[i] /\ (i > 1 => more[i - 1] = chunks[i - 1])
      BY <1>1, <3>1
    <3> QED
      BY <3>1, <3>2 DEF ClosedInv
  <2> QED
    BY <2>1, <2>2
<1> QED
  BY <1>1, <1>2 DEF ClosedInv, more

LEMMA TakeKeepsLoop ==
    ASSUME NEW E, NEW sizeOf, Sized(E, sizeOf), NEW base \in Nat, NEW e \in E,
           NEW acc \in States(E), NEW done \in Seq(E), LoopInv(acc, done, sizeOf, base)
    PROVE  LoopInv(Take(acc, e, sizeOf[e], base), Append(done, e), sizeOf, base)
<1> DEFINE next == Take(acc, e, sizeOf[e], base)
<1>1. /\ acc.chunks \in Seq(Seq(E)) /\ acc.chunk \in Seq(E) /\ acc.size \in Nat
      /\ sizeOf[e] \in Nat /\ MaxRpcSize \in Nat
  BY ChunkAssumption DEF States, Sized
<1>2. /\ FlattenSeq(acc.chunks) \o acc.chunk = done
      /\ acc.size = base + SumOf(acc.chunk, sizeOf)
      /\ acc.chunk = <<>> => acc.chunks = <<>>
      /\ acc.chunk # <<>> => Fits(acc.chunk, sizeOf, base)
      /\ ClosedInv(acc.chunks, sizeOf, base)
      /\ acc.chunks # <<>> => Full(acc.chunks[Len(acc.chunks)], acc.chunk[1], sizeOf, base)
  BY DEF LoopInv
<1>3. /\ SumOf(acc.chunk, sizeOf) \in Nat
      /\ SumOf(Append(acc.chunk, e), sizeOf) = SumOf(acc.chunk, sizeOf) + sizeOf[e]
  BY <1>1, SumTypes, SumAppend
<1>4. FlattenSeq(acc.chunks) \in Seq(E)
  BY <1>1, FlattenTypes
<1>5. CASE /\ acc.chunk # <<>> /\ acc.size + sizeOf[e] > MaxRpcSize
           /\ next = [chunks |-> Append(acc.chunks, acc.chunk), chunk |-> <<e>>, size |-> base + sizeOf[e]]
  <2>1. FlattenSeq(Append(acc.chunks, acc.chunk)) \o <<e>> = Append(done, e)
    <3>1. FlattenSeq(Append(acc.chunks, acc.chunk)) = done
      BY <1>1, <1>2, FlattenAppend
    <3>2. done \o <<e>> = Append(done, e)
      OBVIOUS
    <3> QED
      BY <3>1, <3>2, Zenon
  <2>2. SumOf(<<e>>, sizeOf) = sizeOf[e]
    <3>1. <<e>> = Append(<<>>, e) /\ <<>> \in Seq(E)
      OBVIOUS
    <3>2. SumOf(Append(<<>>, e), sizeOf) = SumOf(<<>>, sizeOf) + sizeOf[e]
      BY <3>1, SumAppend
    <3>3. SumOf(<<>>, sizeOf) = 0
      BY SumEmpty
    <3> QED
      BY <1>1, <3>1, <3>2, <3>3
  <2>3. ClosedInv(Append(acc.chunks, acc.chunk), sizeOf, base)
    BY <1>1, <1>2, <1>5, CloseChunk
  <2>4. Fits(<<e>>, sizeOf, base)
    BY DEF Fits
  <2>5. Full(acc.chunk, e, sizeOf, base)
    BY <1>1, <1>2, <1>3, <1>5 DEF Full
  <2> DEFINE closed == Append(acc.chunks, acc.chunk)
  <2>6. closed[Len(closed)] = acc.chunk /\ <<e>>[1] = e /\ <<e>> # <<>>
    BY <1>1
  <2>7. next.chunks = closed /\ next.chunk = <<e>> /\ next.size = base + sizeOf[e]
    BY <1>5
  <2> HIDE DEF next, closed
  <2>8. LoopInv(next, Append(done, e), sizeOf, base)
    <3>1. next.chunks # <<>> => Full(next.chunks[Len(next.chunks)], next.chunk[1], sizeOf, base)
      BY <2>5, <2>6, <2>7
    <3>2. FlattenSeq(next.chunks) \o next.chunk = Append(done, e)
      BY <2>1, <2>7 DEF closed
    <3>3. ClosedInv(next.chunks, sizeOf, base)
      BY <2>3, <2>7 DEF closed
    <3> QED
      BY <2>2, <2>4, <2>6, <2>7, <3>1, <3>2, <3>3 DEF LoopInv
  <2> QED
    BY <2>8 DEF next
<1>6. CASE /\ acc.chunk = <<>> \/ acc.size + sizeOf[e] <= MaxRpcSize
           /\ next = [chunks |-> acc.chunks, chunk |-> Append(acc.chunk, e), size |-> acc.size + sizeOf[e]]
  <2>1. FlattenSeq(acc.chunks) \o Append(acc.chunk, e) = Append(done, e)
    <3>1. \A s, t \in Seq(E) : s \o Append(t, e) = Append(s \o t, e)
      OBVIOUS
    <3> QED
      BY <1>1, <1>2, <1>4, <3>1
  <2>2. acc.size + sizeOf[e] = base + SumOf(Append(acc.chunk, e), sizeOf)
    BY <1>1, <1>2, <1>3
  <2>3. Append(acc.chunk, e) # <<>>
    <3>1. Len(Append(acc.chunk, e)) # 0 /\ Len(<<>>) = 0
      BY <1>1
    <3> QED
      BY <3>1, Zenon
  <2>4. Fits(Append(acc.chunk, e), sizeOf, base)
    <3>1. acc.chunk = <<>> => Len(Append(acc.chunk, e)) = 1
      BY <1>1
    <3> QED
      BY <1>6, <2>2, <2>3, <3>1 DEF Fits
  <2>5. acc.chunk # <<>> => Append(acc.chunk, e)[1] = acc.chunk[1]
    BY <1>1
  <2> DEFINE grown == Append(acc.chunk, e)
  <2>6. next.chunks = acc.chunks /\ next.chunk = grown /\ next.size = acc.size + sizeOf[e]
    BY <1>6
  <2> HIDE DEF next, grown
  <2>7. LoopInv(next, Append(done, e), sizeOf, base)
    <3>1. next.chunks # <<>> => Full(next.chunks[Len(next.chunks)], next.chunk[1], sizeOf, base)
      BY <1>2, <2>5, <2>6 DEF grown
    <3>2. FlattenSeq(next.chunks) \o next.chunk = Append(done, e)
      BY <2>1, <2>6 DEF grown
    <3>3. next.size = base + SumOf(next.chunk, sizeOf) /\ Fits(next.chunk, sizeOf, base)
      BY <2>2, <2>4, <2>6 DEF grown
    <3>4. next.chunk # <<>> /\ ClosedInv(next.chunks, sizeOf, base)
      BY <1>2, <2>3, <2>6 DEF grown
    <3> QED
      BY <3>1, <3>2, <3>3, <3>4 DEF LoopInv
  <2> QED
    BY <2>7 DEF next
<1> QED
  BY <1>1, <1>5, <1>6, TakeCases

LEMMA ClosedIsGreedy ==
    ASSUME NEW E, NEW sizeOf, NEW base \in Nat, NEW items \in Seq(E),
           NEW acc \in States(E), LoopInv(acc, items, sizeOf, base)
    PROVE  GreedyChunks(Closed(acc), items, sizeOf, base)
<1>1. acc.chunks \in Seq(Seq(E)) /\ acc.chunk \in Seq(E)
  BY DEF States
<1>2. FlattenSeq(Closed(acc)) = items
  <2>1. FlattenSeq(acc.chunks) \o acc.chunk = items /\ FlattenSeq(acc.chunks) \in Seq(E)
    BY <1>1, FlattenTypes DEF LoopInv
  <2>2. CASE acc.chunk = <<>>
    <3>1. FlattenSeq(acc.chunks) \o <<>> = FlattenSeq(acc.chunks)
      BY <2>1
    <3> QED
      BY <2>1, <2>2, <3>1 DEF Closed
  <2>3. CASE acc.chunk # <<>>
    BY <1>1, <2>1, <2>3, FlattenAppend DEF Closed
  <2> QED
    BY <2>2, <2>3
<1>3. ClosedInv(Closed(acc), sizeOf, base)
  BY <1>1, CloseChunk DEF Closed, LoopInv
<1>4. Closed(acc) \in Seq(Seq(E))
  BY <1>1 DEF Closed
<1>5. DOMAIN Closed(acc) = 1 .. Len(Closed(acc))
  BY <1>4
<1> QED
  BY <1>2, <1>3, <1>5 DEF GreedyChunks, ClosedInv, Fits, Full

(***************************************************************************)
(* partitionValueChunks and its variants, for any elements and sizes: the  *)
(* chunks are the elements in their order, a chunk of several fits an RPC, *)
(* and none could have taken the next element.                             *)
(***************************************************************************)
THEOREM PartitionIsGreedy ==
    ASSUME NEW E, NEW items \in Seq(E), NEW sizeOf, Sized(E, sizeOf), NEW base \in Nat
    PROVE  GreedyChunks(Partition(items, sizeOf, base), items, sizeOf, base)
<1> DEFINE N == Len(items)
<1>1. PICK f \in [0 .. N -> States(E)] :
         /\ f[0] = Start(base)
         /\ \A n \in 1 .. N : f[n] = Take(f[n - 1], items[n], sizeOf[items[n]], base)
         /\ Partition(items, sizeOf, base) = Closed(f[N])
  BY PartitionBySteps
<1> DEFINE T == {n \in Nat : n <= N => LoopInv(f[n], SubSeq(items, 1, n), sizeOf, base)}
<1>2. N \in Nat /\ SubSeq(items, 1, N) = items /\ SubSeq(items, 1, 0) = <<>>
  OBVIOUS
<1>3. N \in T
  <2>1. 0 \in T
    BY <1>1, <1>2, StartLoop
  <2>2. ASSUME NEW n \in Nat, n \in T PROVE n + 1 \in T
    <3> SUFFICES ASSUME n + 1 <= N PROVE LoopInv(f[n + 1], SubSeq(items, 1, n + 1), sizeOf, base)
      OBVIOUS
    <3>1. n + 1 \in 1 .. N /\ n + 1 - 1 = n /\ n <= N /\ n \in 0 .. N /\ items[n + 1] \in E
      BY <1>2
    <3>2. f[n + 1] = Take(f[n], items[n + 1], sizeOf[items[n + 1]], base)
      BY <1>1, <3>1
    <3>3. SubSeq(items, 1, n + 1) = Append(SubSeq(items, 1, n), items[n + 1])
      BY <3>1
    <3>4. LoopInv(f[n], SubSeq(items, 1, n), sizeOf, base)
      BY <2>2, <3>1
    <3>5. f[n] \in States(E) /\ SubSeq(items, 1, n) \in Seq(E)
      BY <1>1, <3>1
    <3>6. LoopInv(Take(f[n], items[n + 1], sizeOf[items[n + 1]], base),
                  Append(SubSeq(items, 1, n), items[n + 1]), sizeOf, base)
      BY <3>1, <3>4, <3>5, TakeKeepsLoop
    <3> QED
      BY <3>2, <3>3, <3>6
  <2> HIDE DEF T, N
  <2> QED
    BY <1>2, <2>1, <2>2, Induction
<1> HIDE DEF N
<1>4. LoopInv(f[N], items, sizeOf, base) /\ f[N] \in States(E)
  <2>1. LoopInv(f[N], SubSeq(items, 1, N), sizeOf, base)
    BY <1>2, <1>3
  <2>2. LoopInv(f[N], items, sizeOf, base)
    BY <1>2, <2>1, Zenon
  <2>3. N \in 0 .. N
    BY <1>2
  <2> QED
    BY <1>1, <2>2, <2>3, Zenon
<1> QED
  BY <1>1, <1>4, ClosedIsGreedy

PairsOf == (DOMAIN Raw) \X (DOMAIN Raw \cup {NoValue})

LEMMA SizesAreNatural == Sized(DOMAIN Raw, Size)
BY ChunkAssumption DEF Sized, Size, SizeAbove

\* The entries of a map have sizes, whatever their values.
LEMMA EntriesAreSized ==
    ASSUME NEW entries \in Seq(PairsOf)
    PROVE  entries \in Seq(ToSet(entries)) /\ Sized(ToSet(entries), PairSize(entries))
<1>1. ToSet(entries) \subseteq PairsOf /\ \A i \in 1 .. Len(entries) : entries[i] \in ToSet(entries)
  BY DEF ToSet
<1>2. entries \in Seq(ToSet(entries))
  <2>1. entries = [i \in 1 .. Len(entries) |-> entries[i]] /\ Len(entries) \in Nat
    OBVIOUS
  <2>2. entries \in [1 .. Len(entries) -> ToSet(entries)]
    BY <1>1, <2>1
  <2> QED
    BY <2>1, <2>2
<1>3. ASSUME NEW e \in ToSet(entries) PROVE PairSize(entries)[e] \in Nat
  <2>1. e[1] \in DOMAIN Raw /\ (e[2] # NoValue => e[2] \in DOMAIN Raw)
    BY <1>1, <1>3 DEF PairsOf
  <2>2. Size[e[1]] \in Nat /\ (e[2] # NoValue => Size[e[2]] \in Nat) /\ PairOverhead \in Nat
    BY <2>1, SizesAreNatural, ChunkAssumption DEF Sized
  <2>3. PairSize(entries)[e] = Size[e[1]] + PairOverhead + IF e[2] = NoValue THEN 0 ELSE Size[e[2]]
    BY <1>3 DEF PairSize
  <2> QED
    BY <2>2, <2>3
<1> QED
  BY <1>2, <1>3 DEF Sized

LEMMA MapEntriesTypes ==
    ASSUME NEW w \in Writes
    PROVE  MapEntries(w) \in Seq(PairsOf) /\ Len(MapEntries(w)) = Len(w.data)
<1>1. w.data \in Seq(DOMAIN Raw) /\ w.values \in Seq(DOMAIN Raw) /\ Len(w.data) \in Nat
  BY ChunkAssumption
<1>2. \A i \in DOMAIN w.data : MapEntries(w)[i] \in PairsOf
  BY <1>1 DEF MapEntries, PairsOf
<1>3. MapEntries(w) = [i \in 1 .. Len(w.data) |-> MapEntries(w)[i]] /\ DOMAIN w.data = 1 .. Len(w.data)
  BY <1>1 DEF MapEntries
<1>4. MapEntries(w) \in [1 .. Len(w.data) -> PairsOf]
  BY ONLY <1>2, <1>3
<1>5. [1 .. Len(w.data) -> PairsOf] \subseteq Seq(PairsOf)
  BY ONLY <1>1
<1>6. DOMAIN MapEntries(w) = 1 .. Len(w.data)
  BY ONLY <1>4
<1>7. MapEntries(w) \in Seq(PairsOf)
  BY <1>4, <1>5, ZenonT(30)
<1>8. Len(MapEntries(w)) = Len(w.data)
  BY ONLY <1>1, <1>6, <1>7
<1> QED
  BY <1>7, <1>8

(***************************************************************************)
(* The chunks of every write are greedy (smart_client.cpp: the four        *)
(* splitters), those of a map by the size of a key and its value together. *)
(***************************************************************************)
THEOREM EveryWriteIsGreedy == Spec => []ChunksAreGreedy
<1>1. Init => write \in Writes
  BY DEF Init
<1>2. write \in Writes /\ [Next]_vars => (write \in Writes)'
  BY DEF Next, PipelineStep, Submit, CallReturns, CallUnavailable, CallFails, PipelineEnds,
         CallerFrees, ForeignWrite, vars
<1>3. ASSUME write \in Writes PROVE ChunksAreGreedy
  <2>1. write.data \in Seq(DOMAIN Raw) /\ write.values \in Seq(DOMAIN Raw)
    BY <1>3, ChunkAssumption
  <2>2. GreedyChunks(Chunks(write), write.data, Size, BaseSize)
    BY <2>1, SizesAreNatural, PartitionIsGreedy, ChunkAssumption DEF Chunks
  <2> DEFINE entries == MapEntries(write)
  <2>3. GreedyChunks(Partition(entries, PairSize(entries), BaseSize), entries, PairSize(entries), BaseSize)
    <3>1. entries \in Seq(PairsOf)
      BY <1>3, MapEntriesTypes
    <3> HIDE DEF entries
    <3> QED
      BY <3>1, EntriesAreSized, PartitionIsGreedy, ChunkAssumption
  <2> QED
    BY <2>2, <2>3 DEF ChunksAreGreedy
<1> QED
  BY <1>1, <1>2, <1>3, PTL DEF Spec

-----------------------------------------------------------------------------
(* What a call adds to the list.                                            *)

AnyElement == DOMAIN Raw \cup {Foreign}

FreeOps == {"tail", "weighted", "head"} \cup MapKinds \cup CreateKinds

\* Call c finds its place in s.
Applies(c, s) ==
    \/ c.op \in FreeOps
    \/ c.op = "position" /\ c.pos \in 0 .. Len(s)
    \/ c.op \in {"before", "after"} /\ c.pivot \in ToSet(s)

\* The elements of s are in t, which has n more.
GrowsBy(s, t, n) == t \in Seq(AnyElement) /\ Len(t) = Len(s) + n /\ ToSet(s) \subseteq ToSet(t)

LEMMA InsertGrows ==
    ASSUME NEW s \in Seq(AnyElement), NEW vals \in Seq(AnyElement), NEW i \in 0 .. Len(s)
    PROVE  GrowsBy(s, InsertBlock(s, i, vals), Len(vals)) /\ ToSet(vals) \subseteq ToSet(InsertBlock(s, i, vals))
<1> DEFINE a == SubSeq(s, 1, i)
           b == SubSeq(s, i + 1, Len(s))
           t == (a \o vals) \o b
<1>1. /\ a \in Seq(AnyElement) /\ Len(a) = i /\ \A j \in 1 .. i : a[j] = s[j]
      /\ b \in Seq(AnyElement) /\ Len(b) = Len(s) - i /\ \A j \in 1 .. Len(s) - i : b[j] = s[i + j]
  OBVIOUS
<1> HIDE DEF a, b
<1>2. /\ t \in Seq(AnyElement) /\ Len(t) = Len(s) + Len(vals)
      /\ \A j \in 1 .. i : t[j] = a[j]
      /\ \A j \in 1 .. Len(vals) : t[i + j] = vals[j]
      /\ \A j \in 1 .. Len(s) - i : t[i + Len(vals) + j] = b[j]
  <2> DEFINE u == a \o vals
  <2>1. /\ u \in Seq(AnyElement) /\ Len(u) = i + Len(vals)
        /\ \A j \in 1 .. i + Len(vals) : u[j] = IF j <= i THEN a[j] ELSE vals[j - i]
    <3>1. a \in Seq(AnyElement) /\ vals \in Seq(AnyElement) /\ Len(a) = i
      BY <1>1
    <3> QED
      BY ONLY <3>1, ConcatProperties
  <2> HIDE DEF u
  <2> DEFINE x == u \o b
  <2>2. /\ x \in Seq(AnyElement) /\ Len(x) = Len(u) + Len(b)
        /\ \A j \in 1 .. Len(u) + Len(b) : x[j] = IF j <= Len(u) THEN u[j] ELSE b[j - Len(u)]
    <3>1. u \in Seq(AnyElement) /\ b \in Seq(AnyElement)
      BY <1>1, <2>1
    <3> QED
      BY ONLY <3>1, ConcatProperties
  <2>3. t = x
    BY Zenon DEF u
  <2> HIDE DEF x
  <2>4. i \in Nat /\ Len(vals) \in Nat /\ Len(s) - i \in Nat
    OBVIOUS
  <2>5. ASSUME NEW j \in 1 .. i PROVE x[j] = a[j]
    <3>1. x[j] = u[j]
      <4>1. j \in 1 .. Len(u) + Len(b) /\ j <= Len(u)
        BY <1>1, <2>1, <2>4
      <4> QED
        BY ONLY <2>2, <4>1
    <3>2. u[j] = a[j]
      <4>1. j \in 1 .. i + Len(vals) /\ j <= i
        BY <2>4
      <4> QED
        BY ONLY <2>1, <4>1
    <3> QED
      BY <3>1, <3>2
  <2>6. ASSUME NEW j \in 1 .. Len(vals) PROVE x[i + j] = vals[j]
    <3>1. x[i + j] = u[i + j]
      <4>1. i + j \in 1 .. Len(u) + Len(b) /\ i + j <= Len(u)
        BY <1>1, <2>1, <2>4
      <4> QED
        BY <2>2, <4>1
    <3>2. i + j \in 1 .. i + Len(vals) /\ ~(i + j <= i) /\ (i + j) - i = j
      BY <2>4
    <3> QED
      BY <2>1, <3>1, <3>2
  <2>7. ASSUME NEW j \in 1 .. Len(s) - i PROVE x[i + Len(vals) + j] = b[j]
    <3>1. /\ i + Len(vals) + j \in 1 .. Len(u) + Len(b) /\ ~(i + Len(vals) + j <= Len(u))
          /\ (i + Len(vals) + j) - Len(u) = j
      BY <1>1, <2>1, <2>4
    <3> QED
      BY <2>2, <3>1
  <2>8. Len(x) = Len(s) + Len(vals)
    BY <1>1, <2>1, <2>2, <2>4
  <2> HIDE DEF t
  <2> QED
    BY <2>2, <2>3, <2>5, <2>6, <2>7, <2>8
<1>3. t = InsertBlock(s, i, vals)
  BY DEF InsertBlock, a, b
<1> HIDE DEF t
<1>4. ASSUME NEW j \in 1 .. Len(s) PROVE \E m \in 1 .. Len(t) : t[m] = s[j]
  <2>1. CASE j <= i
    BY <1>1, <1>2, <2>1
  <2>2. CASE j > i
    <3>1. j - i \in 1 .. Len(s) - i /\ i + (j - i) = j /\ i + Len(vals) + (j - i) \in 1 .. Len(t)
      BY <1>2, <2>2
    <3>2. t[i + Len(vals) + (j - i)] = b[j - i] /\ b[j - i] = s[i + (j - i)]
      BY <1>1, <1>2, <3>1
    <3> QED
      BY <3>1, <3>2
  <2> QED
    BY <2>1, <2>2
<1>5. ASSUME NEW j \in 1 .. Len(vals) PROVE \E m \in 1 .. Len(t) : t[m] = vals[j]
  <2>1. i + j \in 1 .. Len(t)
    BY <1>2
  <2> QED
    BY <1>2, <2>1
<1>6. ToSet(s) \subseteq ToSet(t) /\ ToSet(vals) \subseteq ToSet(t)
  <2>1. DOMAIN t = 1 .. Len(t) /\ DOMAIN s = 1 .. Len(s) /\ DOMAIN vals = 1 .. Len(vals)
    BY <1>2
  <2>2. ToSet(s) \subseteq ToSet(t)
    BY <1>4, <2>1, Zenon DEF ToSet
  <2>3. ToSet(vals) \subseteq ToSet(t)
    BY <1>5, <2>1, Zenon DEF ToSet
  <2> QED
    BY <2>2, <2>3
<1> QED
  BY <1>2, <1>3, <1>6 DEF GrowsBy

LEMMA FirstIndexProperty ==
    ASSUME NEW s \in Seq(AnyElement), NEW v \in ToSet(s)
    PROVE  FirstIndex(s, v) \in 1 .. Len(s)
<1> DEFINE at == {i \in 1 .. Len(s) : s[i] = v}
<1>1. at # {} /\ at \subseteq Nat
  BY DEF ToSet
<1>2. PICK i \in at : \A j \in at : i <= j
  BY <1>1, LeastNatural
<1>3. i \in DOMAIN s /\ s[i] = v /\ \A j \in 1 .. i - 1 : s[j] # v
  BY <1>2
<1> QED
  BY <1>3 DEF FirstIndex

LEMMA InsertAtEnds ==
    ASSUME NEW S, NEW s \in Seq(S), NEW vals \in Seq(S)
    PROVE  InsertBlock(s, Len(s), vals) = s \o vals /\ InsertBlock(s, 0, vals) = vals \o s
<1>1. /\ SubSeq(s, 1, Len(s)) = s /\ SubSeq(s, Len(s) + 1, Len(s)) = <<>>
      /\ SubSeq(s, 1, 0) = <<>> /\ 0 + 1 = 1
  OBVIOUS
<1>2. \A u \in Seq(S) : u \o <<>> = u /\ <<>> \o u = u
  OBVIOUS
<1>3. s \o vals \in Seq(S)
  BY ConcatProperties
<1>4. InsertBlock(s, Len(s), vals) = s \o vals
  BY <1>1, <1>2, <1>3, Zenon DEF InsertBlock
<1>5. InsertBlock(s, 0, vals) = vals \o s
  BY <1>1, <1>2, Zenon DEF InsertBlock
<1> QED
  BY <1>4, <1>5

LEMMA AppliedGrows ==
    ASSUME NEW c, NEW s \in Seq(AnyElement), c.vals \in Seq(AnyElement), Applies(c, s)
    PROVE  GrowsBy(s, Applied(c, s), Len(c.vals)) /\ ToSet(c.vals) \subseteq ToSet(Applied(c, s))
<1> DEFINE Goal(t) == GrowsBy(s, t, Len(c.vals)) /\ ToSet(c.vals) \subseteq ToSet(t)
<1>1. CASE c.op \in FreeOps
  <2>1. Goal(InsertBlock(s, Len(s), c.vals)) /\ Goal(InsertBlock(s, 0, c.vals))
    BY InsertGrows
  <2>2. InsertBlock(s, Len(s), c.vals) = s \o c.vals /\ InsertBlock(s, 0, c.vals) = c.vals \o s
    BY InsertAtEnds
  <2>3. Applied(c, s) = s \o c.vals \/ Applied(c, s) = c.vals \o s
    BY <1>1 DEF Applied, FreeOps, MapKinds, CreateKinds
  <2> HIDE DEF Goal
  <2>4. Goal(Applied(c, s))
    BY <2>1, <2>2, <2>3
  <2> QED
    BY <2>4 DEF Goal
<1>2. CASE c.op = "position" /\ c.pos \in 0 .. Len(s)
  <2>1. Applied(c, s) = InsertBlock(s, c.pos, c.vals)
    BY <1>2 DEF Applied, MapKinds, CreateKinds
  <2> QED
    BY <1>2, <2>1, InsertGrows
<1>3. CASE c.op \in {"before", "after"} /\ c.pivot \in ToSet(s)
  <2> DEFINE i == FirstIndex(s, c.pivot)
  <2>1. i \in 1 .. Len(s)
    BY <1>3, FirstIndexProperty
  <2>2. Applied(c, s) = AppliedAt(c, s)
    BY <1>3 DEF Applied, MapKinds, CreateKinds
  <2>3. AppliedAt(c, s) = InsertBlock(s, i - 1, c.vals) \/ AppliedAt(c, s) = InsertBlock(s, i, c.vals)
    BY <1>3 DEF AppliedAt
  <2> HIDE DEF i
  <2>4. i \in 0 .. Len(s) /\ i - 1 \in 0 .. Len(s)
    BY <2>1
  <2>5. Goal(InsertBlock(s, i - 1, c.vals)) /\ Goal(InsertBlock(s, i, c.vals))
    BY <2>4, InsertGrows
  <2> HIDE DEF Goal
  <2>6. Goal(Applied(c, s))
    BY <2>2, <2>3, <2>5
  <2> QED
    BY <2>6 DEF Goal
<1> QED
  BY <1>1, <1>2, <1>3 DEF Applies

\* A place that is there stays there while the list grows.
LEMMA StillApplies ==
    ASSUME NEW c, NEW s \in Seq(AnyElement), NEW n \in Nat, NEW t, GrowsBy(s, t, n), Applies(c, s)
    PROVE  Applies(c, t)
BY DEF Applies, GrowsBy

-----------------------------------------------------------------------------
(* The calls of a write that adds elements.                                 *)

\* The elements of each call.
Vals(all) == [i \in 1 .. Len(all) |-> all[i].vals]

\* Calls that carry the elements of each of chunks.
Carry(all, chunks) ==
    /\ all \in Seq(ToSet(all)) /\ chunks \in Seq(Seq(DOMAIN Raw))
    /\ Vals(all) = chunks

\* They are of operation op.
CarryBy(all, op, chunks) == Carry(all, chunks) /\ \A i \in 1 .. Len(all) : all[i].op = op

LEMMA CarryLength ==
    ASSUME NEW all, NEW chunks, Carry(all, chunks)
    PROVE  /\ Len(all) \in Nat /\ Len(chunks) = Len(all)
           /\ \A i \in 1 .. Len(all) : all[i].vals = chunks[i] /\ chunks[i] \in Seq(DOMAIN Raw)
<1>1. Len(all) \in Nat /\ chunks = [i \in 1 .. Len(all) |-> all[i].vals] /\ chunks \in Seq(Seq(DOMAIN Raw))
  BY DEF Carry, Vals
<1>2. Len(chunks) = Len(all) /\ \A i \in 1 .. Len(all) : chunks[i] = all[i].vals
  BY <1>1
<1> QED
  BY <1>1, <1>2

LEMMA PartitionTypes ==
    ASSUME NEW E, NEW items \in Seq(E), NEW sizeOf, Sized(E, sizeOf), NEW base \in Nat
    PROVE  /\ Partition(items, sizeOf, base) \in Seq(Seq(E))
           /\ FlattenSeq(Partition(items, sizeOf, base)) = items
<1> DEFINE chunks == Partition(items, sizeOf, base)
<1>1. PICK f \in [0 .. Len(items) -> States(E)] : chunks = Closed(f[Len(items)])
  BY PartitionBySteps
<1>2. f[Len(items)] \in States(E)
  OBVIOUS
<1>3. chunks \in Seq(Seq(E))
  <2> DEFINE acc == f[Len(items)]
  <2>1. acc.chunks \in Seq(Seq(E)) /\ acc.chunk \in Seq(E)
    BY <1>2 DEF States
  <2> HIDE DEF acc, chunks
  <2>2. chunks = Closed(acc)
    BY <1>1 DEF acc
  <2> QED
    BY <2>1, <2>2 DEF Closed
<1>4. FlattenSeq(chunks) = items
  BY PartitionIsGreedy DEF GreedyChunks
<1> QED
  BY <1>3, <1>4

LEMMA ElementPartitions ==
    ASSUME NEW items \in Seq(DOMAIN Raw), NEW base \in Nat
    PROVE  /\ Partition(items, Size, base) \in Seq(Seq(DOMAIN Raw))
           /\ FlattenSeq(Partition(items, Size, base)) = items
<1> DEFINE E == DOMAIN Raw
<1>1. items \in Seq(E) /\ Sized(E, Size)
  BY SizesAreNatural
<1> HIDE DEF E
<1>2. /\ Partition(items, Size, base) \in Seq(Seq(E))
      /\ FlattenSeq(Partition(items, Size, base)) = items
  BY <1>1, PartitionTypes
<1> QED
  BY <1>2 DEF E

LEMMA SameOpCalls ==
    ASSUME NEW op, NEW chunks \in Seq(Seq(DOMAIN Raw))
    PROVE  CarryBy(SameOp(op, chunks), op, chunks)
<1> DEFINE all == SameOp(op, chunks)
<1>1. /\ Len(chunks) \in Nat /\ DOMAIN chunks = 1 .. Len(chunks)
      /\ chunks = [i \in 1 .. Len(chunks) |-> chunks[i]]
  OBVIOUS
<1>2. \A i \in 1 .. Len(chunks) : all[i].op = op /\ all[i].vals = chunks[i]
  BY <1>1 DEF SameOp, Call
<1>3. all = [i \in 1 .. Len(chunks) |-> all[i]]
  BY <1>1 DEF SameOp
<1> HIDE DEF all
<1>4. all \in Seq(ToSet(all)) /\ Len(all) = Len(chunks)
  BY <1>1, <1>3, SeqOfItself
<1>5. Vals(all) = chunks
  BY <1>1, <1>2, <1>4 DEF Vals
<1> QED
  BY <1>2, <1>4, <1>5 DEF CarryBy, Carry, all

\* The keys of map entries.
Keys(entries) == [i \in DOMAIN entries |-> entries[i][1]]

LEMMA KeysTypes ==
    ASSUME NEW entries \in Seq(PairsOf)
    PROVE  Keys(entries) \in Seq(DOMAIN Raw) /\ Len(Keys(entries)) = Len(entries)
<1>1. /\ Len(entries) \in Nat /\ DOMAIN entries = 1 .. Len(entries)
      /\ \A i \in 1 .. Len(entries) : entries[i][1] \in DOMAIN Raw
  BY DEF PairsOf
<1> QED
  BY <1>1 DEF Keys

LEMMA KeysOfEntries ==
    ASSUME NEW w \in Writes
    PROVE  Keys(MapEntries(w)) = w.data
<1>1. w.data \in Seq(DOMAIN Raw)
  BY ChunkAssumption
<1>2. w.data = [i \in DOMAIN w.data |-> w.data[i]]
  BY <1>1
<1>3. Keys(MapEntries(w)) = [i \in DOMAIN w.data |-> w.data[i]]
  BY DEF Keys, MapEntries
<1> QED
  BY <1>2, <1>3

LEMMA KeysOfConcat ==
    ASSUME NEW s \in Seq(PairsOf), NEW t \in Seq(PairsOf)
    PROVE  Keys(s \o t) = Keys(s) \o Keys(t)
<1> DEFINE x == s \o t
           a == Keys(s)
           b == Keys(t)
           y == a \o b
<1>1. /\ a \in Seq(DOMAIN Raw) /\ Len(a) = Len(s) /\ b \in Seq(DOMAIN Raw) /\ Len(b) = Len(t)
  BY KeysTypes
<1>2. (\A i \in 1 .. Len(s) : a[i] = s[i][1]) /\ (\A i \in 1 .. Len(t) : b[i] = t[i][1])
  BY DEF Keys
<1> HIDE DEF a, b
<1>3. /\ x \in Seq(PairsOf) /\ Len(x) = Len(s) + Len(t)
      /\ \A i \in 1 .. Len(s) + Len(t) : x[i] = IF i <= Len(s) THEN s[i] ELSE t[i - Len(s)]
  BY ConcatProperties
<1>4. /\ y \in Seq(DOMAIN Raw) /\ Len(y) = Len(s) + Len(t)
      /\ \A i \in 1 .. Len(s) + Len(t) : y[i] = IF i <= Len(s) THEN a[i] ELSE b[i - Len(s)]
  <2>1. /\ a \o b \in Seq(DOMAIN Raw) /\ Len(a \o b) = Len(a) + Len(b)
        /\ \A i \in 1 .. Len(a) + Len(b) : (a \o b)[i] = IF i <= Len(a) THEN a[i] ELSE b[i - Len(a)]
    BY ONLY <1>1, ConcatProperties
  <2> QED
    BY <1>1, <2>1, Zenon
<1> HIDE DEF x, y
<1>5. Len(s) \in Nat /\ Len(t) \in Nat
  OBVIOUS
<1>6. Keys(x) = [i \in 1 .. Len(s) + Len(t) |-> x[i][1]] /\ y = [i \in 1 .. Len(s) + Len(t) |-> y[i]]
  BY <1>3, <1>4, <1>5 DEF Keys
<1>7. ASSUME NEW i \in 1 .. Len(s) + Len(t) PROVE x[i][1] = y[i]
  <2>1. CASE i <= Len(s)
    <3>1. i \in 1 .. Len(s)
      BY <1>5, <2>1
    <3> QED
      BY <1>2, <1>3, <1>4, <2>1, <3>1
  <2>2. CASE ~(i <= Len(s))
    <3>1. i - Len(s) \in 1 .. Len(t)
      BY <1>5, <2>2
    <3> QED
      BY <1>2, <1>3, <1>4, <2>2, <3>1
  <2> QED
    BY <2>1, <2>2
<1>8. Keys(x) = y
  BY <1>6, <1>7
<1> QED
  BY <1>8 DEF x, y, a, b

KeysOfEach(chunks) == [i \in 1 .. Len(chunks) |-> Keys(chunks[i])]

LEMMA KeysOfChunks ==
    ASSUME NEW chunks \in Seq(Seq(PairsOf))
    PROVE  FlattenSeq(KeysOfEach(chunks)) = Keys(FlattenSeq(chunks))
<1> DEFINE N == Len(chunks)
           First(n) == SubSeq(chunks, 1, n)
           T == {n \in Nat : n <= N => FlattenSeq(KeysOfEach(First(n))) = Keys(FlattenSeq(First(n)))}
<1>1. N \in Nat /\ First(N) = chunks /\ First(0) = <<>>
  OBVIOUS
<1>2. 0 \in T
  <2>1. KeysOfEach(<<>>) = <<>> /\ Keys(<<>>) = <<>>
    BY DEF KeysOfEach, Keys
  <2>2. FlattenSeq(KeysOfEach(First(0))) = Keys(FlattenSeq(First(0)))
    BY <1>1, <2>1, FlattenEmpty, Zenon
  <2> QED
    BY <2>2
<1>3. ASSUME NEW n \in Nat, n \in T PROVE n + 1 \in T
  <2> SUFFICES ASSUME n + 1 <= N
               PROVE  FlattenSeq(KeysOfEach(First(n + 1))) = Keys(FlattenSeq(First(n + 1)))
    OBVIOUS
  <2> DEFINE u == First(n)
             x == chunks[n + 1]
  <2>1. u \in Seq(Seq(PairsOf)) /\ x \in Seq(PairsOf) /\ First(n + 1) = Append(u, x)
    OBVIOUS
  <2>2. FlattenSeq(KeysOfEach(u)) = Keys(FlattenSeq(u))
    BY <1>3
  <2> HIDE DEF u, x, First
  <2>3. KeysOfEach(u) \in Seq(Seq(DOMAIN Raw)) /\ KeysOfEach(Append(u, x)) = Append(KeysOfEach(u), Keys(x))
    <3>1. Len(u) \in Nat /\ \A i \in 1 .. Len(u) : u[i] \in Seq(PairsOf)
      BY <2>1
    <3>2. \A i \in 1 .. Len(u) : Keys(u[i]) \in Seq(DOMAIN Raw)
      BY <3>1, KeysTypes
    <3>3. KeysOfEach(u) \in Seq(Seq(DOMAIN Raw))
      BY <3>1, <3>2 DEF KeysOfEach
    <3>4. KeysOfEach(Append(u, x)) = Append(KeysOfEach(u), Keys(x))
      BY <2>1, <3>1 DEF KeysOfEach
    <3> QED
      BY <3>3, <3>4
  <2>4. FlattenSeq(Append(KeysOfEach(u), Keys(x))) = FlattenSeq(KeysOfEach(u)) \o Keys(x)
    BY <2>1, <2>3, KeysTypes, FlattenAppend
  <2>5. FlattenSeq(Append(u, x)) = FlattenSeq(u) \o x /\ FlattenSeq(u) \in Seq(PairsOf)
    BY <2>1, FlattenAppend, FlattenTypes
  <2>6. Keys(FlattenSeq(u) \o x) = Keys(FlattenSeq(u)) \o Keys(x)
    BY <2>1, <2>5, KeysOfConcat
  <2> QED
    BY <2>1, <2>2, <2>3, <2>4, <2>5, <2>6, Zenon
<1>4. N \in T
  <2> HIDE DEF T, N
  <2> QED
    BY <1>1, <1>2, <1>3, Induction
<1>5. FlattenSeq(KeysOfEach(First(N))) = Keys(FlattenSeq(First(N)))
  BY <1>1, <1>4
<1> HIDE DEF N, First
<1> QED
  BY <1>1, <1>5, Zenon

LEMMA MapCallsAreSound ==
    ASSUME NEW op, NEW entries \in Seq(PairsOf), NEW base \in Nat
    PROVE  \E chunks : /\ CarryBy(MapCalls(op, entries, base), op, chunks)
                       /\ FlattenSeq(chunks) = Keys(entries)
<1> DEFINE E == ToSet(entries)
           chunks == Partition(entries, PairSize(entries), base)
           all == MapCalls(op, entries, base)
<1>1. chunks \in Seq(Seq(PairsOf)) /\ FlattenSeq(chunks) = entries
  <2>1. E \subseteq PairsOf
    BY DEF ToSet
  <2>2. chunks \in Seq(Seq(E)) /\ FlattenSeq(chunks) = entries
    BY EntriesAreSized, PartitionTypes
  <2> HIDE DEF chunks, E
  <2> QED
    BY <2>1, <2>2
<1>2. all = [i \in DOMAIN chunks |-> CallWithPairs(op, chunks[i])]
  BY DEF MapCalls
<1> HIDE DEF chunks, all, E
<1>3. /\ Len(chunks) \in Nat /\ DOMAIN chunks = 1 .. Len(chunks)
      /\ \A i \in 1 .. Len(chunks) : chunks[i] \in Seq(PairsOf)
  BY <1>1
<1>4. \A i \in 1 .. Len(chunks) : all[i].op = op /\ all[i].vals = Keys(chunks[i])
  BY <1>2, <1>3 DEF CallWithPairs, Keys
<1>5. all = [i \in 1 .. Len(chunks) |-> all[i]]
  BY <1>2, <1>3
<1>6. all \in Seq(ToSet(all)) /\ Len(all) = Len(chunks)
  BY <1>3, <1>5, SeqOfItself
<1>7. Vals(all) = KeysOfEach(chunks)
  BY <1>4, <1>6 DEF Vals, KeysOfEach
<1>8. KeysOfEach(chunks) \in Seq(Seq(DOMAIN Raw))
  BY <1>3, KeysTypes DEF KeysOfEach
<1>9. FlattenSeq(KeysOfEach(chunks)) = Keys(entries)
  BY <1>1, KeysOfChunks, Zenon
<1>10. CarryBy(all, op, KeysOfEach(chunks))
  BY <1>4, <1>6, <1>7, <1>8 DEF CarryBy, Carry
<1> QED
  BY <1>9, <1>10 DEF all

\* A create: the call that carries the first elements, then the calls for the rest.
LEMMA FirstAndRest ==
    ASSUME NEW E, NEW items \in Seq(E), NEW sizeOf
    PROVE  /\ FirstOf(items, sizeOf) \in Seq(E) /\ RestOf(items, sizeOf) \in Seq(E)
           /\ FirstOf(items, sizeOf) \o RestOf(items, sizeOf) = items
<1> DEFINE n == FirstChunkSplit(items, sizeOf)
           fitting == {k \in 0 .. Len(items) :
                         \A m \in 1 .. k : CreateBase + SumOf(SubSeq(items, 1, m), sizeOf) <= MaxRpcSize}
<1>1. n = Max(fitting)
  BY DEF FirstChunkSplit
<1>2. Len(items) \in Nat /\ fitting \in SUBSET (0 .. Len(items)) /\ 0 \in fitting
  OBVIOUS
<1> HIDE DEF fitting, n
<1>3. n \in 0 .. Len(items)
  <2>1. fitting # {}
    BY <1>2
  <2>2. Max(fitting) \in fitting
    BY <1>2, <2>1, LastPosition
  <2> QED
    BY <1>1, <1>2, <2>2
<1> QED
  BY <1>3, SplitInTwo DEF FirstOf, RestOf, n

LEMMA CreateIsSound ==
    ASSUME NEW c, c.vals \in Seq(DOMAIN Raw), NEW more, NEW op, NEW chunks, CarryBy(more, op, chunks)
    PROVE  LET all == <<c>> \o more
           IN  /\ all # <<>> /\ Carry(all, <<c.vals>> \o chunks)
               /\ \A i \in 1 .. Len(all) : all[i].op \in {c.op, op}
<1> DEFINE all == <<c>> \o more
           vals == <<c.vals>> \o chunks
           N == Len(more)
<1>1. /\ more \in Seq(ToSet(more)) /\ N \in Nat /\ chunks \in Seq(Seq(DOMAIN Raw)) /\ Len(chunks) = N
      /\ \A i \in 1 .. N : more[i].op = op /\ more[i].vals = chunks[i]
  BY CarryLength DEF CarryBy, Carry
<1>2. all = [i \in 1 .. N + 1 |-> all[i]] /\ all[1] = c /\ \A i \in 2 .. N + 1 : all[i] = more[i - 1]
  BY <1>1
<1>3. /\ vals \in Seq(Seq(DOMAIN Raw))
      /\ vals = [i \in 1 .. N + 1 |-> IF i = 1 THEN c.vals ELSE chunks[i - 1]]
  BY <1>1
<1> HIDE DEF all, N, vals
<1>4. all \in Seq(ToSet(all)) /\ Len(all) = N + 1 /\ all # <<>>
  <2>1. N + 1 \in Nat
    BY <1>1
  <2>2. all \in Seq(ToSet(all)) /\ Len(all) = N + 1
    BY <1>2, <2>1, SeqOfItself
  <2> QED
    BY <1>1, <2>2
<1>5. ASSUME NEW i \in 1 .. N + 1
      PROVE  /\ all[i].vals = IF i = 1 THEN c.vals ELSE chunks[i - 1]
             /\ all[i].op \in {c.op, op}
  <2>1. CASE i = 1
    BY <1>2, <2>1
  <2>2. CASE i # 1
    <3>1. i \in 2 .. N + 1 /\ i - 1 \in 1 .. N
      BY <1>1, <2>2
    <3> QED
      BY <1>1, <1>2, <2>2, <3>1
  <2> QED
    BY <2>1, <2>2
<1>6. Vals(all) = vals
  BY <1>3, <1>4, <1>5 DEF Vals
<1> QED
  BY <1>3, <1>4, <1>5, <1>6 DEF all, vals, Carry

-----------------------------------------------------------------------------
(* What each write sends, and where.                                        *)

\* A write next to an element that is not there.
MissingPivot(w) == w.kind \in {"before", "after"} /\ w.pivot \notin ToSet(w.list)

Adds(w) == w.kind \in AddKinds \cup MapKinds \cup CreateKinds

EndOps == {"tail", "weighted"} \cup MapKinds \cup CreateKinds

\* The head's chunks come last first.
InOrder(w, chunks) == IF w.kind = "head" THEN Reverse(chunks) ELSE chunks

\* Where c, the i-th call of w, says its chunk goes.
Place(w, chunks, i, c) ==
    /\ w.kind = "head" => c.op = "head"
    /\ w.kind = "position" =>
          c.op = "position" /\ c.pos = w.pos + Len(FlattenSeq(SubSeq(chunks, 1, i - 1)))
    /\ w.kind \in {"before", "after"} =>
          /\ c.op = IF i = 1 THEN w.kind ELSE "after"
          /\ c.pivot = IF i = 1 THEN w.pivot ELSE Last(chunks[i - 1])
          /\ chunks[i] # <<>> /\ chunks[i] \in Seq(ToSet(w.data))
    /\ w.kind \notin {"head", "position", "before", "after"} => c.op \in EndOps

\* The calls of w carry its data in chunks.
Sends(w, chunks) ==
    /\ Carry(CallsOf(w), chunks)
    /\ FlattenSeq(InOrder(w, chunks)) = w.data
    /\ \A i \in 1 .. Len(CallsOf(w)) : Place(w, chunks, i, CallsOf(w)[i])

LEMMA WriteTypes ==
    ASSUME NEW w \in Writes
    PROVE  /\ w.data \in Seq(DOMAIN Raw)
           /\ Chunks(w) \in Seq(Seq(DOMAIN Raw)) /\ FlattenSeq(Chunks(w)) = w.data
           /\ w.list \in Seq(AnyElement)
<1>1. w.data \in Seq(DOMAIN Raw) /\ w.list \in Seq(DOMAIN Raw) /\ BaseSize \in Nat
  BY ChunkAssumption
<1>2. w.list \in Seq(AnyElement)
  BY <1>1 DEF AnyElement
<1>3. /\ Partition(w.data, Size, BaseSize) \in Seq(Seq(DOMAIN Raw))
      /\ FlattenSeq(Partition(w.data, Size, BaseSize)) = w.data
  BY <1>1, ElementPartitions
<1> QED
  BY <1>1, <1>2, <1>3 DEF Chunks

LEMMA EndSends ==
    ASSUME NEW w \in Writes, w.kind \in {"tail", "unordered", "weighted", "map", "orderedMap"}
    PROVE  \E chunks : Sends(w, chunks)
<1>1. {"tail", "weighted", "map", "orderedMap"} \subseteq EndOps
  BY DEF EndOps, MapKinds
<1>2. \E op, chunks : op \in EndOps /\ CarryBy(CallsOf(w), op, chunks) /\ FlattenSeq(chunks) = w.data
  <2>1. CASE w.kind \in {"tail", "unordered", "weighted"}
    <3>1. PICK op \in {"tail", "weighted"} : CallsOf(w) = SameOp(op, Chunks(w))
      BY <2>1 DEF CallsOf
    <3>2. CarryBy(SameOp(op, Chunks(w)), op, Chunks(w)) /\ FlattenSeq(Chunks(w)) = w.data
      BY WriteTypes, SameOpCalls
    <3> QED
      BY <1>1, <3>1, <3>2
  <2>2. CASE w.kind \in {"map", "orderedMap"}
    <3>1. CallsOf(w) = MapCalls(w.kind, MapEntries(w), BaseSize)
      BY <2>2 DEF CallsOf
    <3>2. PICK chunks : /\ CarryBy(MapCalls(w.kind, MapEntries(w), BaseSize), w.kind, chunks)
                        /\ FlattenSeq(chunks) = Keys(MapEntries(w))
      BY MapEntriesTypes, MapCallsAreSound, ChunkAssumption
    <3> QED
      BY <1>1, <2>2, <3>1, <3>2, KeysOfEntries
  <2> QED
    BY <2>1, <2>2
<1>3. PICK op, chunks : op \in EndOps /\ CarryBy(CallsOf(w), op, chunks) /\ FlattenSeq(chunks) = w.data
  BY <1>2
<1>4. \A i \in 1 .. Len(CallsOf(w)) : Place(w, chunks, i, CallsOf(w)[i])
  BY <1>3 DEF CarryBy, Place
<1> QED
  BY <1>3, <1>4 DEF Sends, CarryBy, InOrder

LEMMA HeadSends ==
    ASSUME NEW w \in Writes, w.kind = "head"
    PROVE  \E chunks : Sends(w, chunks)
<1> DEFINE chunks == Reverse(Chunks(w))
<1>1. CallsOf(w) = SameOp("head", chunks)
  BY DEF CallsOf, HeadCalls
<1>2. chunks \in Seq(Seq(DOMAIN Raw)) /\ Reverse(chunks) = Chunks(w)
  BY WriteTypes, ReverseTwice
<1> HIDE DEF chunks
<1>3. CarryBy(CallsOf(w), "head", chunks)
  BY <1>1, <1>2, SameOpCalls
<1>4. FlattenSeq(InOrder(w, chunks)) = w.data
  BY <1>2, WriteTypes DEF InOrder
<1>5. \A i \in 1 .. Len(CallsOf(w)) : Place(w, chunks, i, CallsOf(w)[i])
  BY <1>3 DEF CarryBy, Place
<1> QED
  BY <1>3, <1>4, <1>5 DEF Sends, CarryBy

LEMMA PositionSends ==
    ASSUME NEW w \in Writes, w.kind = "position"
    PROVE  \E chunks : Sends(w, chunks)
<1> DEFINE chunks == Chunks(w)
           all == PositionCalls(chunks, w.pos)
           N == Len(chunks)
<1>1. CallsOf(w) = all
  BY DEF CallsOf
<1>2. chunks \in Seq(Seq(DOMAIN Raw)) /\ FlattenSeq(chunks) = w.data
  BY WriteTypes
<1> HIDE DEF chunks
<1>3. N \in Nat /\ DOMAIN chunks = 1 .. N /\ chunks = [i \in 1 .. N |-> chunks[i]]
  BY <1>2
<1>4. /\ all = [i \in 1 .. N |-> all[i]]
      /\ \A i \in 1 .. N : /\ all[i].op = "position" /\ all[i].vals = chunks[i]
                           /\ all[i].pos = w.pos + Len(FlattenSeq(SubSeq(chunks, 1, i - 1)))
  BY <1>3 DEF PositionCalls, CallAt, ElementsBefore
<1> HIDE DEF all
<1>5. all \in Seq(ToSet(all)) /\ Len(all) = N
  BY <1>3, <1>4, SeqOfItself
<1>6. Carry(all, chunks)
  BY <1>2, <1>3, <1>4, <1>5 DEF Carry, Vals
<1>7. \A i \in 1 .. Len(all) : Place(w, chunks, i, all[i])
  BY <1>4, <1>5 DEF Place
<1>8. InOrder(w, chunks) = chunks
  BY DEF InOrder
<1>9. Sends(w, chunks)
  BY <1>1, <1>2, <1>6, <1>7, <1>8 DEF Sends
<1> QED
  BY <1>9

LEMMA PivotSends ==
    ASSUME NEW w \in Writes, w.kind \in {"before", "after"}
    PROVE  \E chunks : Sends(w, chunks)
<1> DEFINE chunks == Chunks(w)
           all == PivotCalls(w.kind, chunks, w.pivot)
           N == Len(chunks)
           D == ToSet(w.data)
<1>1. CallsOf(w) = all
  BY DEF CallsOf
<1>2. chunks \in Seq(Seq(DOMAIN Raw)) /\ FlattenSeq(chunks) = w.data
  BY WriteTypes
<1>3. chunks \in Seq(Seq(D)) /\ \A i \in 1 .. N : chunks[i] # <<>>
  <2>1. w.data \in Seq(D) /\ D \subseteq DOMAIN Raw
    <3>1. w.data \in Seq(DOMAIN Raw)
      BY WriteTypes
    <3>2. w.data = [i \in 1 .. Len(w.data) |-> w.data[i]] /\ Len(w.data) \in Nat
      BY <3>1
    <3>3. w.data \in Seq(D)
      BY <3>2, SeqOfItself
    <3> QED
      BY <3>1, <3>3 DEF ToSet
  <2> HIDE DEF D
  <2>2. Sized(D, Size) /\ BaseSize \in Nat
    BY <2>1, SizesAreNatural, ChunkAssumption DEF Sized
  <2>3. chunks \in Seq(Seq(D))
    BY <2>1, <2>2, PartitionTypes DEF Chunks
  <2>4. GreedyChunks(chunks, w.data, Size, BaseSize)
    BY <2>1, <2>2, PartitionIsGreedy DEF Chunks
  <2> HIDE DEF chunks
  <2>5. DOMAIN chunks = 1 .. N
    BY <2>3
  <2> QED
    BY <2>3, <2>4, <2>5 DEF GreedyChunks
<1> HIDE DEF chunks
<1>4. N \in Nat /\ DOMAIN chunks = 1 .. N /\ chunks = [i \in 1 .. N |-> chunks[i]]
  BY <1>2
<1>5. /\ all = [i \in 1 .. N |-> all[i]]
      /\ \A i \in 1 .. N : all[i] = IF i = 1 THEN CallBy(w.kind, chunks[1], w.pivot)
                                    ELSE CallBy("after", chunks[i], Last(chunks[i - 1]))
  BY <1>4 DEF PivotCalls
<1> HIDE DEF all
<1>6. \A i \in 1 .. N : /\ all[i].vals = chunks[i]
                        /\ all[i].op = IF i = 1 THEN w.kind ELSE "after"
                        /\ all[i].pivot = IF i = 1 THEN w.pivot ELSE Last(chunks[i - 1])
  BY <1>5 DEF CallBy
<1>7. all \in Seq(ToSet(all)) /\ Len(all) = N
  BY <1>4, <1>5, SeqOfItself
<1>8. Carry(all, chunks)
  BY <1>2, <1>4, <1>6, <1>7 DEF Carry, Vals
<1>9. \A i \in 1 .. Len(all) : Place(w, chunks, i, all[i])
  <2>1. \A i \in 1 .. N : chunks[i] \in Seq(D)
    BY <1>3
  <2> QED
    BY <1>3, <1>6, <1>7, <2>1 DEF Place
<1>10. InOrder(w, chunks) = chunks
  BY DEF InOrder
<1>11. Sends(w, chunks)
  BY <1>1, <1>2, <1>8, <1>9, <1>10 DEF Sends
<1> QED
  BY <1>11

\* The call that creates the container, and those that add the rest.
LEMMA CreateSends ==
    ASSUME NEW w \in Writes, w.kind \in CreateKinds
    PROVE  CallsOf(w) # <<>> /\ \E chunks : Sends(w, chunks)
<1> DEFINE Splits(c, more, op, chunks) ==
             /\ CallsOf(w) = <<c>> \o more
             /\ c.op \in EndOps /\ op \in EndOps
             /\ c.vals \in Seq(DOMAIN Raw) /\ chunks \in Seq(Seq(DOMAIN Raw))
             /\ CarryBy(more, op, chunks)
             /\ c.vals \o FlattenSeq(chunks) = w.data
<1>1. \E c, more, op, chunks : Splits(c, more, op, chunks)
  <2>1. CASE w.kind \in {"create", "createOrdered"}
    <3> DEFINE first == FirstOf(w.data, Size)
               rest == RestOf(w.data, Size)
               c == Call("create", first)
               chunks == Partition(rest, Size, 0)
    <3>1. PICK op \in {"tail", "weighted"} : CallsOf(w) = <<c>> \o SameOp(op, chunks)
      BY <2>1 DEF CallsOf, CreateCalls
    <3>2. first \in Seq(DOMAIN Raw) /\ rest \in Seq(DOMAIN Raw) /\ first \o rest = w.data
      BY WriteTypes, FirstAndRest
    <3> HIDE DEF first, rest
    <3>3. chunks \in Seq(Seq(DOMAIN Raw)) /\ FlattenSeq(chunks) = rest
      BY <3>2, ElementPartitions
    <3> HIDE DEF chunks
    <3>4. CarryBy(SameOp(op, chunks), op, chunks)
      BY <3>3, SameOpCalls
    <3>5. c.op = "create" /\ c.vals = first /\ "create" \in EndOps /\ op \in EndOps
      BY DEF Call, EndOps, CreateKinds
    <3> HIDE DEF c
    <3>6. c.vals \o FlattenSeq(chunks) = w.data
      BY <3>2, <3>3, <3>5, Zenon
    <3>7. Splits(c, SameOp(op, chunks), op, chunks)
      BY <3>1, <3>2, <3>3, <3>4, <3>5, <3>6
    <3> QED
      BY <3>7
  <2>2. CASE w.kind \in {"createMap", "createOrderedMap"}
    <3> DEFINE entries == MapEntries(w)
               key(e) == IF w.kind = "createOrderedMap" THEN Raw[e[1]] ELSE Size[e[1]]
               entrySize == [e \in ToSet(entries) |-> key(e) + Size[e[2]]]
               first == FirstOf(entries, entrySize)
               rest == RestOf(entries, entrySize)
               c == CallWithPairs(w.kind, first)
    <3>1. PICK op \in {"map", "orderedMap"} : CallsOf(w) = <<c>> \o MapCalls(op, rest, 0)
      BY <2>2 DEF CallsOf, CreateMapCalls
    <3>2. entries \in Seq(PairsOf) /\ Keys(entries) = w.data
      BY MapEntriesTypes, KeysOfEntries
    <3> HIDE DEF entries, entrySize
    <3>3. first \in Seq(PairsOf) /\ rest \in Seq(PairsOf) /\ first \o rest = entries
      BY <3>2, FirstAndRest
    <3> HIDE DEF first, rest
    <3>4. c.op = w.kind /\ c.vals = Keys(first)
      BY DEF CallWithPairs, Keys
    <3> HIDE DEF c
    <3>5. PICK chunks : CarryBy(MapCalls(op, rest, 0), op, chunks) /\ FlattenSeq(chunks) = Keys(rest)
      BY <3>3, MapCallsAreSound
    <3>6. w.kind \in EndOps /\ op \in EndOps
      BY DEF EndOps, CreateKinds, MapKinds
    <3>7. Keys(first) \in Seq(DOMAIN Raw) /\ Keys(first) \o Keys(rest) = w.data
      <4>1. Keys(first \o rest) = Keys(first) \o Keys(rest)
        BY <3>3, KeysOfConcat
      <4>2. Keys(first) \o Keys(rest) = w.data
        BY <3>2, <3>3, <4>1, Zenon
      <4> QED
        BY <3>3, <4>2, KeysTypes
    <3>8. chunks \in Seq(Seq(DOMAIN Raw))
      BY <3>5 DEF CarryBy, Carry
    <3>9. c.vals \o FlattenSeq(chunks) = w.data
      BY <3>4, <3>5, <3>7, Zenon
    <3>10. Splits(c, MapCalls(op, rest, 0), op, chunks)
      BY <3>1, <3>4, <3>5, <3>6, <3>7, <3>8, <3>9
    <3> QED
      BY <3>10
  <2> QED
    BY <2>1, <2>2 DEF CreateKinds
<1>2. PICK c, more, op, chunks : Splits(c, more, op, chunks)
  BY <1>1
<1> DEFINE all == CallsOf(w)
           vals == <<c.vals>> \o chunks
<1>3. /\ all = <<c>> \o more /\ c.op \in EndOps /\ op \in EndOps
      /\ c.vals \in Seq(DOMAIN Raw) /\ chunks \in Seq(Seq(DOMAIN Raw))
      /\ CarryBy(more, op, chunks) /\ c.vals \o FlattenSeq(chunks) = w.data
  BY <1>2
<1> HIDE DEF all
<1>4. all # <<>> /\ Carry(all, vals) /\ \A i \in 1 .. Len(all) : all[i].op \in {c.op, op}
  BY <1>3, CreateIsSound
<1>5. FlattenSeq(vals) = w.data
  <2>1. <<c.vals>> \in Seq(Seq(DOMAIN Raw))
    BY <1>3
  <2>2. FlattenSeq(vals) = FlattenSeq(<<c.vals>>) \o FlattenSeq(chunks)
    BY <1>3, <2>1, FlattenConcat
  <2>3. FlattenSeq(<<c.vals>>) = c.vals
    BY <1>3, FlattenOne
  <2> QED
    BY <1>3, <2>2, <2>3, Zenon
<1> HIDE DEF vals
<1>6. w.kind \notin {"head", "position", "before", "after"}
  BY DEF CreateKinds
<1>7. \A i \in 1 .. Len(all) : Place(w, vals, i, all[i])
  BY <1>3, <1>4, <1>6 DEF Place
<1>8. InOrder(w, vals) = vals
  BY <1>6 DEF InOrder
<1>9. Sends(w, vals)
  BY <1>4, <1>5, <1>7, <1>8 DEF Sends, all
<1> QED
  BY <1>4, <1>9 DEF all

LEMMA AddsSend ==
    ASSUME NEW w \in Writes, Adds(w)
    PROVE  Sends(w, Vals(CallsOf(w)))
<1>1. PICK chunks : Sends(w, chunks)
  BY EndSends, HeadSends, PositionSends, PivotSends, CreateSends DEF Adds, AddKinds, MapKinds, CreateKinds
<1>2. chunks = Vals(CallsOf(w))
  BY <1>1 DEF Sends, Carry
<1> QED
  BY <1>1, <1>2, Zenon

\* The elements that the first k calls of w have brought.
Block(w, k) == FlattenSeq(InOrder(w, SubSeq(Vals(CallsOf(w)), 1, k)))

LEMMA BlockStep ==
    ASSUME NEW w \in Writes, Adds(w), NEW k \in Nat, k < Len(CallsOf(w))
    PROVE  /\ Block(w, k) \in Seq(DOMAIN Raw) /\ CallsOf(w)[k + 1].vals \in Seq(DOMAIN Raw)
           /\ Block(w, k + 1) = IF w.kind = "head" THEN CallsOf(w)[k + 1].vals \o Block(w, k)
                                                   ELSE Block(w, k) \o CallsOf(w)[k + 1].vals
<1> DEFINE all == CallsOf(w)
           chunks == Vals(all)
           x == all[k + 1].vals
<1>1. Carry(all, chunks)
  BY AddsSend DEF Sends
<1>2. /\ chunks \in Seq(Seq(DOMAIN Raw)) /\ k < Len(chunks)
      /\ chunks[k + 1] = x /\ x \in Seq(DOMAIN Raw)
  <2> HIDE DEF all, chunks
  <2>1. chunks \in Seq(Seq(DOMAIN Raw))
    BY <1>1 DEF Carry
  <2>2. Len(all) \in Nat /\ k < Len(all)
    BY <1>1, CarryLength DEF all
  <2>3. k + 1 \in 1 .. Len(all) /\ Len(chunks) = Len(all)
    BY <1>1, <2>2, CarryLength
  <2> QED
    BY <1>1, <2>1, <2>2, <2>3, CarryLength
<1> HIDE DEF chunks, x
<1>3. /\ FlattenSeq(SubSeq(chunks, 1, k)) \in Seq(DOMAIN Raw)
      /\ FlattenSeq(Reverse(SubSeq(chunks, 1, k))) \in Seq(DOMAIN Raw)
      /\ FlattenSeq(SubSeq(chunks, 1, k + 1)) = FlattenSeq(SubSeq(chunks, 1, k)) \o x
      /\ FlattenSeq(Reverse(SubSeq(chunks, 1, k + 1))) = x \o FlattenSeq(Reverse(SubSeq(chunks, 1, k)))
  <2> DEFINE E == DOMAIN Raw
  <2>1. chunks \in Seq(Seq(E))
    BY <1>2
  <2> HIDE DEF E
  <2>2. /\ FlattenSeq(SubSeq(chunks, 1, k)) \in Seq(E)
        /\ FlattenSeq(Reverse(SubSeq(chunks, 1, k))) \in Seq(E)
        /\ FlattenSeq(SubSeq(chunks, 1, k + 1)) = FlattenSeq(SubSeq(chunks, 1, k)) \o chunks[k + 1]
        /\ FlattenSeq(Reverse(SubSeq(chunks, 1, k + 1))) = chunks[k + 1] \o FlattenSeq(Reverse(SubSeq(chunks, 1, k)))
    BY <1>2, <2>1, FlattenNext
  <2> QED
    BY <1>2, <2>2, Zenon DEF E
<1>4. CASE w.kind = "head"
  <2>1. \A n : Block(w, n) = FlattenSeq(Reverse(SubSeq(chunks, 1, n)))
    BY <1>4 DEF Block, InOrder, chunks
  <2> QED
    BY <1>2, <1>3, <1>4, <2>1, Zenon DEF x
<1>5. CASE w.kind # "head"
  <2>1. \A n : Block(w, n) = FlattenSeq(SubSeq(chunks, 1, n))
    BY <1>5 DEF Block, InOrder, chunks
  <2> QED
    BY <1>2, <1>3, <1>5, <2>1, Zenon DEF x
<1> QED
  BY <1>4, <1>5

LEMMA BlockEnds ==
    ASSUME NEW w \in Writes, Adds(w)
    PROVE  Block(w, 0) = <<>> /\ Block(w, Len(CallsOf(w))) = w.data
<1> DEFINE chunks == Vals(CallsOf(w))
<1>1. Sends(w, chunks)
  BY AddsSend
<1>2. Len(CallsOf(w)) = Len(chunks) /\ chunks \in Seq(Seq(DOMAIN Raw))
  BY <1>1, CarryLength DEF Sends, Carry
<1>3. FlattenSeq(InOrder(w, chunks)) = w.data
  BY <1>1 DEF Sends
<1> HIDE DEF chunks
<1>4. SubSeq(chunks, 1, 0) = <<>> /\ SubSeq(chunks, 1, Len(chunks)) = chunks
  BY <1>2
<1>5. InOrder(w, <<>>) = <<>>
  BY DEF InOrder, Reverse
<1>6. FlattenSeq(InOrder(w, SubSeq(chunks, 1, 0))) = <<>>
  BY <1>4, <1>5, FlattenEmpty, Zenon
<1>7. FlattenSeq(InOrder(w, SubSeq(chunks, 1, Len(chunks)))) = w.data
  BY <1>3, <1>4, Zenon
<1> QED
  BY <1>2, <1>6, <1>7, Zenon DEF Block, chunks

-----------------------------------------------------------------------------
(* Each call finds its place.                                               *)

\* What the arguments of an operation have to be for its success to be all or nothing:
\* a position of the list, an element to take for whoever takes it and for a repetition,
\* a new value; and elements that cannot be taken for a pivot that is missing.
WellFormed(w) ==
    /\ w.kind # "remove"
    /\ w.kind = "position" => w.pos \in 0 .. Len(w.list)
    /\ w.kind \in {"takeHead", "takeTail"} => Len(w.list) > 1
    /\ w.kind = "replace" => w.data # <<>>
    /\ MissingPivot(w) => /\ w.pivot # Foreign
                          /\ ToSet(w.data) \cap (ToSet(w.list) \cup {Foreign}) = {}

\* The first call finds its place in s, and every other one after the call before it.
Follows(all, s) ==
    /\ all # <<>> => Applies(all[1], s)
    /\ \A i \in 1 .. Len(all) - 1, t \in Seq(AnyElement), u \in Seq(AnyElement) :
          /\ Applies(all[i], t)
          /\ GrowsBy(t, u, Len(all[i].vals))
          /\ ToSet(all[i].vals) \subseteq ToSet(u)
          => Applies(all[i + 1], u)

LEMMA SendsFollow ==
    ASSUME NEW w \in Writes, WellFormed(w), Adds(w), ~MissingPivot(w)
    PROVE  Follows(CallsOf(w), w.list)
<1> DEFINE all == CallsOf(w)
           chunks == Vals(all)
           N == Len(all)
<1>1. Sends(w, chunks)
  BY AddsSend
<1>2. /\ N \in Nat /\ chunks \in Seq(Seq(DOMAIN Raw)) /\ Len(chunks) = N
      /\ \A i \in 1 .. N : all[i].vals = chunks[i] /\ chunks[i] \in Seq(DOMAIN Raw)
  BY <1>1, CarryLength DEF Sends, Carry
<1>3. \A i \in 1 .. N : Place(w, chunks, i, all[i])
  BY <1>1 DEF Sends
<1>4. all # <<>> => 1 \in 1 .. N
  <2>1. all \in Seq(ToSet(all))
    BY <1>1 DEF Sends, Carry
  <2> QED
    BY <2>1
<1>5. \A i \in 1 .. N - 1 : i \in 1 .. N /\ i + 1 \in 1 .. N /\ i + 1 # 1 /\ (i + 1) - 1 = i
  BY <1>2
<1> HIDE DEF all, chunks, N
<1>6. CASE w.kind \notin {"position", "before", "after"}
  <2>1. \A i \in 1 .. N : all[i].op \in FreeOps
    BY <1>3, <1>6 DEF Place, EndOps, FreeOps
  <2> QED
    BY <1>4, <1>5, <2>1 DEF Follows, Applies, all, N
<1>7. CASE w.kind = "position"
  <2>1. \A i \in 1 .. N : /\ all[i].op = "position"
                          /\ all[i].pos = w.pos + Len(FlattenSeq(SubSeq(chunks, 1, i - 1)))
    BY <1>3, <1>7 DEF Place
  <2>2. w.pos \in 0 .. Len(w.list)
    BY <1>7 DEF WellFormed
  <2>3. all # <<>> => Applies(all[1], w.list)
    <3>1. SubSeq(chunks, 1, 1 - 1) = <<>> /\ Len(<<>>) = 0 /\ w.pos + 0 = w.pos
      BY <2>2
    <3>2. w.pos + Len(FlattenSeq(SubSeq(chunks, 1, 1 - 1))) = w.pos
      BY <3>1, FlattenEmpty, Zenon
    <3> QED
      BY <1>4, <2>1, <2>2, <3>2 DEF Applies
  <2>4. ASSUME NEW i \in 1 .. N - 1, NEW t \in Seq(AnyElement), NEW u \in Seq(AnyElement),
               Applies(all[i], t), GrowsBy(t, u, Len(all[i].vals))
        PROVE  Applies(all[i + 1], u)
    <3> DEFINE p == all[i].pos
               l == Len(all[i].vals)
    <3>1. all[i + 1].pos = p + l /\ p \in Nat /\ l \in Nat
      <4> DEFINE before == FlattenSeq(SubSeq(chunks, 1, i - 1))
                 E == DOMAIN Raw
      <4>1. chunks \in Seq(Seq(E)) /\ chunks[i] \in Seq(E)
        BY <1>2, <1>5
      <4>2. i - 1 \in Nat /\ i - 1 < Len(chunks) /\ (i - 1) + 1 = i
        BY <1>2, <1>5
      <4> HIDE DEF E
      <4>3. before \in Seq(E) /\ FlattenSeq(SubSeq(chunks, 1, (i - 1) + 1)) = before \o chunks[(i - 1) + 1]
        BY <4>1, <4>2, FlattenNext
      <4>4. FlattenSeq(SubSeq(chunks, 1, i)) = before \o chunks[i]
        BY <4>2, <4>3, Zenon
      <4> HIDE DEF before
      <4>5. Len(before) \in Nat /\ Len(chunks[i]) \in Nat /\ Len(before \o chunks[i]) = Len(before) + Len(chunks[i])
        BY <4>1, <4>3
      <4>6. p = w.pos + Len(before) /\ l = Len(chunks[i])
        BY <1>2, <1>5, <2>1 DEF before
      <4>7. all[i + 1].pos = w.pos + Len(before \o chunks[i])
        <5>1. i + 1 \in 1 .. N /\ (i + 1) - 1 = i
          BY <1>5
        <5>2. all[i + 1].pos = w.pos + Len(FlattenSeq(SubSeq(chunks, 1, (i + 1) - 1)))
          BY <2>1, <5>1, Zenon
        <5> QED
          BY <4>4, <5>1, <5>2, Zenon
      <4>8. w.pos \in Nat
        BY <2>2
      <4>9. w.pos + (Len(before) + l) = (w.pos + Len(before)) + l /\ w.pos + Len(before) \in Nat
        <5>1. \A a \in Nat, b \in Nat, c \in Nat : a + (b + c) = (a + b) + c /\ a + b \in Nat
          OBVIOUS
        <5> QED
          BY <4>5, <4>6, <4>8, <5>1, Zenon
      <4>10. Len(before \o chunks[i]) = Len(before) + l /\ l \in Nat
        BY <4>5, <4>6, Zenon
      <4> QED
        BY <4>6, <4>7, <4>9, <4>10, Zenon
    <3>2. p \in 0 .. Len(t)
      BY <1>5, <2>1, <2>4 DEF Applies, FreeOps, MapKinds, CreateKinds
    <3>3. Len(u) = Len(t) + l
      BY <2>4 DEF GrowsBy
    <3> HIDE DEF p, l
    <3>4. p + l \in 0 .. Len(t) + l
      BY <3>1, <3>2
    <3> QED
      BY <1>5, <2>1, <3>1, <3>3, <3>4 DEF Applies
  <2> QED
    BY <2>3, <2>4 DEF Follows, all, N
<1>8. CASE w.kind \in {"before", "after"}
  <2>1. \A i \in 1 .. N : /\ all[i].op \in {"before", "after"}
                          /\ all[i].pivot = IF i = 1 THEN w.pivot ELSE Last(chunks[i - 1])
                          /\ chunks[i] # <<>>
    BY <1>3, <1>8 DEF Place
  <2>2. \A i \in 1 .. N : Last(chunks[i]) \in ToSet(chunks[i])
    <3>1. \A c \in Seq(DOMAIN Raw) : c # <<>> => Len(c) \in DOMAIN c
      OBVIOUS
    <3> QED
      BY <1>2, <2>1, <3>1 DEF Last, ToSet
  <2>3. w.pivot \in ToSet(w.list)
    BY <1>8 DEF MissingPivot
  <2>4. all # <<>> => Applies(all[1], w.list)
    BY <1>4, <2>1, <2>3 DEF Applies
  <2>5. ASSUME NEW i \in 1 .. N - 1, NEW u, ToSet(all[i].vals) \subseteq ToSet(u)
        PROVE  Applies(all[i + 1], u)
    <3>1. all[i + 1].pivot = Last(chunks[i]) /\ all[i].vals = chunks[i] /\ all[i + 1].op \in {"before", "after"}
      BY <1>2, <1>5, <2>1
    <3> QED
      BY <1>5, <2>2, <2>5, <3>1 DEF Applies
  <2> QED
    BY <2>4, <2>5 DEF Follows, all, N
<1> QED
  BY <1>6, <1>7, <1>8

\* The chunks of a write whose pivot is missing look for it, or for one another.
LEMMA MissingPivots ==
    ASSUME NEW w \in Writes, MissingPivot(w), NEW i \in 1 .. Len(CallsOf(w))
    PROVE  /\ CallsOf(w)[i].op \in {"before", "after"}
           /\ CallsOf(w)[i].pivot \in ToSet(w.data) \cup {w.pivot}
<1> DEFINE all == CallsOf(w)
           chunks == Vals(all)
<1>1. Adds(w)
  BY DEF MissingPivot, Adds, AddKinds
<1>2. Len(all) \in Nat /\ \A n \in 1 .. Len(all) : Place(w, chunks, n, all[n])
  BY <1>1, AddsSend, CarryLength DEF Sends
<1> HIDE DEF all, chunks
<1>3. \A n \in 1 .. Len(all) : /\ all[n].op \in {"before", "after"}
                               /\ all[n].pivot = IF n = 1 THEN w.pivot ELSE Last(chunks[n - 1])
                               /\ chunks[n] # <<>> /\ chunks[n] \in Seq(ToSet(w.data))
  BY <1>2 DEF Place, MissingPivot
<1>4. \A n \in 1 .. Len(all) : Last(chunks[n]) \in ToSet(w.data)
  <2>1. \A c \in Seq(ToSet(w.data)) : c # <<>> => Last(c) \in ToSet(w.data)
    BY DEF Last
  <2> QED
    BY <1>3, <2>1
<1>5. i \in 1 .. Len(all) /\ (i # 1 => i - 1 \in 1 .. Len(all))
  BY <1>2 DEF all
<1>6. all[i].pivot \in ToSet(w.data) \cup {w.pivot}
  BY <1>3, <1>4, <1>5
<1> QED
  BY <1>3, <1>5, <1>6 DEF all

-----------------------------------------------------------------------------
(* How far an operation has come.                                           *)

Takes(w) == w.kind \in {"takeHead", "takeTail"}
Keeps(w) == w.kind \in {"stream", "replace"}

\* After k of the calls of w the list is s and their answers add up to t; a call that
\* takes an element finds at least due of them.
Progress(w, k, t, s, due) ==
    /\ Adds(w) /\ ~MissingPivot(w) =>
          /\ t = Len(Block(w, k))
          /\ k < Len(CallsOf(w)) => Applies(CallsOf(w)[k + 1], s)
    /\ MissingPivot(w) => t = 0 /\ ToSet(s) \subseteq ToSet(w.list) \cup {Foreign}
    /\ Takes(w) => t = k /\ (k = 0 => Len(s) >= due)
    /\ Keeps(w) => t = 0

LEMMA Kinds ==
    ASSUME NEW w \in Writes, WellFormed(w)
    PROVE  /\ Adds(w) \/ Takes(w) \/ Keeps(w)
           /\ ~(Adds(w) /\ (Takes(w) \/ Keeps(w))) /\ ~(Takes(w) /\ Keeps(w))
           /\ MissingPivot(w) => Adds(w)
<1>1. w.kind \in AddKinds \cup MapKinds \cup CreateKinds \cup PlainKinds /\ w.kind # "remove"
  BY ChunkAssumption DEF WellFormed
<1> QED
  BY <1>1 DEF Adds, Takes, Keeps, MissingPivot, AddKinds, MapKinds, CreateKinds, PlainKinds

\* The operations of a single call.
LEMMA SingleCalls ==
    ASSUME NEW w \in Writes, Takes(w) \/ Keeps(w)
    PROVE  \E c : /\ CallsOf(w) = <<c>> /\ c.op = w.kind
                  /\ w.kind = "replace" => c.pivot = w.pivot /\ c.vals = w.data
<1>1. CASE w.kind = "stream"
  <2>1. CallsOf(w) = <<Call("stream", <<>>)>>
    BY <1>1 DEF CallsOf, StreamCalls
  <2>2. Call("stream", <<>>).op = w.kind
    BY <1>1 DEF Call
  <2> QED
    BY <1>1, <2>1, <2>2
<1>2. CASE Takes(w)
  <2>1. CallsOf(w) = <<Call(w.kind, <<>>)>>
    BY <1>2 DEF CallsOf, TakeCalls, Takes
  <2>2. Call(w.kind, <<>>).op = w.kind
    BY DEF Call
  <2> QED
    BY <1>2, <2>1, <2>2 DEF Takes
<1>3. CASE w.kind = "replace"
  <2> DEFINE c == CallBy("replace", w.data, w.pivot)
  <2>1. CallsOf(w) = <<c>>
    BY <1>3 DEF CallsOf, ReplaceCalls
  <2>2. c.op = w.kind /\ c.vals = w.data /\ c.pivot = w.pivot
    BY <1>3 DEF CallBy
  <2> QED
    BY <2>1, <2>2
<1> QED
  BY <1>1, <1>2, <1>3 DEF Keeps

LEMMA PlainCall ==
    ASSUME NEW w \in Writes, w.kind \in PlainKinds
    PROVE  \E c : CallsOf(w) = <<c>> /\ Applied(c, w.list) = Unchunked(w)
<1>1. CASE w.kind = "stream"
  <2> DEFINE c == Call("stream", <<>>)
  <2>1. CallsOf(w) = <<c>>
    BY <1>1 DEF CallsOf, StreamCalls
  <2>2. Applied(c, w.list) = w.list /\ Applied(Call("stream", w.data), w.list) = w.list
    BY DEF Applied, Call, MapKinds, CreateKinds
  <2>3. Unchunked(w) = Applied(Call("stream", w.data), w.list)
    BY <1>1 DEF Unchunked, PlainKinds
  <2> QED
    BY <2>1, <2>2, <2>3
<1>2. CASE w.kind \in {"takeHead", "takeTail"}
  <2> DEFINE c == Call(w.kind, <<>>)
  <2>1. CallsOf(w) = <<c>>
    BY <1>2 DEF CallsOf, TakeCalls
  <2>2. Applied(c, w.list) = Applied(Call(w.kind, w.data), w.list)
    BY <1>2 DEF Applied, Call, MapKinds, CreateKinds
  <2>3. Unchunked(w) = Applied(Call(w.kind, w.data), w.list)
    BY <1>2 DEF Unchunked, PlainKinds
  <2> QED
    BY <2>1, <2>2, <2>3
<1>3. CASE w.kind = "replace"
  BY <1>3 DEF CallsOf, ReplaceCalls, Unchunked
<1>4. CASE w.kind = "remove"
  BY <1>4 DEF CallsOf, RemoveCalls, Unchunked, PlainKinds
<1> QED
  BY <1>1, <1>2, <1>3, <1>4 DEF PlainKinds

LEMMA AddsOrPlain ==
    ASSUME NEW w \in Writes
    PROVE  /\ Adds(w) <=> w.kind \notin PlainKinds
           /\ MissingPivot(w) => Adds(w)
BY ChunkAssumption DEF Adds, MissingPivot, AddKinds, MapKinds, CreateKinds, PlainKinds

LEMMA CallsAreSequences ==
    ASSUME NEW w \in Writes
    PROVE  CallsOf(w) \in Seq(ToSet(CallsOf(w)))
<1>1. CASE Adds(w)
  BY <1>1, AddsSend DEF Sends, Carry
<1>2. CASE w.kind \in PlainKinds
  <2>1. PICK c : CallsOf(w) = <<c>>
    BY <1>2, PlainCall
  <2>2. \A e : <<e>> \in Seq(ToSet(<<e>>))
    BY DEF ToSet
  <2> QED
    BY <2>1, <2>2
<1> QED
  BY <1>1, <1>2, AddsOrPlain

LEMMA StartsProgress ==
    ASSUME NEW w \in Writes, WellFormed(w)
    PROVE  Progress(w, 0, 0, w.list, 2)
<1> DEFINE all == CallsOf(w)
<1>1. ASSUME Adds(w), ~MissingPivot(w)
      PROVE  0 = Len(Block(w, 0)) /\ (0 < Len(all) => Applies(all[0 + 1], w.list))
  <2>1. Follows(all, w.list)
    BY <1>1, SendsFollow
  <2>2. Block(w, 0) = <<>>
    BY <1>1, BlockEnds
  <2> HIDE DEF all
  <2>3. 0 < Len(all) => all # <<>>
    OBVIOUS
  <2> QED
    BY <2>1, <2>2, <2>3 DEF Follows
<1>2. Takes(w) => Len(w.list) >= 2
  <2>1. Len(w.list) \in Nat
    BY ChunkAssumption
  <2> QED
    BY <2>1 DEF Takes, WellFormed
<1> QED
  BY <1>1, <1>2 DEF Progress

\* Another client only adds elements.
LEMMA DisturbedProgress ==
    ASSUME NEW w \in Writes, NEW k \in Nat, NEW t, NEW s \in Seq(AnyElement), NEW due \in Nat,
           Progress(w, k, t, s, due),
           NEW u \in {<<Foreign>> \o s, Append(s, Foreign)}
    PROVE  u \in Seq(AnyElement) /\ Progress(w, k, t, u, due)
<1>1. GrowsBy(s, u, 1) /\ ToSet(u) \subseteq ToSet(s) \cup {Foreign}
  <2>0. Foreign \in AnyElement
    BY DEF AnyElement
  <2>1. u \in Seq(AnyElement) /\ Len(u) = Len(s) + 1
    <3>1. \A x \in AnyElement : /\ <<x>> \o s \in Seq(AnyElement) /\ Len(<<x>> \o s) = Len(s) + 1
                                /\ Append(s, x) \in Seq(AnyElement) /\ Len(Append(s, x)) = Len(s) + 1
      OBVIOUS
    <3> QED
      BY <2>0, <3>1
  <2>2. /\ \A j \in 1 .. Len(s) : \E m \in 1 .. Len(u) : u[m] = s[j]
        /\ \A m \in 1 .. Len(u) : u[m] = Foreign \/ \E j \in 1 .. Len(s) : u[m] = s[j]
    <3>1. CASE u = Append(s, Foreign)
      <4>1. \A j \in 1 .. Len(s) : j \in 1 .. Len(u) /\ u[j] = s[j]
        BY <2>0, <2>1, <3>1
      <4>2. \A m \in 1 .. Len(u) : (m \in 1 .. Len(s) /\ u[m] = s[m]) \/ u[m] = Foreign
        BY <2>0, <2>1, <3>1
      <4> QED
        BY <4>1, <4>2
    <3>2. CASE u = <<Foreign>> \o s
      <4>1. \A j \in 1 .. Len(s) : j + 1 \in 1 .. Len(u) /\ u[j + 1] = s[j]
        BY <2>0, <2>1, <3>2
      <4>2. \A m \in 1 .. Len(u) : (m - 1 \in 1 .. Len(s) /\ u[m] = s[m - 1]) \/ u[m] = Foreign
        BY <2>0, <2>1, <3>2
      <4> QED
        BY <4>1, <4>2
    <3> QED
      BY <3>1, <3>2
  <2>3. DOMAIN u = 1 .. Len(u) /\ DOMAIN s = 1 .. Len(s)
    BY <2>1
  <2>4. ASSUME NEW e \in ToSet(s) PROVE e \in ToSet(u)
    <3>1. PICK j \in 1 .. Len(s) : e = s[j]
      BY <2>3, <2>4, Zenon DEF ToSet
    <3>2. PICK m \in 1 .. Len(u) : u[m] = s[j]
      BY <2>2
    <3> QED
      BY <2>3, <3>1, <3>2, Zenon DEF ToSet
  <2>5. ToSet(u) \subseteq ToSet(s) \cup {Foreign}
    BY <2>2, <2>3, Zenon DEF ToSet
  <2> QED
    BY <2>1, <2>4, <2>5 DEF GrowsBy
<1>2. Adds(w) /\ ~MissingPivot(w) => (k < Len(CallsOf(w)) => Applies(CallsOf(w)[k + 1], u))
  BY <1>1, StillApplies DEF Progress
<1>3. Takes(w) => (k = 0 => Len(u) >= due)
  <2>1. Len(s) \in Nat /\ Len(u) = Len(s) + 1
    BY <1>1 DEF GrowsBy
  <2> QED
    BY <2>1 DEF Progress
<1>4. MissingPivot(w) => ToSet(u) \subseteq ToSet(w.list) \cup {Foreign}
  BY <1>1 DEF Progress
<1> QED
  BY <1>1, <1>2, <1>3, <1>4 DEF Progress, GrowsBy

\* A call of a write that adds elements, carried out at its place.
LEMMA CarriedAdd ==
    ASSUME NEW w \in Writes, WellFormed(w), Adds(w), ~MissingPivot(w),
           NEW k \in Nat, k < Len(CallsOf(w)), NEW t, NEW s \in Seq(AnyElement), NEW due,
           Progress(w, k, t, s, due),
           NEW u, u = Applied(CallsOf(w)[k + 1], s)
    PROVE  /\ u \in Seq(AnyElement)
           /\ \A d : Progress(w, k, t, u, d) /\ Progress(w, k + 1, t + Answered(s, u), u, d)
<1> DEFINE all == CallsOf(w)
           c == all[k + 1]
<1>1. Carry(all, Vals(all)) /\ Follows(all, w.list)
  BY AddsSend, SendsFollow DEF Sends
<1>2. Applies(c, s) /\ t = Len(Block(w, k))
  BY DEF Progress
<1>3. ~Takes(w) /\ ~Keeps(w)
  BY Kinds
<1>4. Len(all) \in Nat /\ k + 1 \in 1 .. Len(all)
  BY <1>1, CarryLength
<1>12. /\ Block(w, k) \in Seq(DOMAIN Raw) /\ c.vals \in Seq(DOMAIN Raw)
       /\ Block(w, k + 1) \in {c.vals \o Block(w, k), Block(w, k) \o c.vals}
  BY BlockStep
<1> HIDE DEF all
<1> HIDE DEF c
<1>5. GrowsBy(s, u, Len(c.vals)) /\ ToSet(c.vals) \subseteq ToSet(u)
  <2>1. c.vals \in Seq(AnyElement)
    BY <1>12 DEF AnyElement
  <2>2. u = Applied(c, s)
    BY DEF c, all
  <2> QED
    BY <1>2, <2>1, <2>2, AppliedGrows
<1>6. u \in Seq(AnyElement) /\ Applies(c, u)
  <2>1. Len(c.vals) \in Nat
    BY <1>12
  <2> QED
    BY <1>2, <1>5, <2>1, StillApplies DEF GrowsBy
<1>7. Answered(s, u) = Len(c.vals)
  <2>1. Len(u) = Len(s) + Len(c.vals) /\ Len(c.vals) \in Nat /\ Len(s) \in Nat
    BY <1>5, <1>12 DEF GrowsBy
  <2> QED
    BY <2>1 DEF Answered
<1>8. t + Answered(s, u) = Len(Block(w, k + 1))
  <2> DEFINE b == Block(w, k)
             x == c.vals
  <2>1. Block(w, k + 1) \in {x \o b, b \o x} /\ b \in Seq(DOMAIN Raw) /\ x \in Seq(DOMAIN Raw)
    BY <1>12
  <2>2. t = Len(b) /\ Answered(s, u) = Len(x)
    BY <1>2, <1>7
  <2> HIDE DEF b, x
  <2>3. Len(x \o b) = Len(x) + Len(b) /\ Len(b \o x) = Len(b) + Len(x)
    BY <2>1
  <2> QED
    BY <2>1, <2>2, <2>3
<1>9. k + 1 < Len(all) => Applies(all[(k + 1) + 1], u)
  <2>1. k + 1 < Len(all) => k + 1 \in 1 .. Len(all) - 1
    BY <1>4
  <2> QED
    BY <1>1, <1>2, <1>5, <1>6, <2>1 DEF Follows, c
<1>10. ASSUME NEW d PROVE Progress(w, k, t, u, d)
  BY <1>2, <1>3, <1>6 DEF Progress, c, all
<1>11. ASSUME NEW d PROVE Progress(w, k + 1, t + Answered(s, u), u, d)
  BY <1>3, <1>8, <1>9 DEF Progress, all
<1> QED
  BY <1>6, <1>10, <1>11

\* A call next to an element that is not there.
LEMMA CarriedMissing ==
    ASSUME NEW w \in Writes, WellFormed(w), MissingPivot(w),
           NEW k \in Nat, k < Len(CallsOf(w)), NEW t, NEW s \in Seq(AnyElement), NEW due,
           Progress(w, k, t, s, due),
           NEW u, u = Applied(CallsOf(w)[k + 1], s)
    PROVE  /\ u \in Seq(AnyElement)
           /\ \A d : Progress(w, k, t, u, d) /\ Progress(w, k + 1, t + Answered(s, u), u, d)
<1> DEFINE all == CallsOf(w)
           c == all[k + 1]
<1>1. Adds(w) /\ ~Takes(w) /\ ~Keeps(w)
  BY Kinds
<1>2. t = 0 /\ ToSet(s) \subseteq ToSet(w.list) \cup {Foreign}
  BY DEF Progress
<1>3. c.op \in {"before", "after"} /\ c.pivot \notin ToSet(s)
  <2>1. all \in Seq(ToSet(all))
    BY CallsAreSequences
  <2>2. k + 1 \in 1 .. Len(all)
    BY <2>1
  <2> QED
    BY <1>2, <2>2, MissingPivots DEF WellFormed, MissingPivot
<1>4. Applied(c, s) = s
  BY <1>3 DEF Applied, AppliedAt, MapKinds, CreateKinds
<1>5. Answered(s, s) = 0
  <2>1. Len(s) \in Nat
    OBVIOUS
  <2> QED
    BY <2>1 DEF Answered
<1> HIDE DEF c
<1>6. u = s
  BY <1>4 DEF c, all
<1> QED
  BY <1>1, <1>2, <1>5, <1>6 DEF Progress

\* A call that takes an element, or none.
LEMMA CarriedTake ==
    ASSUME NEW w \in Writes, WellFormed(w), Takes(w),
           NEW k \in Nat, k < Len(CallsOf(w)), NEW t, NEW s \in Seq(AnyElement), NEW due \in Nat \ {0},
           Progress(w, k, t, s, due),
           NEW u, u = Applied(CallsOf(w)[k + 1], s)
    PROVE  /\ u \in Seq(AnyElement)
           /\ Progress(w, k, t, u, due - 1)
           /\ \A d : Progress(w, k + 1, t + Answered(s, u), u, d)
<1>1. PICK c : CallsOf(w) = <<c>> /\ c.op = w.kind
  BY SingleCalls
<1>2. k = 0 /\ CallsOf(w)[k + 1] = c
  BY <1>1
<1>3. t = 0 /\ Len(s) >= due /\ Len(s) \in Nat
  BY <1>2 DEF Progress
<1>4. u = SubSeq(s, 2, Len(s)) \/ u = SubSeq(s, 1, Len(s) - 1)
  BY <1>1, <1>2 DEF Applied, Takes, MapKinds, CreateKinds
<1>5. u \in Seq(AnyElement) /\ Len(u) = Len(s) - 1
  <2>1. /\ SubSeq(s, 2, Len(s)) \in Seq(AnyElement) /\ Len(SubSeq(s, 2, Len(s))) = Len(s) - 1
        /\ SubSeq(s, 1, Len(s) - 1) \in Seq(AnyElement) /\ Len(SubSeq(s, 1, Len(s) - 1)) = Len(s) - 1
    <3>1. Len(s) \in Nat \ {0}
      BY <1>3
    <3> DEFINE N == Len(s)
    <3>2. \A i \in 1 .. N : s[i] \in AnyElement
      OBVIOUS
    <3> HIDE DEF N
    <3>3. N \in Nat \ {0}
      BY <3>1 DEF N
    <3>4. \A i \in 2 .. N : s[i] \in AnyElement
      BY <3>2, <3>3
    <3>5. \A i \in 1 .. N - 1 : s[i] \in AnyElement
      BY <3>2, <3>3
    <3>6. SubSeq(s, 2, N) \in Seq(AnyElement) /\ Len(SubSeq(s, 2, N)) = N - 1
      BY <3>3, <3>4, SubSeqProperties
    <3>7. SubSeq(s, 1, N - 1) \in Seq(AnyElement) /\ Len(SubSeq(s, 1, N - 1)) = N - 1
      BY <3>3, <3>5, SubSeqProperties
    <3> QED
      BY <3>6, <3>7 DEF N
  <2> QED
    BY <1>4, <2>1
<1>6. Answered(s, u) = 1
  BY <1>3, <1>5 DEF Answered
<1>7. Len(u) >= due - 1
  BY <1>3, <1>5
<1>8. ~Adds(w) /\ ~MissingPivot(w) /\ ~Keeps(w)
  BY Kinds
<1> QED
  BY <1>2, <1>3, <1>5, <1>6, <1>7, <1>8 DEF Progress

LEMMA CarriedKeep ==
    ASSUME NEW w \in Writes, WellFormed(w), Keeps(w),
           NEW k \in Nat, k < Len(CallsOf(w)), NEW t, NEW s \in Seq(AnyElement), NEW due,
           Progress(w, k, t, s, due),
           NEW u, u = Applied(CallsOf(w)[k + 1], s)
    PROVE  /\ u \in Seq(AnyElement)
           /\ \A d : Progress(w, k, t, u, d) /\ Progress(w, k + 1, t + Answered(s, u), u, d)
<1>1. PICK c : /\ CallsOf(w) = <<c>> /\ c.op = w.kind
               /\ w.kind = "replace" => c.pivot = w.pivot /\ c.vals = w.data
  BY SingleCalls
<1>2. CallsOf(w)[k + 1] = c
  BY <1>1
<1>3. u \in Seq(AnyElement) /\ Len(u) = Len(s)
  <2>1. CASE w.kind = "stream"
    BY <1>1, <1>2, <2>1 DEF Applied, MapKinds, CreateKinds
  <2>2. CASE w.kind = "replace" /\ w.pivot \notin ToSet(s)
    BY <1>1, <1>2, <2>2 DEF Applied, AppliedAt, MapKinds, CreateKinds
  <2>3. CASE w.kind = "replace" /\ w.pivot \in ToSet(s)
    <3> DEFINE i == FirstIndex(s, w.pivot)
    <3>1. i \in 1 .. Len(s)
      BY <2>3, FirstIndexProperty
    <3>2. u = AppliedAt(c, s) /\ c.pivot = w.pivot
      BY <1>1, <1>2, <2>3 DEF Applied, MapKinds, CreateKinds
    <3>3. u = [s EXCEPT ![i] = c.vals[1]]
      BY <1>1, <2>3, <3>2 DEF AppliedAt
    <3> HIDE DEF i
    <3>4. c.vals[1] \in AnyElement
      <4>1. w.data \in Seq(DOMAIN Raw) /\ w.data # <<>>
        BY <2>3, ChunkAssumption DEF WellFormed
      <4> QED
        BY <1>1, <2>3, <4>1 DEF AnyElement
    <3> QED
      BY <3>1, <3>3, <3>4
  <2> QED
    BY <2>1, <2>2, <2>3 DEF Keeps
<1>4. Answered(s, u) = 0
  BY <1>3 DEF Answered
<1>5. ~Adds(w) /\ ~MissingPivot(w) /\ ~Takes(w)
  BY Kinds
<1> QED
  BY <1>3, <1>4, <1>5 DEF Progress

\* Whatever call it is: it can be repeated, and it can be answered.
LEMMA CarriedProgress ==
    ASSUME NEW w \in Writes, WellFormed(w),
           NEW k \in Nat, k < Len(CallsOf(w)), NEW t, NEW s \in Seq(AnyElement), NEW due \in Nat \ {0},
           Progress(w, k, t, s, due),
           NEW u, u = Applied(CallsOf(w)[k + 1], s)
    PROVE  /\ u \in Seq(AnyElement)
           /\ Progress(w, k, t, u, due - 1)
           /\ \A d : Progress(w, k + 1, t + Answered(s, u), u, d)
<1>1. CASE Adds(w) /\ ~MissingPivot(w)
  BY <1>1, CarriedAdd
<1>2. CASE MissingPivot(w)
  BY <1>2, CarriedMissing
<1>3. CASE Takes(w)
  BY <1>3, CarriedTake
<1>4. CASE Keeps(w)
  BY <1>4, CarriedKeep
<1> QED
  BY <1>1, <1>2, <1>3, <1>4, Kinds

\* When all calls have been answered.
LEMMA FinishedProgress ==
    ASSUME NEW w \in Writes, WellFormed(w), NEW t, NEW s, NEW due,
           Progress(w, Len(CallsOf(w)), t, s, due)
    PROVE  IF w.kind \in {"before", "after"} /\ w.pivot \notin ToSet(w.list)
             THEN t = 0 /\ ToSet(s) \cap ToSet(w.data) = {}
             ELSE t = Asked(w)
<1> DEFINE all == CallsOf(w)
<1>1. CASE MissingPivot(w)
  BY <1>1 DEF Progress, MissingPivot, WellFormed
<1>2. CASE Adds(w) /\ ~MissingPivot(w)
  <2>1. t = Len(Block(w, Len(all)))
    BY <1>2 DEF Progress
  <2>2. Block(w, Len(all)) = w.data
    BY <1>2, BlockEnds
  <2>4. t = Len(w.data)
    BY <2>1, <2>2
  <2>5. Asked(w) = Len(w.data)
    <3>1. ~Takes(w) /\ ~Keeps(w)
      BY <1>2, Kinds
    <3> QED
      BY <3>1 DEF Asked, Takes, Keeps
  <2> QED
    BY <1>2, <2>4, <2>5 DEF MissingPivot
<1>3. CASE Takes(w) \/ Keeps(w)
  <2>1. ~(w.kind \in {"before", "after"} /\ w.pivot \notin ToSet(w.list))
    BY <1>3, Kinds DEF MissingPivot
  <2>2. PICK c : all = <<c>>
    BY <1>3, SingleCalls
  <2>3. Len(all) = 1
    BY <2>2
  <2>4. t = Asked(w)
    BY <1>3, <2>3 DEF Progress, Asked, Takes, Keeps
  <2> QED
    BY <2>1, <2>4
<1> QED
  BY <1>1, <1>2, <1>3, Kinds

-----------------------------------------------------------------------------
(* The pipeline.                                                            *)

\* All calls but the first k.
Remaining(all, k) == SubSeq(all, k + 1, Len(all))

LEMMA RemainingSteps ==
    ASSUME NEW S, NEW all \in Seq(S), NEW k \in 0 .. Len(all)
    PROVE  /\ Remaining(all, k) = <<>> <=> k = Len(all)
           /\ k < Len(all) => /\ Head(Remaining(all, k)) = all[k + 1]
                              /\ Tail(Remaining(all, k)) = Remaining(all, k + 1)
           /\ Remaining(all, 0) = all
BY DEF Remaining

\* What a call that takes an element is sure to find, if it is repeated too.
Due == IF outcome # "running" THEN 0 ELSE IF attempt = "repeat" THEN 1 ELSE 2

CompleteInv ==
    /\ write \in Writes
    /\ list \in Seq(AnyElement)
    /\ attempt # "none" => outcome = "running" /\ calls # <<>>
    /\ outcome = "done" => calls = <<>>
    /\ \E k \in 0 .. Len(CallsOf(write)) :
          calls = Remaining(CallsOf(write), k) /\ Progress(write, k, total, list, Due)

LEMMA StartsComplete ==
    ASSUME \A w \in Writes : WellFormed(w), Init
    PROVE  CompleteInv
<1>1. write \in Writes /\ WellFormed(write)
  BY DEF Init
<1>2. list \in Seq(AnyElement)
  BY <1>1, WriteTypes DEF Init
<1> DEFINE all == CallsOf(write)
<1>3. all \in Seq(ToSet(all))
  BY <1>1, CallsAreSequences
<1>4. calls = all
  BY DEF Init
<1>5. attempt # "none" => calls # <<>>
  <2>1. CASE write.kind \in CreateKinds
    BY <1>1, <1>4, <2>1, CreateSends
  <2>2. CASE write.kind \in PlainKinds
    <3>1. Takes(write) \/ Keeps(write)
      BY <1>1, <2>2 DEF WellFormed, Takes, Keeps, PlainKinds
    <3>2. PICK c : all = <<c>>
      BY <1>1, <3>1, SingleCalls
    <3> QED
      BY <1>4, <3>2
  <2> QED
    BY <2>1, <2>2 DEF Init
<1> HIDE DEF all
<1>6. 0 \in 0 .. Len(all) /\ calls = Remaining(all, 0)
  <2>1. 0 \in 0 .. Len(all)
    BY <1>3
  <2> QED
    BY <1>3, <1>4, <2>1, RemainingSteps
<1>7. Due = 2
  BY DEF Due, Init
<1>8. Progress(write, 0, total, list, Due)
  BY <1>1, <1>7, StartsProgress DEF Init
<1>9. outcome = "running"
  BY DEF Init
<1> QED
  BY <1>1, <1>2, <1>5, <1>6, <1>8, <1>9 DEF CompleteInv, all

LEMMA WeakerProgress ==
    ASSUME NEW w, NEW k, NEW t, NEW s \in Seq(AnyElement), NEW due \in Nat, NEW d \in Nat, d <= due,
           Progress(w, k, t, s, due)
    PROVE  Progress(w, k, t, s, d)
<1>1. Len(s) \in Nat
  OBVIOUS
<1> QED
  BY <1>1 DEF Progress

\* What the call under way does to the list.
LEMMA CarriedOut ==
    ASSUME \A w \in Writes : WellFormed(w), CompleteInv, attempt # "none", CarryOut
    PROVE  /\ list' \in Seq(AnyElement)
           /\ \E k \in 0 .. Len(CallsOf(write)) :
                 /\ k + 1 \in 0 .. Len(CallsOf(write))
                 /\ calls = Remaining(CallsOf(write), k)
                 /\ Tail(calls) = Remaining(CallsOf(write), k + 1)
                 /\ Progress(write, k, total, list', Due - 1)
                 /\ \A d : Progress(write, k + 1, total + Answered(list, list'), list', d)
<1> DEFINE all == CallsOf(write)
<1>1. write \in Writes /\ WellFormed(write) /\ list \in Seq(AnyElement) /\ calls # <<>>
  BY DEF CompleteInv
<1>2. PICK k \in 0 .. Len(all) : calls = Remaining(all, k) /\ Progress(write, k, total, list, Due)
  BY DEF CompleteInv
<1>3. all \in Seq(ToSet(all))
  BY <1>1, CallsAreSequences
<1>4. Due \in Nat \ {0}
  BY DEF CompleteInv, Due
<1>5. list' = Applied(Head(calls), list)
  BY DEF CarryOut
<1> HIDE DEF all
<1>6. k \in Nat /\ k < Len(all) /\ k + 1 \in 0 .. Len(all)
  <2>1. Len(all) \in Nat /\ k # Len(all)
    BY <1>1, <1>2, <1>3, RemainingSteps
  <2> QED
    BY <2>1
<1>7. Head(calls) = all[k + 1] /\ Tail(calls) = Remaining(all, k + 1)
  BY <1>2, <1>3, <1>6, RemainingSteps
<1>8. list' = Applied(all[k + 1], list)
  BY <1>5, <1>7
<1>9. /\ list' \in Seq(AnyElement)
      /\ Progress(write, k, total, list', Due - 1)
      /\ \A d : Progress(write, k + 1, total + Answered(list, list'), list', d)
  BY <1>1, <1>2, <1>4, <1>6, <1>8, CarriedProgress DEF all
<1> QED
  BY <1>2, <1>6, <1>7, <1>9 DEF all

LEMMA StaysComplete ==
    ASSUME \A w \in Writes : WellFormed(w), CompleteInv, [Next]_vars
    PROVE  CompleteInv'
<1> DEFINE all == CallsOf(write)
           Reached(k) == calls' = Remaining(all, k) /\ Progress(write, k, total', list', Due')
<1>0. write \in Writes /\ list \in Seq(AnyElement) /\ all \in Seq(ToSet(all))
  BY CallsAreSequences DEF CompleteInv
<1>1. PICK k \in 0 .. Len(all) : calls = Remaining(all, k) /\ Progress(write, k, total, list, Due)
  BY DEF CompleteInv
<1>2. Due \in Nat
  BY DEF Due
<1>3. SUFFICES /\ write' = write /\ list' \in Seq(AnyElement)
               /\ attempt' # "none" => outcome' = "running" /\ calls' # <<>>
               /\ outcome' = "done" => calls' = <<>>
               /\ \E n \in 0 .. Len(all) : Reached(n)
  BY <1>0 DEF CompleteInv
<1>4. CASE Submit
  <2>1. UNCHANGED <<write, calls, list, total, outcome>> /\ attempt' = "first" /\ calls # <<>>
        /\ outcome = "running" /\ attempt = "none"
    BY <1>4 DEF Submit
  <2>2. Due' = Due
    BY <2>1 DEF Due
  <2> QED
    BY <1>0, <1>1, <2>1, <2>2
<1>5. CASE CallReturns
  <2>1. /\ CarryOut /\ attempt # "none" /\ UNCHANGED <<write, outcome>> /\ attempt' = "none"
        /\ total' = total + Answered(list, list') /\ calls' = Tail(calls)
    BY <1>5 DEF CallReturns, CarryOut
  <2>2. outcome = "running"
    BY <2>1 DEF CompleteInv
  <2>3. /\ list' \in Seq(AnyElement)
        /\ \E n \in 0 .. Len(all) :
              /\ n + 1 \in 0 .. Len(all)
              /\ Tail(calls) = Remaining(all, n + 1)
              /\ \A d : Progress(write, n + 1, total + Answered(list, list'), list', d)
    BY <2>1, CarriedOut
  <2>4. \E n \in 0 .. Len(all) : Reached(n)
    BY <2>1, <2>3
  <2> QED
    BY <2>1, <2>2, <2>3, <2>4
<1>6. CASE CallUnavailable
  <2>1. UNCHANGED <<write, calls, total, outcome>> /\ attempt = "first"
    BY <1>6 DEF CallUnavailable
  <2>2. outcome = "running" /\ calls # <<>> /\ Due = 2
    BY <2>1 DEF CompleteInv, Due
  <2>3. CASE CarryOut /\ attempt' = "repeat"
    <3>1. Due' = Due - 1
      BY <2>1, <2>2, <2>3 DEF Due
    <3>2. /\ list' \in Seq(AnyElement)
          /\ \E n \in 0 .. Len(all) : calls = Remaining(all, n) /\ Progress(write, n, total, list', Due - 1)
      BY <2>1, <2>3, CarriedOut
    <3>3. \E n \in 0 .. Len(all) : Reached(n)
      BY <2>1, <3>1, <3>2
    <3> QED
      BY <2>1, <2>2, <3>2, <3>3
  <2>4. CASE list' = list /\ attempt' = "again"
    <3>1. Due' = Due
      BY <2>1, <2>2, <2>4 DEF Due
    <3> QED
      BY <1>0, <1>1, <2>1, <2>2, <2>4, <3>1
  <2> QED
    BY <1>6, <2>3, <2>4 DEF CallUnavailable
<1>7. CASE CallFails
  <2>1. UNCHANGED <<write, calls, total>> /\ attempt # "none" /\ attempt' = "none" /\ outcome' = "failed"
    BY <1>7 DEF CallFails
  <2>2. Due' = 0 /\ Due - 1 \in Nat
    BY <2>1 DEF CompleteInv, Due
  <2>3. CASE CarryOut
    <3>1. /\ list' \in Seq(AnyElement)
          /\ \E n \in 0 .. Len(all) : calls = Remaining(all, n) /\ Progress(write, n, total, list', Due - 1)
      BY <2>1, <2>3, CarriedOut
    <3>2. PICK n \in 0 .. Len(all) : calls = Remaining(all, n) /\ Progress(write, n, total, list', Due - 1)
      BY <3>1
    <3>3. Progress(write, n, total, list', 0)
      BY <2>2, <3>1, <3>2, WeakerProgress
    <3>4. Reached(n)
      BY <2>1, <2>2, <3>2, <3>3
    <3> QED
      BY <2>1, <3>1, <3>4
  <2>4. CASE list' = list
    <3>1. Progress(write, k, total, list, 0)
      BY <1>0, <1>1, <1>2, WeakerProgress
    <3>2. Reached(k)
      BY <1>1, <2>1, <2>2, <2>4, <3>1
    <3> QED
      BY <1>0, <2>1, <2>4, <3>2
  <2> QED
    BY <1>7, <2>3, <2>4 DEF CallFails
<1>8. CASE PipelineEnds
  <2>1. UNCHANGED <<write, calls, attempt, list, total>> /\ calls = <<>> /\ attempt = "none" /\ outcome' = "done"
    BY <1>8 DEF PipelineEnds
  <2>2. Due' = 0
    BY <2>1 DEF Due
  <2>3. Progress(write, k, total, list, 0)
    BY <1>0, <1>1, <1>2, WeakerProgress
  <2>4. Reached(k)
    BY <1>1, <2>1, <2>2, <2>3
  <2> QED
    BY <1>0, <2>1, <2>4
<1>9. CASE ForeignWrite
  <2>1. /\ UNCHANGED <<write, calls, attempt, total, outcome>>
        /\ list' \in {<<Foreign>> \o list, Append(list, Foreign)}
    BY <1>9 DEF ForeignWrite
  <2>2. Due' = Due
    BY <2>1 DEF Due
  <2>3. k \in Nat
    BY <1>0
  <2>4. list' \in Seq(AnyElement) /\ Progress(write, k, total, list', Due)
    BY <1>0, <1>1, <1>2, <2>1, <2>3, DisturbedProgress
  <2>5. Reached(k)
    BY <1>1, <2>1, <2>2, <2>4
  <2> QED
    BY <2>1, <2>4, <2>5 DEF CompleteInv
<1>10. CASE CallerFrees \/ UNCHANGED vars
  <2>1. UNCHANGED <<write, calls, attempt, list, total, outcome>>
    BY <1>10 DEF CallerFrees, vars
  <2>2. Due' = Due
    BY <2>1 DEF Due
  <2>3. Reached(k)
    BY <1>1, <2>1, <2>2
  <2> QED
    BY <1>0, <2>1, <2>3 DEF CompleteInv
<1> QED
  BY <1>4, <1>5, <1>6, <1>7, <1>8, <1>9, <1>10 DEF Next, PipelineStep

(***************************************************************************)
(* An operation that succeeds has added or taken all it was asked to, and  *)
(* said so, once: however its elements were cut into chunks, whatever was  *)
(* repeated, and whatever other clients added in between (smart_client.cpp:*)
(* runAddPipeline and createWithRemainder).                                *)
(***************************************************************************)
THEOREM SuccessCountsEverything ==
    ASSUME \A w \in Writes : WellFormed(w)
    PROVE  Spec => []SuccessIsComplete
<1>1. Init => CompleteInv
  BY StartsComplete
<1>2. CompleteInv /\ [Next]_vars => CompleteInv'
  BY StaysComplete
<1>3. ASSUME CompleteInv PROVE SuccessIsComplete
  <2> SUFFICES ASSUME outcome = "done"
               PROVE  IF write.kind \in {"before", "after"} /\ write.pivot \notin ToSet(write.list)
                        THEN total = 0 /\ ToSet(list) \cap ToSet(write.data) = {}
                        ELSE total = Asked(write)
    BY DEF SuccessIsComplete
  <2> DEFINE all == CallsOf(write)
  <2>1. write \in Writes /\ WellFormed(write) /\ calls = <<>>
    BY <1>3 DEF CompleteInv
  <2>2. PICK k \in 0 .. Len(all) : calls = Remaining(all, k) /\ Progress(write, k, total, list, Due)
    BY <1>3 DEF CompleteInv
  <2>3. all \in Seq(ToSet(all))
    BY <2>1, CallsAreSequences
  <2> HIDE DEF all
  <2>4. k = Len(all)
    BY <2>1, <2>2, <2>3, RemainingSteps
  <2>5. Progress(write, Len(CallsOf(write)), total, list, Due)
    BY <2>2, <2>4 DEF all
  <2> QED
    BY <2>1, <2>5, FinishedProgress
<1> QED
  BY <1>1, <1>2, <1>3, PTL DEF Spec

-----------------------------------------------------------------------------
(* Where the chunks of a write come to lie.                                 *)

\* A block inserted behind a block, or before it, makes one block with it.
LEMMA InsertTwice ==
    ASSUME NEW S, NEW s \in Seq(S), NEW i \in 0 .. Len(s), NEW b \in Seq(S), NEW v \in Seq(S)
    PROVE  LET t == InsertBlock(s, i, b)
           IN  /\ t \in Seq(S) /\ Len(t) = Len(s) + Len(b)
               /\ InsertBlock(t, i + Len(b), v) = InsertBlock(s, i, b \o v)
               /\ InsertBlock(t, i, v) = InsertBlock(s, i, v \o b)
<1> DEFINE p == SubSeq(s, 1, i)
           q == SubSeq(s, i + 1, Len(s))
           t == (p \o b) \o q
<1>1. p \in Seq(S) /\ Len(p) = i /\ q \in Seq(S) /\ Len(q) = Len(s) - i
  BY SplitInTwo
<1>2. \A u : InsertBlock(s, i, u) = (p \o u) \o q
  BY DEF InsertBlock
<1>3. t = InsertBlock(s, i, b)
  BY <1>2
<1> HIDE DEF p, q
<1>4. /\ t \in Seq(S) /\ Len(t) = Len(p) + Len(b) + Len(q)
      /\ SubSeq(t, 1, Len(p) + Len(b)) = p \o b /\ SubSeq(t, Len(p) + Len(b) + 1, Len(t)) = q
      /\ SubSeq(t, 1, Len(p)) = p /\ SubSeq(t, Len(p) + 1, Len(t)) = b \o q
      /\ (p \o b) \o v = p \o (b \o v) /\ (p \o v) \o (b \o q) = (p \o (v \o b)) \o q
  <2>1. ThreeParts(S, (p \o b) \o q, p, b, q, v)
    BY <1>1, PartsOfThree
  <2> QED
    BY <2>1, Zenon DEF ThreeParts
<1> HIDE DEF t
<1>5. InsertBlock(t, i + Len(b), v) = InsertBlock(s, i, b \o v)
  <2>1. InsertBlock(t, i + Len(b), v) = ((p \o b) \o v) \o q
    BY <1>1, <1>4, Zenon DEF InsertBlock
  <2> QED
    BY <1>2, <1>4, <2>1, Zenon
<1>6. InsertBlock(t, i, v) = InsertBlock(s, i, v \o b)
  <2>1. InsertBlock(t, i, v) = (p \o v) \o (b \o q)
    BY <1>1, <1>4, Zenon DEF InsertBlock
  <2> QED
    BY <1>2, <1>4, <2>1, Zenon
<1>7. Len(t) = Len(s) + Len(b)
  <2>1. Len(s) \in Nat /\ Len(b) \in Nat
    OBVIOUS
  <2> QED
    BY <1>1, <1>4, <2>1
<1> QED
  BY <1>3, <1>4, <1>5, <1>6, <1>7

LEMMA InsertNothing ==
    ASSUME NEW S, NEW s \in Seq(S), NEW i \in 0 .. Len(s)
    PROVE  InsertBlock(s, i, <<>>) = s
<1>1. /\ SubSeq(s, 1, i) \in Seq(S) /\ SubSeq(s, 1, i) \o SubSeq(s, i + 1, Len(s)) = s
  BY SplitInTwo
<1>2. \A u \in Seq(S) : u \o <<>> = u
  OBVIOUS
<1> QED
  BY <1>1, <1>2, Zenon DEF InsertBlock

\* What no head write has brought yet comes after what it has.
LEMMA BlockIsPrefix ==
    ASSUME NEW w \in Writes, Adds(w), w.kind # "head", NEW k \in 0 .. Len(CallsOf(w))
    PROVE  \E rest \in Seq(DOMAIN Raw) : w.data = Block(w, k) \o rest
<1> DEFINE chunks == Vals(CallsOf(w))
           E == DOMAIN Raw
<1>1. Sends(w, chunks)
  BY AddsSend
<1>2. chunks \in Seq(Seq(E)) /\ Len(CallsOf(w)) = Len(chunks)
  BY <1>1, CarryLength DEF Sends, Carry
<1>3. FlattenSeq(chunks) = w.data
  BY <1>1 DEF Sends, InOrder
<1>4. Block(w, k) = FlattenSeq(SubSeq(chunks, 1, k))
  BY DEF Block, InOrder
<1> HIDE DEF chunks, E
<1> DEFINE a == SubSeq(chunks, 1, k)
           b == SubSeq(chunks, k + 1, Len(chunks))
<1>5. a \in Seq(Seq(E)) /\ b \in Seq(Seq(E)) /\ a \o b = chunks
  <2>1. k \in 0 .. Len(chunks)
    BY <1>2
  <2> QED
    BY <1>2, <2>1, SplitInTwo
<1> HIDE DEF a, b
<1>6. FlattenSeq(a \o b) = FlattenSeq(a) \o FlattenSeq(b) /\ FlattenSeq(b) \in Seq(E)
  BY <1>5, FlattenConcat, FlattenTypes
<1>7. w.data = Block(w, k) \o FlattenSeq(b)
  BY <1>3, <1>4, <1>5, <1>6, Zenon DEF a
<1> QED
  BY <1>6, <1>7 DEF E

-----------------------------------------------------------------------------
(* The list after the first calls of an operation that no one disturbs.     *)

\* A position is one of the list; the elements that are to go next to one are new, and
\* different from each other.
Placed(w) ==
    /\ w.kind = "position" => w.pos \in 0 .. Len(w.list)
    /\ w.kind \in {"before", "after"} =>
          /\ ToSet(w.data) \cap ToSet(w.list) = {}
          /\ \A i, j \in 1 .. Len(w.data) : w.data[i] = w.data[j] => i = j

\* How many elements of the list stay in front of what w adds.
At(w) ==
    CASE w.kind = "head"     -> 0
      [] w.kind = "position" -> w.pos
      [] w.kind = "before"   -> FirstIndex(w.list, w.pivot) - 1
      [] w.kind = "after"    -> FirstIndex(w.list, w.pivot)
      [] OTHER               -> Len(w.list)

\* The list after k calls.
After(w, k) ==
    IF w.kind \in PlainKinds THEN (IF k = 0 THEN w.list ELSE Unchunked(w))
    ELSE IF MissingPivot(w) THEN w.list
    ELSE InsertBlock(w.list, At(w), Block(w, k))

LEMMA AtTypes ==
    ASSUME NEW w \in Writes, Placed(w), Adds(w), ~MissingPivot(w)
    PROVE  At(w) \in 0 .. Len(w.list)
<1>1. w.list \in Seq(AnyElement) /\ Len(w.list) \in Nat
  BY WriteTypes
<1>2. CASE w.kind \in {"before", "after"}
  <2>1. w.pivot \in ToSet(w.list)
    BY <1>2 DEF MissingPivot
  <2>2. FirstIndex(w.list, w.pivot) \in 1 .. Len(w.list)
    BY <1>1, <2>1, FirstIndexProperty
  <2>3. At(w) \in {FirstIndex(w.list, w.pivot) - 1, FirstIndex(w.list, w.pivot)}
    BY <1>2 DEF At
  <2> QED
    BY <1>1, <2>2, <2>3
<1>3. CASE w.kind \notin {"before", "after"}
  BY <1>1, <1>3 DEF At, Placed
<1> QED
  BY <1>2, <1>3

\* The last element of a block that was inserted among other elements marks its end.
LEMMA EndOfBlock ==
    ASSUME NEW S, NEW s \in Seq(S), NEW at \in 0 .. Len(s), NEW b \in Seq(S), b # <<>>,
           ToSet(b) \cap ToSet(s) = {},
           \A i, j \in 1 .. Len(b) : b[i] = b[j] => i = j
    PROVE  /\ Last(b) \in ToSet(InsertBlock(s, at, b))
           /\ FirstIndex(InsertBlock(s, at, b), Last(b)) = at + Len(b)
<1> DEFINE p == SubSeq(s, 1, at)
           q == SubSeq(s, at + 1, Len(s))
           u == p \o b
           t == u \o q
           n == at + Len(b)
<1>1. /\ p \in Seq(S) /\ Len(p) = at /\ q \in Seq(S) /\ \A i \in 1 .. at : p[i] = s[i] /\ i \in DOMAIN s
  <2>1. p \in Seq(S) /\ Len(p) = at /\ q \in Seq(S)
    BY SplitInTwo
  <2> QED
    BY <2>1
<1>2. t = InsertBlock(s, at, b)
  BY DEF InsertBlock
<1>3. /\ u \in Seq(S) /\ Len(u) = n
      /\ \A i \in 1 .. n : u[i] = IF i <= at THEN p[i] ELSE b[i - at]
  <2>1. p \in Seq(S) /\ b \in Seq(S)
    BY <1>1
  <2> HIDE DEF p
  <2>2. /\ p \o b \in Seq(S) /\ Len(p \o b) = Len(p) + Len(b)
        /\ \A i \in 1 .. Len(p) + Len(b) : (p \o b)[i] = IF i <= Len(p) THEN p[i] ELSE b[i - Len(p)]
    BY ONLY <2>1, ConcatProperties
  <2> QED
    BY <1>1, <2>2
<1>4. Len(b) \in Nat \ {0} /\ at \in Nat /\ n \in 1 .. n /\ n - at = Len(b) /\ ~(n <= at)
  OBVIOUS
<1> HIDE DEF p, q, u, n
<1>5. /\ n \in DOMAIN t /\ \A i \in 1 .. n : i \in DOMAIN t /\ t[i] = u[i]
      /\ DOMAIN t \subseteq Nat \ {0}
  <2>1. /\ t \in Seq(S) /\ Len(t) = Len(u) + Len(q)
        /\ \A i \in 1 .. Len(u) + Len(q) : t[i] = IF i <= Len(u) THEN u[i] ELSE q[i - Len(u)]
    <3>1. u \in Seq(S) /\ q \in Seq(S)
      BY <1>1, <1>3
    <3>2. /\ u \o q \in Seq(S) /\ Len(u \o q) = Len(u) + Len(q)
          /\ \A i \in 1 .. Len(u) + Len(q) : (u \o q)[i] = IF i <= Len(u) THEN u[i] ELSE q[i - Len(u)]
      BY ONLY <3>1, ConcatProperties
    <3> QED
      BY <3>2
  <2>2. Len(q) \in Nat /\ n \in Nat
    BY <1>1, <1>4
  <2> HIDE DEF t
  <2>3. DOMAIN t = 1 .. n + Len(q) /\ \A i \in 1 .. n : i \in 1 .. n + Len(q) /\ i <= n
    BY <1>3, <2>1, <2>2
  <2> QED
    BY <1>3, <1>4, <2>1, <2>3
<1> HIDE DEF t
<1>6. t[n] = Last(b)
  <2>1. u[n] = b[Len(b)]
    BY <1>3, <1>4
  <2> QED
    BY <1>4, <1>5, <2>1 DEF Last
<1>7. \A i \in 1 .. n - 1 : t[i] # Last(b)
  <2> SUFFICES ASSUME NEW i \in 1 .. n - 1 PROVE t[i] # Last(b)
    OBVIOUS
  <2>1. i \in 1 .. n /\ t[i] = u[i]
    BY <1>4, <1>5
  <2>2. Last(b) = b[Len(b)] /\ Len(b) \in 1 .. Len(b) /\ DOMAIN b = 1 .. Len(b)
    BY <1>4 DEF Last
  <2>3. CASE i <= at
    <3>1. i \in 1 .. at /\ t[i] = s[i]
      BY <1>1, <1>3, <2>1, <2>3
    <3>2. s[i] \in ToSet(s)
      BY <1>1, <3>1, Zenon DEF ToSet
    <3>3. Last(b) \in ToSet(b)
      BY <2>2, Zenon DEF ToSet
    <3> QED
      BY <3>1, <3>2, <3>3
  <2>4. CASE ~(i <= at)
    <3>1. t[i] = b[i - at] /\ i - at \in 1 .. Len(b) /\ i - at # Len(b)
      BY <1>3, <1>4, <2>1, <2>4 DEF n
    <3> QED
      BY <2>2, <3>1
  <2> QED
    BY <2>3, <2>4
<1>8. Last(b) \in ToSet(t)
  BY <1>5, <1>6, Zenon DEF ToSet
<1>9. FirstIndex(t, Last(b)) = n
  <2> DEFINE Is(i) == i \in DOMAIN t /\ t[i] = Last(b) /\ \A j \in 1 .. i - 1 : t[j] # Last(b)
  <2>1. Is(n)
    BY <1>5, <1>6, <1>7
  <2>2. DOMAIN t \subseteq Nat \ {0}
    BY <1>5
  <2>3. ASSUME NEW i, Is(i) PROVE i = n
    <3>1. i \in Nat \ {0} /\ n \in Nat \ {0}
      BY <1>4, <2>2, <2>3
    <3>2. ~(n \in 1 .. i - 1) /\ ~(i \in 1 .. n - 1)
      BY <1>6, <1>7, <2>3
    <3> QED
      BY <3>1, <3>2
  <2>4. FirstIndex(t, Last(b)) = CHOOSE i : Is(i)
    BY DEF FirstIndex
  <2> QED
    BY <2>1, <2>3, <2>4
<1> QED
  BY <1>2, <1>8, <1>9 DEF n

LEMMA AfterNone ==
    ASSUME NEW w \in Writes, Placed(w)
    PROVE  After(w, 0) = w.list
<1>1. CASE w.kind \in PlainKinds \/ MissingPivot(w)
  BY <1>1 DEF After
<1>2. CASE Adds(w) /\ ~MissingPivot(w)
  <2>1. After(w, 0) = InsertBlock(w.list, At(w), <<>>)
    BY <1>2, AddsOrPlain, BlockEnds DEF After
  <2>2. InsertBlock(w.list, At(w), <<>>) = w.list
    BY <1>2, AtTypes, WriteTypes, InsertNothing
  <2> QED
    BY <2>1, <2>2
<1> QED
  BY <1>1, <1>2, AddsOrPlain

LEMMA AfterAll ==
    ASSUME NEW w \in Writes, Placed(w)
    PROVE  After(w, Len(CallsOf(w))) = Unchunked(w)
<1>1. CASE w.kind \in PlainKinds
  <2>1. PICK c : CallsOf(w) = <<c>>
    BY <1>1, PlainCall
  <2>2. Len(CallsOf(w)) = 1
    BY <2>1
  <2> QED
    BY <1>1, <2>2 DEF After
<1>2. CASE MissingPivot(w)
  <2> DEFINE c == CallBy(w.kind, w.data, w.pivot)
  <2>1. Unchunked(w) = Applied(c, w.list)
    BY <1>2 DEF Unchunked, MissingPivot, PlainKinds
  <2>2. c.op = w.kind /\ c.pivot = w.pivot
    BY DEF CallBy
  <2>3. Applied(c, w.list) = AppliedAt(c, w.list)
    BY <1>2, <2>2 DEF Applied, MissingPivot, MapKinds, CreateKinds
  <2>4. AppliedAt(c, w.list) = w.list
    BY <1>2, <2>2 DEF AppliedAt, MissingPivot
  <2> QED
    BY <1>2, <2>1, <2>3, <2>4, AddsOrPlain DEF After
<1>3. CASE Adds(w) /\ ~MissingPivot(w)
  <2> DEFINE goal == InsertBlock(w.list, At(w), w.data)
  <2>1. After(w, Len(CallsOf(w))) = goal
    BY <1>3, AddsOrPlain, BlockEnds DEF After
  <2>2. goal = Unchunked(w)
    <3>1. w.list \in Seq(AnyElement) /\ w.data \in Seq(AnyElement)
      BY WriteTypes DEF AnyElement
    <3>2. InsertBlock(w.list, Len(w.list), w.data) = w.list \o w.data
          /\ InsertBlock(w.list, 0, w.data) = w.data \o w.list
      BY <3>1, InsertAtEnds
    <3>3. CASE w.kind = "head"
      <4>1. Unchunked(w) = w.data \o w.list
        BY <3>3 DEF Unchunked, Applied, Call, MapKinds, CreateKinds
      <4> QED
        BY <3>2, <3>3, <4>1 DEF At
    <3>4. CASE w.kind = "position"
      <4>1. Unchunked(w) = InsertBlock(w.list, w.pos, w.data)
        BY <3>4 DEF Unchunked, Applied, CallAt, MapKinds, CreateKinds, PlainKinds
      <4> QED
        BY <3>4, <4>1 DEF At
    <3>5. CASE w.kind \in {"before", "after"}
      <4> DEFINE c == CallBy(w.kind, w.data, w.pivot)
      <4>1. Unchunked(w) = Applied(c, w.list)
        BY <3>5 DEF Unchunked, PlainKinds
      <4>2. c.op = w.kind /\ c.pivot = w.pivot /\ c.vals = w.data
        BY DEF CallBy
      <4>3. Applied(c, w.list) = AppliedAt(c, w.list)
        BY <3>5, <4>2 DEF Applied, MapKinds, CreateKinds
      <4>4. AppliedAt(c, w.list) = goal
        BY <1>3, <3>5, <4>2 DEF AppliedAt, MissingPivot, At
      <4> QED
        BY <4>1, <4>3, <4>4
    <3>6. CASE w.kind \notin {"head", "position", "before", "after"}
      <4>1. Unchunked(w) = Applied(Call("tail", w.data), w.list)
        BY <1>3, <3>6, AddsOrPlain DEF Unchunked, PlainKinds
      <4>2. Applied(Call("tail", w.data), w.list) = w.list \o w.data
        BY DEF Applied, Call
      <4> QED
        BY <3>2, <3>6, <4>1, <4>2 DEF At
    <3> QED
      BY <3>3, <3>4, <3>5, <3>6
  <2> QED
    BY <2>1, <2>2
<1> QED
  BY <1>1, <1>2, <1>3, AddsOrPlain

\* The elements of the last chunk end the block.
LEMMA BlockEndsWithCall ==
    ASSUME NEW w \in Writes, w.kind \in {"before", "after"}, Placed(w),
           NEW k \in 1 .. Len(CallsOf(w))
    PROVE  LET b == Block(w, k)
               vals == CallsOf(w)[k].vals
           IN  /\ b \in Seq(AnyElement) /\ b # <<>> /\ Last(b) = Last(vals)
               /\ ToSet(b) \cap ToSet(w.list) = {}
               /\ \A i, j \in 1 .. Len(b) : b[i] = b[j] => i = j
<1> DEFINE b == Block(w, k)
           vals == CallsOf(w)[k].vals
           chunks == Vals(CallsOf(w))
<1>1. Adds(w) /\ w.kind # "head"
  BY DEF Adds, AddKinds
<1>2. Sends(w, chunks)
  BY <1>1, AddsSend
<1>3. k - 1 \in Nat /\ k - 1 < Len(CallsOf(w)) /\ (k - 1) + 1 = k /\ k \in 0 .. Len(CallsOf(w))
  BY <1>2, CarryLength DEF Sends
<1>4. vals # <<>>
  BY <1>2, CarryLength DEF Sends, Place
<1>5. /\ Block(w, k - 1) \in Seq(DOMAIN Raw) /\ vals \in Seq(DOMAIN Raw)
      /\ b = Block(w, k - 1) \o vals
  <2>1. /\ Block(w, k - 1) \in Seq(DOMAIN Raw) /\ CallsOf(w)[(k - 1) + 1].vals \in Seq(DOMAIN Raw)
        /\ Block(w, (k - 1) + 1) = Block(w, k - 1) \o CallsOf(w)[(k - 1) + 1].vals
    BY <1>1, <1>3, BlockStep
  <2> QED
    BY <1>3, <2>1
<1>6. PICK rest \in Seq(DOMAIN Raw) : w.data = b \o rest
  BY <1>1, <1>3, BlockIsPrefix
<1> HIDE DEF b, vals, chunks
<1>7. b \in Seq(DOMAIN Raw) /\ Len(b) \in Nat /\ b # <<>> /\ Last(b) = Last(vals)
  <2> DEFINE a == Block(w, k - 1)
  <2>1. a \in Seq(DOMAIN Raw) /\ vals \in Seq(DOMAIN Raw) /\ b = a \o vals /\ vals # <<>>
    BY <1>4, <1>5
  <2> HIDE DEF a
  <2>2. /\ Len(a) \in Nat /\ Len(vals) \in Nat \ {0} /\ b \in Seq(DOMAIN Raw) /\ Len(b) = Len(a) + Len(vals)
        /\ \A i \in 1 .. Len(a) + Len(vals) : b[i] = IF i <= Len(a) THEN a[i] ELSE vals[i - Len(a)]
    <3>1. Len(a) \in Nat /\ Len(vals) \in Nat \ {0}
      BY <2>1
    <3> QED
      BY <2>1, <3>1, ConcatProperties
  <2>3. b[Len(b)] = vals[Len(vals)]
    BY <2>2
  <2> QED
    BY <2>2, <2>3 DEF Last
<1>8. Len(w.data) \in Nat /\ \A i \in 1 .. Len(b) : i \in 1 .. Len(w.data) /\ b[i] = w.data[i]
  <2>1. Len(rest) \in Nat /\ Len(w.data) = Len(b) + Len(rest)
        /\ \A i \in 1 .. Len(b) + Len(rest) : w.data[i] = IF i <= Len(b) THEN b[i] ELSE rest[i - Len(b)]
    BY <1>6, <1>7, ConcatProperties
  <2> QED
    BY <1>7, <2>1
<1>9. ToSet(b) \subseteq ToSet(w.data)
  <2>1. DOMAIN b = 1 .. Len(b) /\ DOMAIN w.data = 1 .. Len(w.data)
    BY <1>7, WriteTypes
  <2> QED
    BY <1>8, <2>1, Zenon DEF ToSet
<1>10. b \in Seq(AnyElement)
  BY <1>7 DEF AnyElement
<1>11. ToSet(b) \cap ToSet(w.list) = {}
  BY <1>9 DEF Placed
<1>12. \A i, j \in 1 .. Len(b) : b[i] = b[j] => i = j
  BY <1>8 DEF Placed
<1> QED
  BY <1>7, <1>10, <1>11, <1>12 DEF b, vals

\* The next call puts its elements where the block that came before left off.
LEMMA AddedNext ==
    ASSUME NEW w \in Writes, Placed(w), Adds(w), ~MissingPivot(w), NEW k \in Nat, k < Len(CallsOf(w))
    PROVE  Applied(CallsOf(w)[k + 1], After(w, k)) = After(w, k + 1)
<1> DEFINE all == CallsOf(w)
           chunks == Vals(all)
           c == all[k + 1]
           x == c.vals
           b == Block(w, k)
           L == w.list
           at == At(w)
           S == AnyElement
           t == InsertBlock(L, at, b)
<1>1. L \in Seq(S) /\ at \in 0 .. Len(L) /\ Len(L) \in Nat
  BY AtTypes, WriteTypes
<1>2. /\ Sends(w, chunks) /\ chunks \in Seq(Seq(DOMAIN Raw)) /\ Len(chunks) = Len(all) /\ Len(all) \in Nat
      /\ Place(w, chunks, k + 1, c)
  <2>1. Sends(w, chunks)
    BY AddsSend
  <2>2. chunks \in Seq(Seq(DOMAIN Raw)) /\ Len(chunks) = Len(all) /\ Len(all) \in Nat
    BY <2>1, CarryLength DEF Sends, Carry
  <2>3. k + 1 \in 1 .. Len(all)
    BY <2>2
  <2> QED
    BY <2>1, <2>2, <2>3 DEF Sends
<1>3. /\ b \in Seq(DOMAIN Raw) /\ x \in Seq(DOMAIN Raw)
      /\ Block(w, k + 1) = IF w.kind = "head" THEN x \o b ELSE b \o x
  BY BlockStep
<1>4. b \in Seq(S) /\ x \in Seq(S)
  BY <1>3 DEF AnyElement
<1>5. After(w, k) = t /\ After(w, k + 1) = InsertBlock(L, at, Block(w, k + 1))
  BY AddsOrPlain DEF After
<1>6. /\ t \in Seq(S) /\ Len(t) = Len(L) + Len(b)
      /\ InsertBlock(t, at + Len(b), x) = InsertBlock(L, at, b \o x)
      /\ InsertBlock(t, at, x) = InsertBlock(L, at, x \o b)
  <2> HIDE DEF L, at, b, x, S
  <2> QED
    BY <1>1, <1>4, InsertTwice
<1>7. InsertBlock(t, Len(t), x) = t \o x /\ InsertBlock(t, 0, x) = x \o t
  <2> HIDE DEF t, x, S
  <2> QED
    BY <1>4, <1>6, InsertAtEnds
<1> HIDE DEF t, x, b, L, at
<1>8. SUFFICES Applied(c, t) = InsertBlock(L, at, Block(w, k + 1))
  BY <1>5
<1>9. CASE w.kind = "head"
  <2>1. Applied(c, t) = x \o t
    BY <1>2, <1>9 DEF Place, Applied, x, MapKinds, CreateKinds
  <2>2. at = 0
    BY <1>9 DEF At, at
  <2> QED
    BY <1>3, <1>6, <1>7, <1>9, <2>1, <2>2
<1>10. CASE w.kind \notin {"head", "position", "before", "after"}
  <2>1. Applied(c, t) = t \o x
    BY <1>2, <1>10 DEF Place, EndOps, Applied, x, MapKinds, CreateKinds
  <2>2. at = Len(L)
    BY <1>10 DEF At, at, L
  <2> QED
    BY <1>3, <1>6, <1>7, <1>10, <2>1, <2>2
<1>11. CASE w.kind = "position"
  <2>1. c.op = "position" /\ c.pos = at + Len(b)
    <3>1. c.op = "position" /\ c.pos = w.pos + Len(FlattenSeq(SubSeq(chunks, 1, (k + 1) - 1)))
      BY <1>2, <1>11 DEF Place
    <3>2. b = FlattenSeq(SubSeq(chunks, 1, k)) /\ (k + 1) - 1 = k
      BY <1>11 DEF b, Block, InOrder
    <3>3. at = w.pos
      BY <1>11 DEF At, at
    <3> HIDE DEF c, chunks
    <3> QED
      BY <3>1, <3>2, <3>3
  <2>2. Applied(c, t) = InsertBlock(t, at + Len(b), x)
    BY <2>1 DEF Applied, x, MapKinds, CreateKinds
  <2> QED
    BY <1>3, <1>6, <1>11, <2>2
<1>12. CASE w.kind \in {"before", "after"} /\ k = 0
  <2>1. c.op = w.kind /\ c.pivot = w.pivot
    BY <1>2, <1>12 DEF Place
  <2>2. b = <<>> /\ t = L
    <3>1. b = <<>>
      BY <1>12, BlockEnds DEF b
    <3>2. t = InsertBlock(L, at, <<>>)
      BY <3>1 DEF t
    <3> QED
      BY <1>1, <3>1, <3>2, InsertNothing
  <2>3. Applied(c, L) = AppliedAt(c, L)
    BY <1>12, <2>1 DEF Applied, MapKinds, CreateKinds
  <2>4. AppliedAt(c, L) = InsertBlock(L, at, x)
    BY <1>12, <2>1 DEF AppliedAt, MissingPivot, At, L, at, x
  <2>5. Block(w, k + 1) = x
    BY <1>3, <1>12, <2>2
  <2> QED
    BY <2>2, <2>3, <2>4, <2>5
<1>13. CASE w.kind \in {"before", "after"} /\ k # 0
  <2>1. c.op = "after" /\ c.pivot = Last(chunks[k])
    <3>1. k + 1 # 1 /\ (k + 1) - 1 = k
      BY <1>13
    <3> QED
      BY <1>2, <1>13, <3>1 DEF Place
  <2>2. k \in 1 .. Len(all) /\ chunks[k] = all[k].vals
    <3>1. k \in 1 .. Len(all)
      BY <1>2, <1>13
    <3> QED
      BY <1>2, <3>1, CarryLength DEF Sends
  <2>3. /\ b # <<>> /\ Last(b) = c.pivot /\ ToSet(b) \cap ToSet(L) = {}
        /\ \A i, j \in 1 .. Len(b) : b[i] = b[j] => i = j
    BY <1>13, <2>1, <2>2, BlockEndsWithCall DEF b, L
  <2>4. c.pivot \in ToSet(t) /\ FirstIndex(t, c.pivot) = at + Len(b)
    <3> HIDE DEF c, S
    <3>1. Last(b) \in ToSet(InsertBlock(L, at, b)) /\ FirstIndex(InsertBlock(L, at, b), Last(b)) = at + Len(b)
      BY <1>1, <1>4, <2>3, EndOfBlock
    <3> QED
      BY <2>3, <3>1 DEF t
  <2>5. Applied(c, t) = AppliedAt(c, t)
    BY <2>1 DEF Applied, MapKinds, CreateKinds
  <2>6. AppliedAt(c, t) = InsertBlock(t, at + Len(b), x)
    BY <2>1, <2>4 DEF AppliedAt, x
  <2> QED
    BY <1>3, <1>6, <1>13, <2>5, <2>6
<1> QED
  BY <1>9, <1>10, <1>11, <1>12, <1>13

LEMMA AfterNext ==
    ASSUME NEW w \in Writes, Placed(w), NEW k \in Nat, k < Len(CallsOf(w))
    PROVE  Applied(CallsOf(w)[k + 1], After(w, k)) = After(w, k + 1)
<1>1. CASE w.kind \in PlainKinds
  <2>1. PICK c : CallsOf(w) = <<c>> /\ Applied(c, w.list) = Unchunked(w)
    BY <1>1, PlainCall
  <2>2. k = 0 /\ CallsOf(w)[k + 1] = c
    BY <2>1
  <2>3. After(w, k) = w.list /\ After(w, k + 1) = Unchunked(w)
    BY <1>1, <2>2 DEF After
  <2> QED
    BY <2>1, <2>2, <2>3
<1>2. CASE MissingPivot(w)
  <2> DEFINE c == CallsOf(w)[k + 1]
  <2>1. c.op \in {"before", "after"} /\ c.pivot \notin ToSet(w.list)
    <3>1. CallsOf(w) \in Seq(ToSet(CallsOf(w)))
      BY CallsAreSequences
    <3>2. k + 1 \in 1 .. Len(CallsOf(w))
      BY <3>1
    <3>3. c.op \in {"before", "after"} /\ c.pivot \in ToSet(w.data) \cup {w.pivot}
      BY <1>2, <3>2, MissingPivots
    <3>4. (ToSet(w.data) \cup {w.pivot}) \cap ToSet(w.list) = {}
      BY <1>2 DEF Placed, MissingPivot
    <3> QED
      BY <3>3, <3>4
  <2> HIDE DEF c
  <2>2. Applied(c, w.list) = w.list
    BY <2>1 DEF Applied, AppliedAt, MapKinds, CreateKinds
  <2>3. After(w, k) = w.list /\ After(w, k + 1) = w.list
    BY <1>2, AddsOrPlain DEF After
  <2> QED
    BY <2>2, <2>3 DEF c
<1>3. CASE Adds(w) /\ ~MissingPivot(w)
  BY <1>3, AddedNext
<1> QED
  BY <1>1, <1>2, <1>3, AddsOrPlain

-----------------------------------------------------------------------------
(* Undisturbed, the list is what the calls that have returned make of it.   *)

\* Until the call under way has been carried out and answered UNAVAILABLE: then either its
\* repetition is counted, or it fails.
Undisturbed == foreign = 0 /\ repeats = 0 /\ outcome # "failed" /\ attempt # "repeat"

InvisibleInv ==
    /\ write \in Writes /\ foreign \in Nat /\ repeats \in Nat
    /\ attempt # "none" => calls # <<>>
    /\ outcome = "done" => calls = <<>>
    /\ \E k \in 0 .. Len(CallsOf(write)) :
          calls = Remaining(CallsOf(write), k) /\ (Undisturbed => list = After(write, k))

LEMMA StartsInvisible ==
    ASSUME \A w \in Writes : Placed(w), Init
    PROVE  InvisibleInv
<1>1. write \in Writes /\ Placed(write) /\ foreign = 0 /\ repeats = 0 /\ outcome = "running"
  BY DEF Init
<1> DEFINE all == CallsOf(write)
<1>2. all \in Seq(ToSet(all)) /\ calls = all
  BY <1>1, CallsAreSequences DEF Init
<1>3. attempt # "none" => calls # <<>>
  <2>1. CASE write.kind \in CreateKinds
    BY <1>1, <1>2, <2>1, CreateSends
  <2>2. CASE write.kind \in PlainKinds
    <3>1. PICK c : all = <<c>>
      BY <1>1, <2>2, PlainCall
    <3> QED
      BY <1>2, <3>1
  <2> QED
    BY <2>1, <2>2 DEF Init
<1>4. list = After(write, 0)
  BY <1>1, AfterNone DEF Init
<1> HIDE DEF all
<1>5. 0 \in 0 .. Len(all) /\ calls = Remaining(all, 0)
  <2>1. 0 \in 0 .. Len(all)
    BY <1>2
  <2> QED
    BY <1>2, <2>1, RemainingSteps
<1> QED
  BY <1>1, <1>3, <1>4, <1>5 DEF InvisibleInv, all

LEMMA StaysInvisible ==
    ASSUME \A w \in Writes : Placed(w), InvisibleInv, [Next]_vars
    PROVE  InvisibleInv'
<1> DEFINE all == CallsOf(write)
           Reached(k) == calls' = Remaining(all, k) /\ (Undisturbed' => list' = After(write, k))
<1>0. write \in Writes /\ Placed(write) /\ foreign \in Nat /\ repeats \in Nat /\ all \in Seq(ToSet(all))
  BY CallsAreSequences DEF InvisibleInv
<1>1. PICK k \in 0 .. Len(all) : calls = Remaining(all, k) /\ (Undisturbed => list = After(write, k))
  BY DEF InvisibleInv
<1>2. (attempt # "none" => calls # <<>>) /\ (outcome = "done" => calls = <<>>)
  BY DEF InvisibleInv
<1>3. SUFFICES /\ write' = write /\ foreign' \in Nat /\ repeats' \in Nat
               /\ attempt' # "none" => calls' # <<>>
               /\ outcome' = "done" => calls' = <<>>
               /\ \E n \in 0 .. Len(all) : Reached(n)
  BY <1>0 DEF InvisibleInv
<1>4. CASE Submit
  <2>1. /\ UNCHANGED <<write, calls, list, outcome, foreign, repeats>> /\ attempt' = "first"
        /\ attempt = "none" /\ calls # <<>>
    BY <1>4 DEF Submit
  <2>2. Undisturbed' => Undisturbed
    BY <2>1 DEF Undisturbed
  <2>3. Reached(k)
    BY <1>1, <2>1, <2>2
  <2> QED
    BY <1>0, <1>2, <2>1, <2>3
<1>5. CASE CallReturns
  <2>1. /\ UNCHANGED <<write, outcome, foreign>> /\ attempt # "none" /\ attempt' = "none"
        /\ list' = Applied(Head(calls), list) /\ calls' = Tail(calls)
        /\ repeats' = repeats + (IF attempt = "repeat" THEN 1 ELSE 0)
    BY <1>5 DEF CallReturns, CarryOut
  <2>2. calls # <<>> /\ outcome # "done"
    BY <1>2, <2>1
  <2>3. k \in Nat /\ k < Len(all) /\ k + 1 \in 0 .. Len(all)
    <3>1. Len(all) \in Nat /\ k # Len(all)
      BY <1>0, <1>1, <2>2, RemainingSteps
    <3> QED
      BY <3>1
  <2>4. Head(calls) = all[k + 1] /\ Tail(calls) = Remaining(all, k + 1)
    BY <1>0, <1>1, <2>3, RemainingSteps
  <2>5. Undisturbed' => list' = After(write, k + 1)
    <3>1. ASSUME Undisturbed' PROVE Undisturbed
      BY <1>0, <2>1, <3>1 DEF Undisturbed
    <3>2. Applied(all[k + 1], After(write, k)) = After(write, k + 1)
      BY <1>0, <2>3, AfterNext
    <3> QED
      BY <1>1, <2>1, <2>4, <3>1, <3>2
  <2>6. Reached(k + 1)
    BY <2>1, <2>4, <2>5
  <2>7. repeats' \in Nat
    BY <1>0, <2>1
  <2> QED
    BY <1>0, <2>1, <2>2, <2>3, <2>6, <2>7
<1>6. CASE CallUnavailable
  <2>1. /\ UNCHANGED <<write, calls, outcome, foreign>> /\ attempt = "first"
        /\ \/ attempt' = "repeat" /\ repeats' = repeats + 0
           \/ attempt' = "again" /\ list' = list /\ repeats' = repeats
    BY <1>6 DEF CallUnavailable, CarryOut
  <2>2. Undisturbed' => Undisturbed /\ list' = list
    BY <1>0, <2>1 DEF Undisturbed
  <2>3. Reached(k)
    BY <1>1, <2>1, <2>2
  <2> QED
    BY <1>0, <1>2, <2>1, <2>3
<1>7. CASE CallFails
  <2>1. /\ UNCHANGED <<write, calls, foreign>> /\ attempt' = "none" /\ outcome' = "failed"
        /\ repeats' = repeats + (IF attempt = "repeat" THEN 1 ELSE 0) \/ repeats' = repeats
    BY <1>7 DEF CallFails, CarryOut
  <2>2. ~Undisturbed'
    BY <2>1 DEF Undisturbed
  <2>3. Reached(k)
    BY <1>1, <2>1, <2>2
  <2> QED
    BY <1>0, <2>1, <2>3
<1>8. CASE PipelineEnds
  <2>1. /\ UNCHANGED <<write, calls, attempt, list, foreign, repeats>>
        /\ outcome = "running" /\ calls = <<>> /\ attempt = "none"
    BY <1>8 DEF PipelineEnds
  <2>2. Undisturbed' => Undisturbed
    BY <2>1 DEF Undisturbed
  <2>3. Reached(k)
    BY <1>1, <2>1, <2>2
  <2> QED
    BY <1>0, <2>1, <2>3
<1>9. CASE ForeignWrite
  <2>1. UNCHANGED <<write, calls, attempt, outcome, repeats>> /\ foreign' = foreign + 1
    BY <1>9 DEF ForeignWrite
  <2>2. foreign' \in Nat /\ ~Undisturbed'
    BY <1>0, <2>1 DEF Undisturbed
  <2>3. Reached(k)
    BY <1>1, <2>1, <2>2
  <2> QED
    BY <1>0, <1>2, <2>1, <2>2, <2>3
<1>10. CASE CallerFrees \/ UNCHANGED vars
  <2>1. UNCHANGED <<write, calls, attempt, list, outcome, foreign, repeats>>
    BY <1>10 DEF CallerFrees, vars
  <2>2. Undisturbed' => Undisturbed
    BY <2>1 DEF Undisturbed
  <2>3. Reached(k)
    BY <1>1, <2>1, <2>2
  <2> QED
    BY <1>0, <1>2, <2>1, <2>3
<1> QED
  BY <1>4, <1>5, <1>6, <1>7, <1>8, <1>9, <1>10 DEF Next, PipelineStep

(***************************************************************************)
(* An operation that succeeds while no one else writes, and no call of     *)
(* which was carried out twice, leaves the container as it would in one    *)
(* RPC, however small its chunks: what HeadCalls, PositionCalls and        *)
(* PivotCalls make of the chunks (smart_client.cpp: addElementToHead,      *)
(* addElementToPosition, ...Before, ...After) puts them in their place.    *)
(***************************************************************************)
THEOREM ChunksAreInvisible ==
    ASSUME \A w \in Writes : Placed(w)
    PROVE  Spec => []ChunkingIsInvisible
<1>1. Init => InvisibleInv
  BY StartsInvisible
<1>2. InvisibleInv /\ [Next]_vars => InvisibleInv'
  BY StaysInvisible
<1>3. ASSUME InvisibleInv PROVE ChunkingIsInvisible
  <2> SUFFICES ASSUME outcome = "done", foreign = 0, repeats = 0
               PROVE  list = Unchunked(write)
    BY DEF ChunkingIsInvisible
  <2> DEFINE all == CallsOf(write)
  <2>1. /\ write \in Writes /\ Placed(write) /\ calls = <<>> /\ attempt = "none"
        /\ all \in Seq(ToSet(all))
    BY <1>3, CallsAreSequences DEF InvisibleInv
  <2>2. PICK k \in 0 .. Len(all) : calls = Remaining(all, k) /\ (Undisturbed => list = After(write, k))
    BY <1>3 DEF InvisibleInv
  <2>3. Undisturbed
    BY <2>1 DEF Undisturbed
  <2>4. k = Len(all)
    <3> HIDE DEF all
    <3> QED
      BY <2>1, <2>2, RemainingSteps
  <2>5. list = After(write, Len(CallsOf(write)))
    BY <2>2, <2>3, <2>4
  <2> QED
    BY <2>1, <2>5, AfterAll
<1> QED
  BY <1>1, <1>2, <1>3, PTL DEF Spec

-----------------------------------------------------------------------------
(* The estimates and what is sent.                                          *)

LEMMA SumMonotone ==
    ASSUME NEW E, NEW items \in Seq(E), NEW f, NEW g, Sized(E, f), Sized(E, g), \A e \in E : f[e] <= g[e]
    PROVE  SumOf(items, f) <= SumOf(items, g)
<1> DEFINE T == {u \in Seq(E) : SumOf(u, f) <= SumOf(u, g)}
<1>1. <<>> \in T
  <2>1. SumOf(<<>>, f) = 0 /\ SumOf(<<>>, g) = 0
    BY SumEmpty
  <2> QED
    BY <2>1
<1>2. ASSUME NEW u \in Seq(E), NEW x \in E, u \in T PROVE Append(u, x) \in T
  <2>1. SumOf(Append(u, x), f) = SumOf(u, f) + f[x] /\ SumOf(Append(u, x), g) = SumOf(u, g) + g[x]
    BY SumAppend
  <2>2. SumOf(u, f) \in Nat /\ SumOf(u, g) \in Nat
    BY SumTypes
  <2>3. f[x] \in Nat /\ g[x] \in Nat /\ f[x] <= g[x] /\ SumOf(u, f) <= SumOf(u, g)
    BY <1>2 DEF Sized
  <2>4. SumOf(Append(u, x), f) <= SumOf(Append(u, x), g)
    BY <2>1, <2>2, <2>3
  <2> QED
    BY <2>4
<1> HIDE DEF T
<1>3. items \in T
  BY <1>1, <1>2, AppendInduction
<1> QED
  BY <1>3 DEF T

\* The values of map entries, null values included.
Seconds(entries) == [i \in DOMAIN entries |-> entries[i][2]]

LEMMA HalvesOfAppend ==
    ASSUME NEW E, NEW u \in Seq(E), NEW x \in E
    PROVE  /\ Keys(Append(u, x)) = Append(Keys(u), x[1])
           /\ Seconds(Append(u, x)) = Append(Seconds(u), x[2])
           /\ Seconds(u) \in Seq({e[2] : e \in E}) /\ Keys(u) \in Seq({e[1] : e \in E})
BY DEF Keys, Seconds

\* The size of an entry covers its key, and its value unless that is null.
Covers(pair, key, value, S, e) ==
    /\ pair[e] \in Nat /\ key[e[1]] \in Nat
    /\ e[2] \in S => value[e[2]] \in Nat
    /\ key[e[1]] + (IF e[2] \in S THEN value[e[2]] ELSE 0) <= pair[e]

LEMMA PairSums ==
    ASSUME NEW E, NEW entries \in Seq(E), NEW key, NEW value, NEW pair, NEW S,
           \A e \in E : Covers(pair, key, value, S, e)
    PROVE  /\ SumOf(Keys(entries), key) + SumOf(Among(Seconds(entries), S), value) <= SumOf(entries, pair)
           /\ SumOf(Keys(entries), key) \in Nat /\ SumOf(Among(Seconds(entries), S), value) \in Nat
           /\ SumOf(entries, pair) \in Nat
<1> DEFINE K == {e[1] : e \in E}
           V == {e[2] : e \in E} \cap S
           kept(u) == Among(Seconds(u), S)
           Ok(u) == kept(u) \in Seq(V) /\ SumOf(Keys(u), key) + SumOf(kept(u), value) <= SumOf(u, pair)
           T == {u \in Seq(E) : Ok(u)}
<1>0. \A a, b, c, d, e, f \in Nat : a + b <= c /\ d + e <= f => (a + d) + (b + e) <= c + f
  OBVIOUS
<1>1. Sized(K, key) /\ Sized(V, value) /\ Sized(E, pair)
  BY DEF Sized, Covers
<1>2. <<>> \in T
  <2>1. Keys(<<>>) = <<>> /\ Seconds(<<>>) = <<>>
    BY DEF Keys, Seconds
  <2>2. kept(<<>>) = <<>>
    BY <2>1, AmongEmpty
  <2>3. SumOf(<<>>, key) = 0 /\ SumOf(<<>>, value) = 0 /\ SumOf(<<>>, pair) = 0
    BY SumEmpty
  <2>4. SumOf(Keys(<<>>), key) + SumOf(kept(<<>>), value) <= SumOf(<<>>, pair)
    <3>1. SumOf(Keys(<<>>), key) = 0 /\ SumOf(kept(<<>>), value) = 0
      BY <2>1, <2>2, <2>3, Zenon
    <3> QED
      BY <2>3, <3>1
  <2>5. kept(<<>>) \in Seq(V)
    <3> HIDE DEF V, kept
    <3>1. <<>> \in Seq(V)
      OBVIOUS
    <3> QED
      BY <2>2, <3>1, Zenon
  <2>6. Ok(<<>>)
    BY <2>4, <2>5, Zenon
  <2> QED
    BY <2>6
<1>3. ASSUME NEW u \in Seq(E), NEW x \in E, u \in T PROVE Append(u, x) \in T
  <2> DEFINE W == {e[2] : e \in E}
  <2>1. /\ Keys(Append(u, x)) = Append(Keys(u), x[1]) /\ Seconds(Append(u, x)) = Append(Seconds(u), x[2])
        /\ Keys(u) \in Seq(K) /\ Seconds(u) \in Seq(W)
    BY HalvesOfAppend
  <2>2. kept(Append(u, x)) = IF x[2] \in S THEN Append(kept(u), x[2]) ELSE kept(u)
    <3>1. x[2] \in W
      OBVIOUS
    <3> HIDE DEF W
    <3>2. Among(Append(Seconds(u), x[2]), S)
            = IF x[2] \in S THEN Append(Among(Seconds(u), S), x[2]) ELSE Among(Seconds(u), S)
      <4> DEFINE d == Seconds(u)
                 y == x[2]
      <4>1. d \in Seq(W) /\ y \in W
        BY <2>1, <3>1
      <4> HIDE DEF d, y
      <4>2. Among(Append(d, y), S) = IF y \in S THEN Append(Among(d, S), y) ELSE Among(d, S)
        BY ONLY <4>1, AmongAppend
      <4> QED
        BY <4>2 DEF d, y
    <3> QED
      BY <2>1, <3>2, Zenon
  <2>3. kept(u) \in Seq(V) /\ SumOf(Keys(u), key) + SumOf(kept(u), value) <= SumOf(u, pair)
    BY <1>3
  <2>4. x[1] \in K /\ (x[2] \in S => x[2] \in V) /\ Covers(pair, key, value, S, x)
    OBVIOUS
  <2> HIDE DEF K, V, kept
  <2>5. SumOf(Keys(u), key) \in Nat /\ SumOf(kept(u), value) \in Nat /\ SumOf(u, pair) \in Nat
    BY <1>1, <2>1, <2>3, SumTypes
  <2>6. SumOf(Keys(Append(u, x)), key) = SumOf(Keys(u), key) + key[x[1]]
    BY <1>1, <2>1, <2>4, SumAppend
  <2>7. SumOf(Append(u, x), pair) = SumOf(u, pair) + pair[x]
    BY <1>1, SumAppend
  <2>8. CASE x[2] \in S
    <3>1. SumOf(kept(Append(u, x)), value) = SumOf(kept(u), value) + value[x[2]]
      BY <1>1, <2>2, <2>3, <2>4, <2>8, SumAppend
    <3>2. kept(Append(u, x)) \in Seq(V)
      BY <2>2, <2>3, <2>4, <2>8
    <3>3. key[x[1]] \in Nat /\ value[x[2]] \in Nat /\ pair[x] \in Nat /\ key[x[1]] + value[x[2]] <= pair[x]
      BY <2>4, <2>8 DEF Covers
    <3>4. SumOf(Keys(Append(u, x)), key) + SumOf(kept(Append(u, x)), value) <= SumOf(Append(u, x), pair)
      <4>1. (SumOf(Keys(u), key) + key[x[1]]) + (SumOf(kept(u), value) + value[x[2]]) <= SumOf(u, pair) + pair[x]
        BY <1>0, <2>3, <2>5, <3>3, Zenon
      <4> QED
        BY <2>6, <2>7, <3>1, <4>1, Zenon
    <3> QED
      BY <3>2, <3>4
  <2>9. CASE x[2] \notin S
    <3>1. kept(Append(u, x)) = kept(u)
      BY <2>2, <2>9
    <3>2. key[x[1]] \in Nat /\ pair[x] \in Nat /\ key[x[1]] <= pair[x]
      BY <2>4, <2>9 DEF Covers
    <3>3. SumOf(Keys(Append(u, x)), key) + SumOf(kept(Append(u, x)), value) <= SumOf(Append(u, x), pair)
      <4>1. (SumOf(Keys(u), key) + key[x[1]]) + (SumOf(kept(u), value) + 0) <= SumOf(u, pair) + pair[x]
        <5>1. 0 \in Nat /\ key[x[1]] + 0 = key[x[1]]
          BY <3>2
        <5>2. key[x[1]] + 0 <= pair[x]
          BY <3>2, <5>1, Zenon
        <5> QED
          BY <1>0, <2>3, <2>5, <3>2, <5>1, <5>2, Zenon
      <4>2. SumOf(kept(u), value) + 0 = SumOf(kept(u), value)
        BY <2>5
      <4> QED
        BY <2>6, <2>7, <3>1, <4>1, <4>2, Zenon
    <3> QED
      BY <2>3, <3>1, <3>3
  <2> QED
    BY <2>8, <2>9
<1> HIDE DEF Ok
<1>4. entries \in T
  <2> HIDE DEF T
  <2> QED
    BY <1>2, <1>3, AppendInduction
<1>5. Keys(entries) \in Seq(K)
  BY DEF Keys
<1> HIDE DEF K, V, kept
<1>6. kept(entries) \in Seq(V) /\ SumOf(Keys(entries), key) + SumOf(kept(entries), value) <= SumOf(entries, pair)
  BY <1>4 DEF Ok
<1>7. SumOf(Keys(entries), key) \in Nat /\ SumOf(kept(entries), value) \in Nat /\ SumOf(entries, pair) \in Nat
  BY <1>1, <1>5, <1>6, SumTypes
<1> QED
  BY <1>6, <1>7 DEF kept

\* The client's threshold for compression is not below the default of the requests.
CompressesLate == DefaultThreshold <= Threshold

\* What is sent of an element is no more than the estimate, unless it is sent as it is.
LEMMA SizesCompared ==
    ASSUME NEW v \in DOMAIN Raw
    PROVE  /\ Size[v] \in Nat /\ Raw[v] \in Nat /\ Size[v] <= Raw[v]
           /\ Raw[v] <= Threshold => Size[v] = Raw[v]
           /\ SizeAbove(DefaultThreshold)[v] \in Nat
           /\ CompressesLate => SizeAbove(DefaultThreshold)[v] <= Size[v]
<1>1. Raw[v] \in Nat /\ Packed[v] \in 0 .. Raw[v] /\ DefaultThreshold \in Nat /\ Threshold \in Nat
  BY ChunkAssumption
<1>2. /\ Size[v] = IF Raw[v] > Threshold THEN Packed[v] ELSE Raw[v]
      /\ SizeAbove(DefaultThreshold)[v] = IF Raw[v] > DefaultThreshold THEN Packed[v] ELSE Raw[v]
  BY DEF Size, SizeAbove
<1> QED
  BY <1>1, <1>2 DEF CompressesLate

LEMMA ValuesFit ==
    ASSUME CompressesLate, NEW c, c.vals \in Seq(DOMAIN Raw), c.op \notin MapKinds,
           NEW base \in Nat, base + SumOf(c.vals, Size) <= MaxRpcSize
    PROVE  FitsAsSent(c)
<1> SUFFICES ASSUME \A v \in SentAsIs(c) : Raw[v] <= Threshold
             PROVE  SentSize(c) <= MaxRpcSize
  BY DEF FitsAsSent
<1> DEFINE threshold == IF c.op = "create" THEN Threshold ELSE DefaultThreshold
           sent == [v \in DOMAIN Raw |-> IF v \in SentAsIs(c) THEN Raw[v] ELSE SizeAbove(threshold)[v]]
           E == DOMAIN Raw
<1>1. SentSize(c) = SumOf(c.vals, sent) + 0
  BY DEF SentSize, MapKinds
<1>2. ASSUME NEW v \in E PROVE sent[v] \in Nat /\ Size[v] \in Nat /\ sent[v] <= Size[v]
  <2>1. SizeAbove(threshold)[v] \in Nat /\ SizeAbove(threshold)[v] <= Size[v]
    BY SizesCompared DEF Size
  <2>2. v \in SentAsIs(c) => Raw[v] = Size[v] /\ Raw[v] \in Nat
    BY SizesCompared
  <2>3. sent[v] = IF v \in SentAsIs(c) THEN Raw[v] ELSE SizeAbove(threshold)[v]
    OBVIOUS
  <2> QED
    BY <2>1, <2>2, <2>3, SizesCompared
<1> HIDE DEF sent, E
<1>3. Sized(E, sent) /\ Sized(E, Size) /\ c.vals \in Seq(E)
  BY <1>2 DEF Sized, E
<1>4. SumOf(c.vals, sent) <= SumOf(c.vals, Size)
  BY <1>2, <1>3, SumMonotone
<1>5. SumOf(c.vals, sent) \in Nat /\ SumOf(c.vals, Size) \in Nat
  BY <1>3, SumTypes
<1> QED
  BY <1>1, <1>4, <1>5, ChunkAssumption

\* A call with map entries, if they are estimated by pair.
LEMMA PairsFit ==
    ASSUME CompressesLate, NEW op \in MapKinds, NEW entries \in Seq(PairsOf), NEW pair, NEW base \in Nat,
           \A e \in ToSet(entries) :
              /\ pair[e] \in Nat
              /\ Size[e[1]] + (IF e[2] = NoValue THEN 0 ELSE Size[e[2]]) <= pair[e],
           base + SumOf(entries, pair) <= MaxRpcSize
    PROVE  FitsAsSent(CallWithPairs(op, entries))
<1> DEFINE c == CallWithPairs(op, entries)
           E == ToSet(entries)
           values == Seconds(entries)
           S == ToSet(values) \ {NoValue}
           sent == [v \in DOMAIN Raw |-> IF v \in SentAsIs(c) THEN Raw[v] ELSE SizeAbove(DefaultThreshold)[v]]
           value == IF op = "createOrderedMap" THEN Raw ELSE SizeAbove(DefaultThreshold)
<1> SUFFICES ASSUME \A v \in SentAsIs(c) : Raw[v] <= Threshold
             PROVE  SentSize(c) <= MaxRpcSize
  BY DEF FitsAsSent
<1>1. c.op = op /\ c.vals = Keys(entries) /\ c.values = Among(values, S)
  BY DEF CallWithPairs, Keys, Seconds
<1>2. SentSize(c) = SumOf(Keys(entries), sent) + SumOf(Among(values, S), value)
  BY <1>1 DEF SentSize, MapKinds
<1>3. /\ entries \in Seq(E) /\ E \subseteq PairsOf
      /\ \A e \in E : e[1] \in DOMAIN Raw /\ (e[2] # NoValue => e[2] \in DOMAIN Raw)
      /\ \A e \in E : e[2] \in S <=> e[2] # NoValue
  <2>1. entries \in Seq(E)
    BY EntriesAreSized
  <2>2. E \subseteq PairsOf
    BY DEF ToSet
  <2>3. \A e \in E : e[2] \in ToSet(values)
    BY DEF ToSet, Seconds
  <2> QED
    BY <2>1, <2>2, <2>3 DEF PairsOf
<1>4. \A e \in E : e[1] \in SentAsIs(c) /\ (op = "createOrderedMap" /\ e[2] # NoValue => e[2] \in SentAsIs(c))
  <2>1. \A e \in E : e[1] \in ToSet(c.vals)
    BY <1>1 DEF ToSet, Keys
  <2>2. CASE op # "createOrderedMap"
    BY <1>1, <2>1, <2>2 DEF SentAsIs
  <2>3. CASE op = "createOrderedMap"
    <3>1. SentAsIs(c) = ToSet(c.vals \o c.values)
      BY <1>1, <2>3 DEF SentAsIs, MapKinds
    <3>2. c.vals \in Seq(DOMAIN Raw) /\ c.values \in Seq(DOMAIN Raw \cup {NoValue})
      <4>1. c.vals \in Seq(DOMAIN Raw)
        BY <1>1, KeysTypes
      <4>2. values \in Seq(DOMAIN Raw \cup {NoValue})
        BY DEF Seconds, PairsOf
      <4> QED
        BY <1>1, <4>1, <4>2, AmongTypes
    <3>3. ToSet(c.vals \o c.values) = ToSet(c.vals) \cup ToSet(c.values)
      <4> DEFINE A == DOMAIN Raw \cup {NoValue}
      <4>1. c.vals \in Seq(A) /\ c.values \in Seq(A)
        BY <3>2
      <4> HIDE DEF A
      <4> QED
        BY <4>1, ToSetConcat
    <3>4. ToSet(c.values) = ToSet(values) \cap S
      <4>1. values \in Seq(DOMAIN Raw \cup {NoValue})
        BY DEF Seconds, PairsOf
      <4> QED
        BY <1>1, <4>1, AmongElements
    <3> QED
      BY <1>3, <2>1, <3>1, <3>3, <3>4
  <2> QED
    BY <2>2, <2>3
<1>5. ASSUME NEW e \in E PROVE Covers(pair, sent, value, S, e)
  <2>1. e[1] \in DOMAIN Raw /\ sent[e[1]] = Size[e[1]] /\ Size[e[1]] \in Nat
    BY <1>3, <1>4, SizesCompared
  <2>2. ASSUME e[2] # NoValue PROVE value[e[2]] \in Nat /\ value[e[2]] <= Size[e[2]] /\ Size[e[2]] \in Nat
    <3>1. e[2] \in DOMAIN Raw
      BY <1>3, <2>2
    <3>2. CASE op = "createOrderedMap"
      BY <1>4, <2>2, <3>1, <3>2, SizesCompared
    <3>3. CASE op # "createOrderedMap"
      BY <3>1, <3>3, SizesCompared
    <3> QED
      BY <3>2, <3>3
  <2>3. pair[e] \in Nat /\ Size[e[1]] + (IF e[2] = NoValue THEN 0 ELSE Size[e[2]]) <= pair[e]
    OBVIOUS
  <2>4. e[2] \in S <=> e[2] # NoValue
    BY <1>3
  <2> HIDE DEF sent, value, S
  <2>5. CASE e[2] = NoValue
    BY <2>1, <2>3, <2>4, <2>5 DEF Covers
  <2>6. CASE e[2] # NoValue
    BY <2>1, <2>2, <2>3, <2>4, <2>6 DEF Covers
  <2> QED
    BY <2>5, <2>6
<1> HIDE DEF sent, value, S, values, E
<1>6. /\ SumOf(Keys(entries), sent) + SumOf(Among(values, S), value) <= SumOf(entries, pair)
      /\ SumOf(Keys(entries), sent) \in Nat /\ SumOf(Among(values, S), value) \in Nat
      /\ SumOf(entries, pair) \in Nat
  BY <1>3, <1>5, PairSums DEF values
<1> QED
  BY <1>2, <1>6, ChunkAssumption

AllFit(all) == \A i \in DOMAIN all : FitsAsSent(all[i])

LEMMA ChunkFits ==
    ASSUME CompressesLate, NEW items \in Seq(DOMAIN Raw), NEW base \in Nat,
           NEW i \in DOMAIN Partition(items, Size, base),
           NEW c, c.vals = Partition(items, Size, base)[i], c.op \notin MapKinds
    PROVE  FitsAsSent(c)
<1> DEFINE E == DOMAIN Raw
           chunks == Partition(items, Size, base)
<1>1. items \in Seq(E) /\ Sized(E, Size)
  BY SizesAreNatural
<1>2. chunks \in Seq(Seq(E)) /\ GreedyChunks(chunks, items, Size, base)
  <2> HIDE DEF E
  <2> QED
    BY <1>1, PartitionTypes, PartitionIsGreedy
<1> HIDE DEF chunks
<1>3. c.vals \in Seq(DOMAIN Raw) /\ (Len(c.vals) > 1 => base + SumOf(c.vals, Size) <= MaxRpcSize)
  BY <1>2 DEF GreedyChunks, chunks
<1>4. CASE Len(c.vals) > 1
  BY <1>3, <1>4, ValuesFit
<1>5. CASE ~(Len(c.vals) > 1)
  BY <1>5 DEF FitsAsSent
<1> QED
  BY <1>4, <1>5

LEMMA SameOpFits ==
    ASSUME CompressesLate, NEW items \in Seq(DOMAIN Raw), NEW base \in Nat, NEW op, op \notin MapKinds
    PROVE  AllFit(SameOp(op, Partition(items, Size, base)))
<1> DEFINE chunks == Partition(items, Size, base)
           all == SameOp(op, chunks)
<1>1. DOMAIN all = DOMAIN chunks /\ \A i \in DOMAIN chunks : all[i].op = op /\ all[i].vals = chunks[i]
  BY DEF SameOp, Call
<1> HIDE DEF all
<1>2. \A i \in DOMAIN all : FitsAsSent(all[i])
  BY <1>1, ChunkFits
<1> QED
  BY <1>2 DEF AllFit, all

\* The calls of an add of elements.
LEMMA AddsFit ==
    ASSUME CompressesLate, NEW w \in Writes, w.kind \in AddKinds
    PROVE  AllFit(CallsOf(w))
<1> DEFINE chunks == Chunks(w)
           all == CallsOf(w)
<1>1. w.data \in Seq(DOMAIN Raw) /\ BaseSize \in Nat /\ chunks = Partition(w.data, Size, BaseSize)
      /\ chunks \in Seq(Seq(DOMAIN Raw))
  BY WriteTypes, ChunkAssumption DEF Chunks
<1>2. CASE w.kind \in {"tail", "unordered", "weighted"}
  <2>1. PICK op \in {"tail", "weighted"} : all = SameOp(op, chunks)
    BY <1>2 DEF CallsOf
  <2> QED
    BY <1>1, <2>1, SameOpFits DEF MapKinds
<1>3. CASE w.kind = "head"
  <2>1. all = [i \in 1 .. Len(chunks) |-> Call("head", chunks[Len(chunks) - i + 1])]
    BY <1>1, <1>3 DEF CallsOf, HeadCalls, SameOp, Reverse
  <2> HIDE DEF chunks, all
  <2>2. ASSUME NEW i \in DOMAIN all PROVE FitsAsSent(all[i])
    <3>1. Len(chunks) - i + 1 \in DOMAIN chunks /\ all[i] = Call("head", chunks[Len(chunks) - i + 1])
      BY <1>1, <2>1
    <3>2. all[i].op \notin MapKinds /\ all[i].vals = chunks[Len(chunks) - i + 1]
      BY <3>1 DEF Call, MapKinds
    <3> QED
      BY <1>1, <3>1, <3>2, ChunkFits
  <2> QED
    BY <2>2 DEF AllFit, all
<1>4. CASE w.kind = "position"
  <2>1. all = [i \in DOMAIN chunks |-> CallAt(chunks[i], w.pos + ElementsBefore(chunks, i))]
    BY <1>4 DEF CallsOf, PositionCalls
  <2> HIDE DEF chunks, all
  <2>2. ASSUME NEW i \in DOMAIN all PROVE FitsAsSent(all[i])
    <3>1. i \in DOMAIN chunks /\ all[i].op = "position" /\ all[i].vals = chunks[i]
      BY <2>1 DEF CallAt
    <3> QED
      BY <1>1, <3>1, ChunkFits DEF MapKinds
  <2> QED
    BY <2>2 DEF AllFit, all
<1>5. CASE w.kind \in {"before", "after"}
  <2>1. all = [i \in DOMAIN chunks |-> IF i = 1 THEN CallBy(w.kind, chunks[1], w.pivot)
                                       ELSE CallBy("after", chunks[i], Last(chunks[i - 1]))]
    BY <1>5 DEF CallsOf, PivotCalls
  <2> HIDE DEF chunks, all
  <2>2. ASSUME NEW i \in DOMAIN all PROVE FitsAsSent(all[i])
    <3>1. i \in DOMAIN chunks /\ all[i].op \in {"before", "after"} /\ all[i].vals = chunks[i]
      BY <1>5, <2>1 DEF CallBy
    <3> QED
      BY <1>1, <3>1, ChunkFits DEF MapKinds
  <2> QED
    BY <2>2 DEF AllFit, all
<1> QED
  BY <1>2, <1>3, <1>4, <1>5 DEF AddKinds

\* The calls with map entries.
LEMMA MapCallsFit ==
    ASSUME CompressesLate, NEW entries \in Seq(PairsOf), NEW base \in Nat, NEW op \in MapKinds
    PROVE  AllFit(MapCalls(op, entries, base))
<1> DEFINE E == ToSet(entries)
           pair == PairSize(entries)
           chunks == Partition(entries, pair, base)
           all == MapCalls(op, entries, base)
<1>1. entries \in Seq(E) /\ Sized(E, pair)
  BY EntriesAreSized
<1>2. E \subseteq PairsOf
  BY DEF ToSet
<1>3. \A e \in E : /\ pair[e] \in Nat
                   /\ Size[e[1]] + (IF e[2] = NoValue THEN 0 ELSE Size[e[2]]) <= pair[e]
  <2> SUFFICES ASSUME NEW e \in E
               PROVE  /\ pair[e] \in Nat
                      /\ Size[e[1]] + (IF e[2] = NoValue THEN 0 ELSE Size[e[2]]) <= pair[e]
    OBVIOUS
  <2>1. pair[e] \in Nat /\ PairOverhead \in Nat
    BY <1>1, ChunkAssumption DEF Sized
  <2>2. pair[e] = Size[e[1]] + PairOverhead + IF e[2] = NoValue THEN 0 ELSE Size[e[2]]
    BY DEF PairSize
  <2>3. Size[e[1]] \in Nat /\ (e[2] # NoValue => Size[e[2]] \in Nat)
    BY <1>2, SizesAreNatural DEF PairsOf, Sized
  <2> HIDE DEF pair
  <2> QED
    BY <2>1, <2>2, <2>3
<1>4. all = [i \in DOMAIN chunks |-> CallWithPairs(op, chunks[i])]
  BY DEF MapCalls
<1> HIDE DEF E, pair
<1>5. chunks \in Seq(Seq(E)) /\ GreedyChunks(chunks, entries, pair, base)
  BY <1>1, PartitionTypes, PartitionIsGreedy
<1> HIDE DEF chunks, all
<1>6. ASSUME NEW i \in DOMAIN all PROVE FitsAsSent(all[i])
  <2> DEFINE x == chunks[i]
  <2>1. i \in DOMAIN chunks /\ all[i] = CallWithPairs(op, x)
    BY <1>4
  <2>2. x \in Seq(E) /\ (Len(x) > 1 => base + SumOf(x, pair) <= MaxRpcSize)
    BY <1>5, <2>1 DEF GreedyChunks
  <2>3. x \in Seq(PairsOf) /\ ToSet(x) \subseteq E
    BY <1>2, <2>2 DEF ToSet
  <2> HIDE DEF x
  <2>4. CASE Len(x) > 1
    <3>1. FitsAsSent(CallWithPairs(op, x))
      BY <1>3, <2>2, <2>3, <2>4, PairsFit
    <3> QED
      BY <2>1, <3>1
  <2>5. CASE ~(Len(x) > 1)
    <3>1. all[i].vals = Keys(x)
      BY <2>1 DEF CallWithPairs, Keys
    <3> QED
      BY <2>3, <2>5, <3>1, KeysTypes DEF FitsAsSent
  <2> QED
    BY <2>4, <2>5
<1> QED
  BY <1>6 DEF AllFit, all

\* The create request itself.
LEMMA FirstFits ==
    ASSUME NEW E, NEW items \in Seq(E), NEW sizeOf
    PROVE  FirstOf(items, sizeOf) # <<>> => CreateBase + SumOf(FirstOf(items, sizeOf), sizeOf) <= MaxRpcSize
<1> DEFINE n == FirstChunkSplit(items, sizeOf)
           fitting == {k \in 0 .. Len(items) :
                         \A m \in 1 .. k : CreateBase + SumOf(SubSeq(items, 1, m), sizeOf) <= MaxRpcSize}
<1>1. n = Max(fitting)
  BY DEF FirstChunkSplit
<1>2. Len(items) \in Nat /\ fitting \in SUBSET (0 .. Len(items)) /\ 0 \in fitting
  OBVIOUS
<1>3. n \in fitting
  <2> HIDE DEF fitting, n
  <2> QED
    BY <1>1, <1>2, LastPosition
<1>4. n \in Nat /\ \A m \in 1 .. n : CreateBase + SumOf(SubSeq(items, 1, m), sizeOf) <= MaxRpcSize
  BY <1>2, <1>3
<1>5. FirstOf(items, sizeOf) = SubSeq(items, 1, n)
  BY DEF FirstOf
<1> HIDE DEF n
<1>6. CASE n = 0
  BY <1>5, <1>6
<1>7. CASE n # 0
  <2>1. n \in 1 .. n
    BY <1>4, <1>7
  <2> QED
    BY <1>4, <1>5, <2>1, Zenon
<1> QED
  BY <1>6, <1>7

LEMMA AllFitAfter ==
    ASSUME NEW c, FitsAsSent(c), NEW more, more \in Seq(ToSet(more)), AllFit(more)
    PROVE  AllFit(<<c>> \o more)
<1> DEFINE all == <<c>> \o more
<1>1. /\ Len(more) \in Nat /\ DOMAIN all = 1 .. Len(more) + 1 /\ DOMAIN more = 1 .. Len(more)
      /\ all[1] = c /\ \A i \in 2 .. Len(more) + 1 : all[i] = more[i - 1]
  OBVIOUS
<1> HIDE DEF all
<1>2. ASSUME NEW i \in DOMAIN all PROVE FitsAsSent(all[i])
  <2>1. CASE i = 1
    BY <1>1, <2>1
  <2>2. CASE i # 1
    <3>1. i \in 2 .. Len(more) + 1 /\ i - 1 \in DOMAIN more
      BY <1>1, <2>2
    <3> QED
      BY <1>1, <3>1 DEF AllFit
  <2> QED
    BY <2>1, <2>2
<1> QED
  BY <1>2 DEF AllFit, all

LEMMA CreatesFit ==
    ASSUME CompressesLate, NEW w \in Writes, w.kind \in {"create", "createOrdered"}
    PROVE  AllFit(CallsOf(w))
<1> DEFINE first == FirstOf(w.data, Size)
           rest == RestOf(w.data, Size)
           c == Call("create", first)
           chunks == Partition(rest, Size, 0)
<1>1. PICK op \in {"tail", "weighted"} : CallsOf(w) = <<c>> \o SameOp(op, chunks)
  BY DEF CallsOf, CreateCalls
<1>2. first \in Seq(DOMAIN Raw) /\ rest \in Seq(DOMAIN Raw)
  BY WriteTypes, FirstAndRest
<1>3. first # <<>> => CreateBase + SumOf(first, Size) <= MaxRpcSize
  BY WriteTypes, FirstFits
<1>4. c.op = "create" /\ c.vals = first /\ c.op \notin MapKinds
  BY DEF Call, MapKinds
<1> HIDE DEF first, c
<1>5. FitsAsSent(c)
  <2>1. CASE first # <<>>
    BY <1>2, <1>3, <1>4, <2>1, ValuesFit, ChunkAssumption
  <2>2. CASE first = <<>>
    BY <1>4, <2>2 DEF FitsAsSent
  <2> QED
    BY <2>1, <2>2
<1>6. AllFit(SameOp(op, chunks))
  BY <1>2, SameOpFits DEF MapKinds
<1>7. SameOp(op, chunks) \in Seq(ToSet(SameOp(op, chunks)))
  <2>1. chunks \in Seq(Seq(DOMAIN Raw))
    BY <1>2, ElementPartitions
  <2> QED
    BY <2>1, SameOpCalls DEF CarryBy, Carry
<1> QED
  BY <1>1, <1>5, <1>6, <1>7, AllFitAfter

\* A map is created from pairs.
LEMMA CreateMapsFit ==
    ASSUME CompressesLate, NEW w \in Writes, w.kind \in {"createMap", "createOrderedMap"},
           Len(w.values) >= Len(w.data)
    PROVE  AllFit(CallsOf(w))
<1> DEFINE entries == MapEntries(w)
           key(e) == IF w.kind = "createOrderedMap" THEN Raw[e[1]] ELSE Size[e[1]]
           entrySize == [e \in ToSet(entries) |-> key(e) + Size[e[2]]]
           first == FirstOf(entries, entrySize)
           rest == RestOf(entries, entrySize)
           c == CallWithPairs(w.kind, first)
<1>1. PICK op \in {"map", "orderedMap"} : CallsOf(w) = <<c>> \o MapCalls(op, rest, 0)
  BY DEF CallsOf, CreateMapCalls
<1>2. entries \in Seq(PairsOf)
  BY MapEntriesTypes
<1>3. \A e \in ToSet(entries) : e[1] \in DOMAIN Raw /\ e[2] \in DOMAIN Raw
  <2>1. /\ w.data \in Seq(DOMAIN Raw) /\ w.values \in Seq(DOMAIN Raw)
        /\ \A i \in DOMAIN w.data : i \in DOMAIN w.values
    BY ChunkAssumption
  <2>2. \A i \in DOMAIN w.data : entries[i] = <<w.data[i], w.values[i]>>
    BY <2>1 DEF MapEntries
  <2>3. DOMAIN entries = DOMAIN w.data
    BY DEF MapEntries
  <2> HIDE DEF entries
  <2> QED
    BY <2>1, <2>2, <2>3 DEF ToSet
<1>4. \A e \in ToSet(entries) :
         /\ entrySize[e] \in Nat
         /\ Size[e[1]] + (IF e[2] = NoValue THEN 0 ELSE Size[e[2]]) <= entrySize[e]
  <2> SUFFICES ASSUME NEW e \in ToSet(entries)
               PROVE  /\ entrySize[e] \in Nat
                      /\ Size[e[1]] + (IF e[2] = NoValue THEN 0 ELSE Size[e[2]]) <= entrySize[e]
    OBVIOUS
  <2>1. entrySize[e] = key(e) + Size[e[2]]
    OBVIOUS
  <2>2. Size[e[1]] \in Nat /\ Raw[e[1]] \in Nat /\ Size[e[1]] <= Raw[e[1]] /\ Size[e[2]] \in Nat
    BY <1>3, SizesCompared
  <2>3. key(e) \in Nat /\ Size[e[1]] <= key(e)
    BY <2>2
  <2> HIDE DEF entrySize, key
  <2> QED
    BY ONLY <2>1, <2>2, <2>3
<1> HIDE DEF entries, entrySize
<1>5. first \in Seq(PairsOf) /\ rest \in Seq(PairsOf) /\ first \o rest = entries
  BY <1>2, FirstAndRest
<1>6. first # <<>> => CreateBase + SumOf(first, entrySize) <= MaxRpcSize
  BY <1>2, FirstFits
<1> HIDE DEF first, rest
<1>7. ToSet(first) \subseteq ToSet(entries)
  <2>1. first \in Seq(PairsOf) /\ rest \in Seq(PairsOf)
    BY <1>5
  <2>2. ToSet(first \o rest) = ToSet(first) \cup ToSet(rest)
    BY ONLY <2>1, ToSetConcat
  <2> QED
    BY <1>5, <2>2, Zenon
<1>8. w.kind \in MapKinds /\ op \in MapKinds
  BY DEF MapKinds
<1>9. FitsAsSent(c)
  <2>1. CASE first # <<>>
    <3>1. \A e \in ToSet(first) :
             /\ entrySize[e] \in Nat
             /\ Size[e[1]] + (IF e[2] = NoValue THEN 0 ELSE Size[e[2]]) <= entrySize[e]
      BY <1>4, <1>7
    <3> QED
      BY <1>5, <1>6, <1>8, <2>1, <3>1, PairsFit, ChunkAssumption
  <2>2. CASE first = <<>>
    <3>1. c.vals = <<>>
      BY <2>2 DEF CallWithPairs
    <3> QED
      BY <3>1 DEF FitsAsSent
  <2> QED
    BY <2>1, <2>2
<1> HIDE DEF c
<1>10. AllFit(MapCalls(op, rest, 0))
  BY <1>5, <1>8, MapCallsFit
<1>11. MapCalls(op, rest, 0) \in Seq(ToSet(MapCalls(op, rest, 0)))
  BY <1>5, MapCallsAreSound DEF CarryBy, Carry
<1> QED
  BY <1>1, <1>9, <1>10, <1>11, AllFitAfter

\* The writes whose calls are cut by an estimate, or carry one element: not a removal, whose
\* keys are sent in one call whatever their size.  A map is created from pairs.
Estimated(w) ==
    /\ w.kind # "remove"
    /\ w.kind = "replace" => Len(w.data) <= 1
    /\ w.kind \in {"createMap", "createOrderedMap"} => Len(w.values) >= Len(w.data)

LEMMA WritesFit ==
    ASSUME CompressesLate, NEW w \in Writes, Estimated(w)
    PROVE  AllFit(CallsOf(w))
<1>1. CASE w.kind \in {"map", "orderedMap"}
  <2>1. CallsOf(w) = MapCalls(w.kind, MapEntries(w), BaseSize) /\ w.kind \in MapKinds
    BY <1>1 DEF CallsOf, MapKinds
  <2> QED
    BY <2>1, MapEntriesTypes, MapCallsFit, ChunkAssumption
<1>2. CASE w.kind \in {"createMap", "createOrderedMap"}
  BY <1>2, CreateMapsFit DEF Estimated
<1>3. CASE w.kind \in {"stream", "takeHead", "takeTail", "replace"}
  <2>1. \E c : CallsOf(w) = <<c>> /\ Len(c.vals) <= 1
    <3>1. CASE w.kind = "stream"
      <4>1. CallsOf(w) = <<Call("stream", <<>>)>> /\ Len(Call("stream", <<>>).vals) <= 1
        BY <3>1 DEF CallsOf, StreamCalls, Call
      <4> QED
        BY <4>1
    <3>2. CASE w.kind \in {"takeHead", "takeTail"}
      <4>1. CallsOf(w) = <<Call(w.kind, <<>>)>> /\ Len(Call(w.kind, <<>>).vals) <= 1
        BY <3>2 DEF CallsOf, TakeCalls, Call
      <4> QED
        BY <4>1
    <3>3. CASE w.kind = "replace"
      <4>1. CallsOf(w) = <<CallBy("replace", w.data, w.pivot)>>
        BY <3>3 DEF CallsOf, ReplaceCalls
      <4>2. Len(CallBy("replace", w.data, w.pivot).vals) <= 1
        BY <3>3 DEF CallBy, Estimated
      <4> QED
        BY <4>1, <4>2
    <3> QED
      BY <1>3, <3>1, <3>2, <3>3
  <2>2. PICK c : CallsOf(w) = <<c>> /\ Len(c.vals) <= 1
    BY <2>1
  <2>3. FitsAsSent(c)
    <3>1. CASE Len(c.vals) > 1
      <4>1. Len(c.vals) \in Nat
        BY <1>3, <2>2 DEF Estimated
      <4> QED
        BY <2>2, <3>1, <4>1
    <3> QED
      BY <3>1 DEF FitsAsSent
  <2> QED
    BY <2>2, <2>3 DEF AllFit
<1>4. CASE w.kind \in {"create", "createOrdered"} \cup AddKinds
  BY <1>4, AddsFit, CreatesFit
<1> QED
  BY <1>1, <1>2, <1>3, <1>4, ChunkAssumption DEF Estimated, AddKinds, MapKinds, CreateKinds, PlainKinds

\* The calls that have not returned are some of the write's.
FitInv ==
    /\ write \in Writes
    /\ calls \in Seq(ToSet(CallsOf(write)))
    /\ attempt # "none" => outcome = "running" /\ calls # <<>>

LEMMA StartsFit == Init => FitInv
<1> SUFFICES ASSUME Init PROVE FitInv
  OBVIOUS
<1>1. write \in Writes /\ calls = CallsOf(write) /\ outcome = "running"
  BY DEF Init
<1>2. calls \in Seq(ToSet(CallsOf(write)))
  BY <1>1, CallsAreSequences
<1>3. ASSUME attempt # "none" PROVE calls # <<>>
  <2>1. write.kind \in PlainKinds \cup CreateKinds
    BY <1>3 DEF Init
  <2>2. CASE write.kind \in PlainKinds
    <3>1. PICK c : CallsOf(write) = <<c>>
      BY <1>1, <2>2, PlainCall
    <3> QED
      BY <1>1, <3>1
  <2>3. CASE write.kind \in CreateKinds
    BY <1>1, <2>3, CreateSends
  <2> QED
    BY <2>1, <2>2, <2>3
<1> QED
  BY <1>1, <1>2, <1>3 DEF FitInv

LEMMA StaysFit == FitInv /\ [Next]_vars => FitInv'
<1> SUFFICES ASSUME FitInv, [Next]_vars
             PROVE  FitInv'
  OBVIOUS
<1> DEFINE C == ToSet(CallsOf(write))
<1>1. write \in Writes /\ calls \in Seq(C) /\ (attempt # "none" => outcome = "running" /\ calls # <<>>)
  BY DEF FitInv
<1> SUFFICES /\ write' = write /\ calls' \in Seq(C)
             /\ attempt' # "none" => outcome' = "running" /\ calls' # <<>>
  BY <1>1 DEF FitInv
<1> HIDE DEF C
<1>2. CASE Submit
  BY <1>1, <1>2 DEF Submit
<1>3. CASE CallReturns
  <2>1. calls # <<>> /\ calls' = Tail(calls) /\ attempt' = "none" /\ write' = write
    BY <1>1, <1>3 DEF CallReturns, CarryOut
  <2> QED
    BY <1>1, <2>1
<1>4. CASE CallUnavailable
  BY <1>1, <1>4 DEF CallUnavailable
<1>5. CASE CallFails
  BY <1>1, <1>5 DEF CallFails
<1>6. CASE PipelineEnds
  BY <1>1, <1>6 DEF PipelineEnds
<1>7. CASE CallerFrees
  BY <1>1, <1>7 DEF CallerFrees
<1>8. CASE ForeignWrite
  BY <1>1, <1>8 DEF ForeignWrite
<1>9. CASE UNCHANGED vars
  BY <1>1, <1>9 DEF vars
<1> QED
  BY <1>2, <1>3, <1>4, <1>5, <1>6, <1>7, <1>8, <1>9 DEF Next, PipelineStep

(***************************************************************************)
(* No call of several elements is larger than an RPC as it is sent         *)
(* (partitionValueChunks, partitionMapChunks, firstChunkSplit against      *)
(* buildValueProto), when the client's threshold is not below the default  *)
(* one and unless an element that is sent as it is was estimated           *)
(* compressed.                                                             *)
(***************************************************************************)
THEOREM EstimatesHold ==
    ASSUME CompressesLate, \A w \in Writes : Estimated(w)
    PROVE  Spec => []ChunksFitAsSent
<1>1. Init => FitInv
  BY StartsFit
<1>2. FitInv /\ [Next]_vars => FitInv'
  BY StaysFit
<1>3. FitInv => ChunksFitAsSent
  <2> SUFFICES ASSUME FitInv, NEW i \in DOMAIN calls PROVE FitsAsSent(calls[i])
    BY DEF ChunksFitAsSent
  <2>1. AllFit(CallsOf(write))
    BY WritesFit DEF FitInv
  <2>2. calls[i] \in ToSet(CallsOf(write))
    BY DEF FitInv
  <2> QED
    BY <2>1, <2>2, Zenon DEF AllFit, ToSet
<1> QED
  BY <1>1, <1>2, <1>3, PTL DEF Spec

-----------------------------------------------------------------------------
(* What is inserted into a list, and what of a set is in it then.           *)

\* s is a and b, and v goes between them.
Between(S, s, i, v, a, b) ==
    /\ a \in Seq(S) /\ b \in Seq(S)
    /\ s = a \o b /\ Len(a) = i /\ a = SubSeq(s, 1, i)
    /\ InsertBlock(s, i, v) = (a \o v) \o b

LEMMA InsertParts ==
    ASSUME NEW S, NEW s \in Seq(S), NEW i \in 0 .. Len(s), NEW v \in Seq(S)
    PROVE  \E a, b : Between(S, s, i, v, a, b)
<1> Between(S, s, i, v, SubSeq(s, 1, i), SubSeq(s, i + 1, Len(s)))
  BY SplitInTwo, Zenon DEF Between, InsertBlock
<1> QED
  OBVIOUS

LEMMA InsertElements ==
    ASSUME NEW S, NEW s \in Seq(S), NEW i \in 0 .. Len(s), NEW v \in Seq(S)
    PROVE  ToSet(InsertBlock(s, i, v)) = ToSet(s) \cup ToSet(v)
<1>1. PICK a, b : Between(S, s, i, v, a, b)
  BY InsertParts, Zenon
<1>2. /\ a \in Seq(S) /\ b \in Seq(S)
      /\ s = a \o b /\ InsertBlock(s, i, v) = (a \o v) \o b
  BY <1>1, Zenon DEF Between
<1> DEFINE u == a \o v
<1>3. u \in Seq(S) /\ ToSet(u) = ToSet(a) \cup ToSet(v)
  BY <1>2, ConcatProperties, ToSetConcat
<1> HIDE DEF u
<1>4. ToSet(a \o b) = ToSet(a) \cup ToSet(b)
  BY <1>2, ToSetConcat
<1>5. ToSet(u \o b) = ToSet(u) \cup ToSet(b)
  BY <1>2, <1>3, ToSetConcat
<1>6. ToSet(s) = ToSet(a) \cup ToSet(b)
  BY <1>2, <1>4, Zenon
<1>7. ToSet(InsertBlock(s, i, v)) = ToSet(u) \cup ToSet(b)
  BY <1>2, <1>5, Zenon DEF u
<1> QED
  BY ONLY <1>3, <1>6, <1>7

\* Where nothing of D is, what is inserted is all of D there is.
LEMMA InsertAmongOthers ==
    ASSUME NEW S, NEW s \in Seq(S), NEW i \in 0 .. Len(s), NEW v \in Seq(S), NEW D,
           ToSet(s) \cap D = {}, ToSet(v) \subseteq D
    PROVE  Among(InsertBlock(s, i, v), D) = v
<1>a. Joins(S, D)
  BY AmongJoins
<1>1. PICK a, b : Between(S, s, i, v, a, b)
  BY InsertParts, Zenon
<1>2. /\ a \in Seq(S) /\ b \in Seq(S)
      /\ s = a \o b /\ InsertBlock(s, i, v) = (a \o v) \o b
  BY <1>1, Zenon DEF Between
<1> DEFINE u == a \o v
<1>3. u \in Seq(S) /\ Among(u, D) = Among(a, D) \o Among(v, D)
  <2>1. u \in Seq(S)
    BY <1>2, ConcatProperties
  <2>2. Among(u, D) = Among(a, D) \o Among(v, D)
    BY <1>2, <1>a, Zenon DEF Joins
  <2> QED
    BY <2>1, <2>2, Zenon
<1>4. Among(v, D) = v
  BY AmongAll, Zenon
<1>5. ToSet(a \o b) = ToSet(a) \cup ToSet(b)
  BY <1>2, ToSetConcat
<1>6. ToSet(a) \cap D = {} /\ ToSet(b) \cap D = {}
  <2>1. ToSet(s) = ToSet(a) \cup ToSet(b)
    BY <1>2, <1>5, Zenon
  <2> QED
    BY <2>1
<1>7. Among(a, D) = <<>> /\ Among(b, D) = <<>>
  BY <1>2, <1>6, AmongNone, Zenon
<1> HIDE DEF u
<1>8. Among(u \o b, D) = Among(u, D) \o Among(b, D)
  BY <1>2, <1>3, <1>a, Zenon DEF Joins
<1>9. <<>> \o v = v /\ v \o <<>> = v
  OBVIOUS
<1>10. Among(u, D) = v
  BY <1>3, <1>4, <1>7, <1>9, Zenon
<1> QED
  BY <1>2, <1>7, <1>8, <1>9, <1>10, Zenon DEF u

\* Behind the last element of D, what is inserted is the last of D.
LEMMA InsertBehindLast ==
    ASSUME NEW S, NEW s \in Seq(S), NEW i \in 1 .. Len(s), NEW v \in Seq(S), NEW D,
           s[i] \in D, ToSet(v) \subseteq D,
           Among(s, D)[Len(Among(s, D))] = s[i],
           \A j, k \in 1 .. Len(Among(s, D)) : Among(s, D)[j] = Among(s, D)[k] => j = k
    PROVE  Among(InsertBlock(s, i, v), D) = Among(s, D) \o v
<1>0. i \in 0 .. Len(s) /\ i \in 1 .. i
  OBVIOUS
<1>a. Joins(S, D)
  BY AmongJoins
<1>1. PICK a, b : Between(S, s, i, v, a, b)
  BY <1>0, InsertParts, Zenon
<1>2. /\ a \in Seq(S) /\ b \in Seq(S)
      /\ s = a \o b /\ Len(a) = i /\ a = SubSeq(s, 1, i)
      /\ InsertBlock(s, i, v) = (a \o v) \o b
  BY <1>1, Zenon DEF Between
<1> DEFINE p == s[i]
           x == Among(a, D)
           y == Among(b, D)
           all == Among(s, D)
           u == a \o v
<1>3. x \in Seq(S) /\ y \in Seq(S) /\ ToSet(x) = ToSet(a) \cap D
  <2>1. a \in Seq(S) /\ b \in Seq(S)
    BY <1>2
  <2>2. x \in Seq(S) /\ y \in Seq(S)
    BY ONLY <2>1, AmongTypes
  <2>3. ToSet(x) = ToSet(a) \cap D
    BY ONLY <2>1, AmongElements
  <2> QED
    BY <2>2, <2>3, Zenon
<1>4. all = x \o y
  BY <1>2, <1>a, Zenon DEF Joins
<1>5. p \in ToSet(a)
  <2>1. DOMAIN a = 1 .. i
    BY <1>2
  <2>2. a[i] = p
    <3>1. SubSeq(s, 1, i)[i] = s[i]
      OBVIOUS
    <3> QED
      BY <1>2, <3>1, Zenon
  <2> QED
    BY <1>0, <2>1, <2>2, Zenon DEF ToSet
<1>6. PICK j \in DOMAIN x : x[j] = p
  <2>1. p \in ToSet(x)
    BY <1>3, <1>5
  <2> QED
    BY <2>1, Zenon DEF ToSet
<1>7. u \in Seq(S) /\ Among(u, D) = x \o v
  <2>1. u \in Seq(S) /\ Among(u, D) = x \o Among(v, D)
    <3>1. u \in Seq(S)
      BY <1>2, ConcatProperties
    <3>2. Among(u, D) = x \o Among(v, D)
      BY <1>2, <1>a, Zenon DEF Joins
    <3> QED
      BY <3>1, <3>2, Zenon
  <2>2. Among(v, D) = v
    BY AmongAll, Zenon
  <2> QED
    BY <2>1, <2>2, Zenon
<1>8. all[Len(all)] = p /\ \A k, n \in 1 .. Len(all) : all[k] = all[n] => k = n
  OBVIOUS
<1>10. Among(u \o b, D) = Among(u, D) \o y
  BY <1>2, <1>7, <1>a, Zenon DEF Joins
<1> HIDE DEF p, x, y, all, u
<1>9. y = <<>>
  <2>1. /\ all \in Seq(S) /\ Len(all) = Len(x) + Len(y)
        /\ \A n \in 1 .. Len(x) + Len(y) : all[n] = IF n <= Len(x) THEN x[n] ELSE y[n - Len(x)]
    BY ONLY <1>3, <1>4, ConcatProperties
  <2>2. j \in 1 .. Len(x) /\ Len(x) \in Nat /\ Len(y) \in Nat
    BY <1>3, <1>6
  <2>3. all[j] = p /\ j \in 1 .. Len(all) /\ Len(all) \in 1 .. Len(all)
    BY <1>6, <2>1, <2>2
  <2>4. j = Len(all)
    BY <1>8, <2>3, Zenon
  <2>5. Len(y) = 0
    BY <2>1, <2>2, <2>4
  <2> QED
    BY <1>3, <2>5
<1>11. InsertBlock(s, i, v) = u \o b
  BY <1>2, Zenon DEF u
<1>12. x \o <<>> = x /\ x \o v \in Seq(S)
  BY <1>3
<1>13. (x \o v) \o <<>> = x \o v
  BY <1>12
<1> QED
  BY <1>4, <1>7, <1>9, <1>10, <1>11, <1>12, <1>13, Zenon DEF all

\* An element of D takes the place of another, where no other one of D is.
LEMMA ReplacedElements ==
    ASSUME NEW S, NEW s \in Seq(S), NEW i \in 1 .. Len(s), NEW x \in S, NEW D, x \in D
    PROVE  LET t == [s EXCEPT ![i] = x]
           IN  /\ t \in Seq(S) /\ Len(t) = Len(s)
               /\ ToSet(s) \cap D \subseteq {x} => ToSet(t) \cap D = {x}
               /\ ToSet(s) \cap D = {} => Among(t, D) = <<x>>
<1> DEFINE t == [s EXCEPT ![i] = x]
           a == SubSeq(t, 1, i - 1)
           b == SubSeq(t, i + 1, Len(t))
<1>1. t \in Seq(S) /\ Len(t) = Len(s) /\ t[i] = x /\ \A j \in 1 .. Len(s) : j # i => t[j] = s[j]
  OBVIOUS
<1>2. ToSet(t) \subseteq ToSet(s) \cup {x} /\ x \in ToSet(t)
  <2>1. DOMAIN t = 1 .. Len(s) /\ DOMAIN s = 1 .. Len(s)
    BY <1>1
  <2> HIDE DEF t
  <2> QED
    BY <1>1, <2>1 DEF ToSet
<1> HIDE DEF t
<1>3. ToSet(s) \cap D \subseteq {x} => ToSet(t) \cap D = {x}
  BY <1>2
<1>4. ASSUME ToSet(s) \cap D = {} PROVE Among(t, D) = <<x>>
  <2>1. /\ a \in Seq(S) /\ Len(a) = i - 1 /\ \A j \in 1 .. i - 1 : a[j] = t[j]
        /\ b \in Seq(S) /\ Len(b) = Len(t) - i /\ \A j \in 1 .. Len(t) - i : b[j] = t[i + j]
        /\ SubSeq(t, 1, i) = Append(a, x)
    BY <1>1
  <2>2. Append(a, x) \o b = t
    <3>1. i \in 0 .. Len(t)
      BY <1>1
    <3>2. SubSeq(t, 1, i) \o b = t
      BY <1>1, <3>1, SplitInTwo
    <3> QED
      BY <2>1, <3>2, Zenon
  <2>3. ToSet(a) \subseteq ToSet(s) /\ ToSet(b) \subseteq ToSet(s)
    <3>1. DOMAIN a = 1 .. i - 1 /\ DOMAIN b = 1 .. Len(t) - i /\ DOMAIN s = 1 .. Len(s)
      BY <2>1
    <3>2. \A j \in DOMAIN a : j \in DOMAIN s /\ a[j] = s[j]
      BY <1>1, <2>1, <3>1
    <3>3. \A j \in DOMAIN b : i + j \in DOMAIN s /\ b[j] = s[i + j]
      <4> SUFFICES ASSUME NEW j \in 1 .. Len(t) - i PROVE i + j \in 1 .. Len(s) /\ b[j] = s[i + j]
        BY <3>1
      <4>1. i + j \in 1 .. Len(s) /\ i + j # i
        BY <1>1
      <4>2. b[j] = t[i + j]
        BY <2>1
      <4> QED
        BY <1>1, <4>1, <4>2
    <3> HIDE DEF a, b
    <3> QED
      BY <3>2, <3>3, Zenon DEF ToSet
  <2> HIDE DEF a, b
  <2>4. ToSet(a) \cap D = {} /\ ToSet(b) \cap D = {}
    BY <1>4, <2>3
  <2>5. Among(a, D) = <<>> /\ Among(b, D) = <<>>
    BY <2>1, <2>4, AmongNone, Zenon
  <2>6. Among(Append(a, x), D) = Append(Among(a, D), x) /\ Append(a, x) \in Seq(S)
    <3>1. Among(Append(a, x), D) = IF x \in D THEN Append(Among(a, D), x) ELSE Among(a, D)
      BY <2>1, AmongAppend, Zenon
    <3> QED
      BY <2>1, <3>1
  <2> DEFINE u == Append(a, x)
  <2>7. u \in Seq(S) /\ Among(u, D) = Append(<<>>, x) /\ u \o b = t
    BY <2>2, <2>5, <2>6, Zenon
  <2> HIDE DEF u
  <2>8. Among(u \o b, D) = Among(u, D) \o Among(b, D)
    <3>1. Joins(S, D)
      BY AmongJoins
    <3> QED
      BY <2>1, <2>7, <3>1, Zenon DEF Joins
  <2>9. Append(<<>>, x) = <<x>> /\ <<x>> \o <<>> = <<x>>
    OBVIOUS
  <2> QED
    BY <2>5, <2>7, <2>8, <2>9, Zenon
<1> QED
  BY <1>1, <1>3, <1>4 DEF t

-----------------------------------------------------------------------------
(* What the calls of an operation bring, and where it lands.                *)

\* The first n elements of the data of w, for the head the last ones.
Ended(w, n) == IF w.kind = "head" THEN SubSeq(w.data, n + 1, Len(w.data)) ELSE SubSeq(w.data, 1, n)

\* What no head write has brought yet comes before what it has.
LEMMA BlockIsSuffix ==
    ASSUME NEW w \in Writes, w.kind = "head", NEW k \in 0 .. Len(CallsOf(w))
    PROVE  \E rest \in Seq(DOMAIN Raw) : w.data = rest \o Block(w, k)
<1> DEFINE chunks == Vals(CallsOf(w))
           E == DOMAIN Raw
<1>1. Sends(w, chunks)
  BY AddsSend DEF Adds, AddKinds
<1>2. chunks \in Seq(Seq(E)) /\ Len(CallsOf(w)) = Len(chunks)
  BY <1>1, CarryLength DEF Sends, Carry
<1>3. FlattenSeq(Reverse(chunks)) = w.data
  BY <1>1 DEF Sends, InOrder
<1>4. Block(w, k) = FlattenSeq(Reverse(SubSeq(chunks, 1, k)))
  BY DEF Block, InOrder
<1> HIDE DEF chunks, E
<1> DEFINE a == SubSeq(chunks, 1, k)
           b == SubSeq(chunks, k + 1, Len(chunks))
<1>5. a \in Seq(Seq(E)) /\ b \in Seq(Seq(E)) /\ a \o b = chunks
  <2>1. k \in 0 .. Len(chunks)
    BY <1>2
  <2> QED
    BY <1>2, <2>1, SplitInTwo
<1> HIDE DEF a, b
<1>6. Reverse(a \o b) = Reverse(b) \o Reverse(a) /\ Reverse(a) \in Seq(Seq(E)) /\ Reverse(b) \in Seq(Seq(E))
  <2>1. Reverse(a) \in Seq(Seq(E)) /\ Reverse(b) \in Seq(Seq(E))
    BY <1>5 DEF Reverse
  <2> QED
    BY <1>5, <2>1, ReverseConcat
<1> DEFINE c == Reverse(a)
           d == Reverse(b)
<1>7. c \in Seq(Seq(E)) /\ d \in Seq(Seq(E))
  BY <1>6
<1> HIDE DEF c, d
<1>8. FlattenSeq(d \o c) = FlattenSeq(d) \o FlattenSeq(c) /\ FlattenSeq(d) \in Seq(E)
  BY <1>7, FlattenConcat, FlattenTypes
<1>9. w.data = FlattenSeq(d) \o Block(w, k)
  BY <1>3, <1>4, <1>5, <1>6, <1>8, Zenon DEF a, c, d
<1> QED
  BY <1>8, <1>9 DEF E

LEMMA BlockIsEnd ==
    ASSUME NEW w \in Writes, Adds(w), NEW k \in 0 .. Len(CallsOf(w))
    PROVE  /\ ToSet(Block(w, k)) \subseteq ToSet(w.data)
           /\ \E n \in 0 .. Len(w.data) : Block(w, k) = Ended(w, n)
<1> DEFINE b == Block(w, k)
           E == DOMAIN Raw
<1>1. w.data \in Seq(E)
  BY WriteTypes
<1>2. b \in Seq(E)
  <2>1. CASE k = Len(CallsOf(w))
    BY <1>1, <2>1, BlockEnds
  <2>2. CASE k # Len(CallsOf(w))
    <3>1. CallsOf(w) \in Seq(ToSet(CallsOf(w)))
      BY CallsAreSequences
    <3>2. k \in Nat /\ k < Len(CallsOf(w))
      BY <2>2, <3>1
    <3> QED
      BY <3>2, BlockStep
  <2> QED
    BY <2>1, <2>2
<1>3. CASE w.kind = "head"
  <2>1. PICK rest \in Seq(E) : w.data = rest \o b
    BY <1>3, BlockIsSuffix
  <2> HIDE DEF b, E
  <2>2. /\ Len(w.data) = Len(rest) + Len(b)
        /\ SubSeq(w.data, Len(rest) + 1, Len(w.data)) = b
    BY ONLY <1>2, <2>1, PartsOfConcat
  <2>3. ToSet(w.data) = ToSet(rest) \cup ToSet(b)
    BY ONLY <1>2, <2>1, ToSetConcat
  <2>4. Len(rest) \in 0 .. Len(w.data)
    BY <1>2, <2>1, <2>2
  <2>5. b = Ended(w, Len(rest))
    BY <1>3, <2>2 DEF Ended
  <2> QED
    BY <2>3, <2>4, <2>5 DEF b
<1>4. CASE w.kind # "head"
  <2>1. PICK rest \in Seq(E) : w.data = b \o rest
    BY <1>4, BlockIsPrefix
  <2> HIDE DEF b, E
  <2>2. /\ Len(w.data) = Len(b) + Len(rest)
        /\ SubSeq(w.data, 1, Len(b)) = b
    BY ONLY <1>2, <2>1, PartsOfConcat
  <2>3. ToSet(w.data) = ToSet(b) \cup ToSet(rest)
    BY ONLY <1>2, <2>1, ToSetConcat
  <2>4. Len(b) \in 0 .. Len(w.data)
    BY <1>2, <2>1, <2>2
  <2>5. b = Ended(w, Len(b))
    BY <1>4, <2>2 DEF Ended
  <2> QED
    BY <2>3, <2>4, <2>5 DEF b
<1> QED
  BY <1>3, <1>4

\* Writes whose elements can be told from each other and from those of the container:
\* a position of the list, and one element to replace another.
Fresh(w) ==
    /\ w.kind = "position" => w.pos \in 0 .. Len(w.list)
    /\ w.kind = "replace" => Len(w.data) = 1
    /\ ToSet(w.data) \cap (ToSet(w.list) \cup {Foreign}) = {}
    /\ \A i, j \in 1 .. Len(w.data) : w.data[i] = w.data[j] => i = j

\* The elements that the first k calls of w bring.
Brought(w, k) ==
    IF Adds(w) THEN Block(w, k)
    ELSE IF w.kind = "replace" /\ k > 0 THEN w.data ELSE <<>>

\* In s are those of the first m calls; exactly once and in order if exact.
Landed(w, m, s, exact) ==
    /\ s \in Seq(AnyElement)
    /\ ToSet(s) \cap ToSet(w.data) = ToSet(Brought(w, m))
    /\ w.kind = "position" => Len(s) >= Len(w.list) + Len(Brought(w, m))
    /\ exact => IF w.kind = "position" THEN s = After(w, m)
                                       ELSE Among(s, ToSet(w.data)) = Brought(w, m)

Anchored(w) == w.kind \in {"before", "after", "replace"}

LEMMA FreshIsPlaced ==
    ASSUME NEW w \in Writes, Fresh(w)
    PROVE  Placed(w)
BY DEF Fresh, Placed

\* What the next call carries.
LEMMA NextCall ==
    ASSUME NEW w \in Writes, Adds(w), NEW k \in Nat, k < Len(CallsOf(w))
    PROVE  LET c == CallsOf(w)[k + 1]
           IN  /\ c.vals \in Seq(AnyElement) /\ Block(w, k) \in Seq(AnyElement)
               /\ Place(w, Vals(CallsOf(w)), k + 1, c)
               /\ ToSet(Block(w, k + 1)) = ToSet(Block(w, k)) \cup ToSet(c.vals)
               /\ Len(Block(w, k + 1)) = Len(Block(w, k)) + Len(c.vals)
               /\ ToSet(c.vals) \subseteq ToSet(w.data)
<1> DEFINE all == CallsOf(w)
           c == all[k + 1]
           x == c.vals
           b == Block(w, k)
           E == DOMAIN Raw
<1>1. Sends(w, Vals(all)) /\ Len(all) \in Nat
  BY AddsSend, CarryLength DEF Sends
<1>2. k + 1 \in 1 .. Len(all) /\ k + 1 \in 0 .. Len(all)
  BY <1>1
<1>3. Place(w, Vals(all), k + 1, c)
  BY <1>1, <1>2, Zenon DEF Sends
<1>4. b \in Seq(E) /\ x \in Seq(E) /\ Block(w, k + 1) = IF w.kind = "head" THEN x \o b ELSE b \o x
  BY BlockStep
<1>5. ToSet(Block(w, k + 1)) \subseteq ToSet(w.data)
  BY <1>2, BlockIsEnd
<1>6. b \in Seq(AnyElement) /\ x \in Seq(AnyElement)
  BY <1>4 DEF AnyElement
<1> HIDE DEF x, b, E, c
<1>7. ToSet(x \o b) = ToSet(x) \cup ToSet(b) /\ ToSet(b \o x) = ToSet(b) \cup ToSet(x)
  BY ONLY <1>4, ToSetConcat
<1>8. Len(x \o b) = Len(x) + Len(b) /\ Len(b \o x) = Len(b) + Len(x) /\ Len(x) + Len(b) = Len(b) + Len(x)
  BY ONLY <1>4, ConcatProperties
<1>9. Len(Block(w, k + 1)) = Len(b) + Len(x) /\ ToSet(Block(w, k + 1)) = ToSet(b) \cup ToSet(x)
  BY <1>4, <1>7, <1>8
<1> QED
  BY <1>3, <1>5, <1>6, <1>9 DEF x, b, c

\* A later call next to a pivot names the end of what has come before.
LEMMA NextPivot ==
    ASSUME NEW w \in Writes, Fresh(w), w.kind \in {"before", "after"},
           NEW k \in Nat \ {0}, k < Len(CallsOf(w))
    PROVE  LET c == CallsOf(w)[k + 1]
               b == Block(w, k)
           IN  /\ c.op = "after" /\ b \in Seq(AnyElement)
               /\ c.pivot = b[Len(b)] /\ Len(b) \in DOMAIN b /\ c.pivot \in ToSet(b)
               /\ \A i, j \in 1 .. Len(b) : b[i] = b[j] => i = j
<1> DEFINE all == CallsOf(w)
           chunks == Vals(all)
           c == all[k + 1]
           b == Block(w, k)
<1>1. Adds(w) /\ Placed(w)
  BY FreshIsPlaced DEF Adds, AddKinds
<1>2. Sends(w, chunks) /\ Len(all) \in Nat
  BY <1>1, AddsSend, CarryLength DEF Sends
<1>3. k \in 1 .. Len(all) /\ chunks[k] = all[k].vals
  <2>1. k \in 1 .. Len(all)
    BY <1>2
  <2> QED
    BY <1>2, <2>1, CarryLength DEF Sends
<1>4. c.op = "after" /\ c.pivot = Last(chunks[k])
  <2>1. k + 1 \in 1 .. Len(all) /\ k + 1 # 1 /\ (k + 1) - 1 = k
    BY <1>2
  <2>2. Place(w, chunks, k + 1, c)
    BY <1>2, <2>1, Zenon DEF Sends
  <2> HIDE DEF c, chunks
  <2> QED
    BY <2>1, <2>2 DEF Place
<1>5. /\ b \in Seq(AnyElement) /\ b # <<>> /\ Last(b) = Last(all[k].vals)
      /\ \A i, j \in 1 .. Len(b) : b[i] = b[j] => i = j
  BY <1>1, <1>3, BlockEndsWithCall
<1> HIDE DEF b, c, all, chunks
<1>6. Len(b) \in DOMAIN b /\ Last(b) = b[Len(b)]
  BY <1>5 DEF Last
<1>7. Last(b) \in ToSet(b)
  BY <1>6, Zenon DEF ToSet
<1> QED
  BY <1>3, <1>4, <1>5, <1>6, <1>7 DEF b, c, all

LEMMA AddedElements ==
    ASSUME NEW c, NEW s \in Seq(AnyElement), c.vals \in Seq(AnyElement), Applies(c, s),
           c.op \in EndOps \cup {"head", "position", "before", "after"}
    PROVE  /\ Applied(c, s) \in Seq(AnyElement) /\ Len(Applied(c, s)) = Len(s) + Len(c.vals)
           /\ ToSet(Applied(c, s)) = ToSet(s) \cup ToSet(c.vals)
<1> DEFINE E == AnyElement
           v == c.vals
<1>1. Applied(c, s) \in Seq(E) /\ Len(Applied(c, s)) = Len(s) + Len(v)
  BY AppliedGrows DEF GrowsBy
<1>2. ToSet(s \o v) = ToSet(s) \cup ToSet(v) /\ ToSet(v \o s) = ToSet(v) \cup ToSet(s)
  BY ToSetConcat
<1>3. \A i \in 0 .. Len(s) : ToSet(InsertBlock(s, i, v)) = ToSet(s) \cup ToSet(v)
  BY InsertElements
<1>4. CASE c.op \in EndOps
  <2>1. Applied(c, s) = s \o v
    BY <1>4 DEF EndOps, Applied, MapKinds, CreateKinds
  <2> QED
    BY <1>1, <1>2, <2>1
<1>5. CASE c.op = "head"
  <2>1. Applied(c, s) = v \o s
    BY <1>5 DEF Applied, MapKinds, CreateKinds
  <2> QED
    BY <1>1, <1>2, <2>1
<1>6. CASE c.op = "position"
  <2>1. Applied(c, s) = InsertBlock(s, c.pos, v) /\ c.pos \in 0 .. Len(s)
    BY <1>6 DEF Applied, Applies, FreeOps, MapKinds, CreateKinds
  <2> QED
    BY <1>1, <1>3, <2>1
<1>7. CASE c.op \in {"before", "after"}
  <2> DEFINE i == FirstIndex(s, c.pivot)
  <2>1. c.pivot \in ToSet(s)
    BY <1>7 DEF Applies, FreeOps, MapKinds, CreateKinds
  <2>2. i \in 1 .. Len(s)
    BY <2>1, FirstIndexProperty
  <2>3. Applied(c, s) = InsertBlock(s, i - 1, v) \/ Applied(c, s) = InsertBlock(s, i, v)
    BY <1>7, <2>1 DEF Applied, AppliedAt, MapKinds, CreateKinds
  <2>4. i - 1 \in 0 .. Len(s) /\ i \in 0 .. Len(s)
    BY <2>2
  <2> HIDE DEF i
  <2> QED
    BY <1>1, <1>3, <2>3, <2>4
<1> QED
  BY <1>4, <1>5, <1>6, <1>7

LEMMA FirstIndexHolds ==
    ASSUME NEW s \in Seq(AnyElement), NEW v \in ToSet(s)
    PROVE  FirstIndex(s, v) \in 1 .. Len(s) /\ s[FirstIndex(s, v)] = v
<1> DEFINE at == {i \in 1 .. Len(s) : s[i] = v}
<1>1. at # {} /\ at \subseteq Nat
  BY DEF ToSet
<1>2. PICK i \in at : \A j \in at : i <= j
  BY <1>1, LeastNatural
<1>3. i \in DOMAIN s /\ s[i] = v /\ \A j \in 1 .. i - 1 : s[j] # v
  BY <1>2
<1> QED
  BY <1>3 DEF FirstIndex

\* A call finds its place, after the ones before it or a first attempt, unless the pivot is missing.
LEMMA FindsPlace ==
    ASSUME NEW w \in Writes, Fresh(w), Adds(w), NEW k \in Nat, k < Len(CallsOf(w)),
           NEW m \in {k, k + 1}, NEW s, NEW exact, Landed(w, m, s, exact)
    PROVE  LET c == CallsOf(w)[k + 1]
           IN  /\ c.op \in EndOps \cup {"head", "position", "before", "after"}
               /\ \/ Applies(c, s)
                  \/ /\ k = 0 /\ w.kind \in {"before", "after"}
                     /\ c.op \in {"before", "after"} /\ c.pivot \notin ToSet(s)
<1> DEFINE all == CallsOf(w)
           chunks == Vals(all)
           c == all[k + 1]
           b == Block(w, k)
<1>1. Place(w, chunks, k + 1, c) /\ b \in Seq(AnyElement)
  BY NextCall
<1>2. s \in Seq(AnyElement) /\ ToSet(Block(w, m)) \subseteq ToSet(s)
  BY DEF Landed, Brought
<1>3. ToSet(b) \subseteq ToSet(s)
  <2>1. ToSet(b) \subseteq ToSet(Block(w, m))
    BY NextCall
  <2> QED
    BY <1>2, <2>1
<1>4. CASE w.kind = "position"
  <2>1. w.pos \in 0 .. Len(w.list) /\ Len(s) >= Len(w.list) + Len(Block(w, m)) /\ Len(w.list) \in Nat
    BY <1>4, WriteTypes DEF Fresh, Landed, Brought
  <2>2. c.op = "position" /\ c.pos = w.pos + Len(b)
    <3>1. c.op = "position" /\ c.pos = w.pos + Len(FlattenSeq(SubSeq(chunks, 1, (k + 1) - 1)))
      BY <1>1, <1>4 DEF Place
    <3>2. b = FlattenSeq(SubSeq(chunks, 1, k)) /\ (k + 1) - 1 = k
      BY <1>4 DEF b, Block, InOrder
    <3> HIDE DEF c, chunks
    <3> QED
      BY <3>1, <3>2
  <2>3. Len(b) \in Nat /\ Len(Block(w, m)) \in Nat /\ Len(b) <= Len(Block(w, m))
    <3>1. Len(b) \in Nat
      BY <1>1
    <3>2. Len(Block(w, k + 1)) = Len(b) + Len(c.vals) /\ Len(c.vals) \in Nat
      BY NextCall
    <3> HIDE DEF b, c
    <3>3. CASE m = k
      BY <3>1, <3>3 DEF b
    <3>4. CASE m = k + 1
      BY <3>1, <3>2, <3>4
    <3> QED
      BY <3>3, <3>4
  <2> HIDE DEF b, c
  <2>4. Len(s) \in Nat /\ c.pos \in 0 .. Len(s)
    <3>1. Len(s) \in Nat
      BY <1>2
    <3> QED
      BY ONLY <2>1, <2>2, <2>3, <3>1
  <2> QED
    BY <2>2, <2>4 DEF Applies, c
<1>5. CASE w.kind \in {"before", "after"} /\ k = 0
  <2>1. c.op \in {"before", "after"}
    BY <1>1, <1>5 DEF Place
  <2> QED
    BY <1>5, <2>1 DEF Applies
<1>6. CASE w.kind \in {"before", "after"} /\ k # 0
  <2>1. c.op = "after" /\ c.pivot \in ToSet(b)
    BY <1>6, NextPivot
  <2> QED
    BY <1>3, <2>1 DEF Applies
<1>7. CASE w.kind = "head"
  BY <1>1, <1>7 DEF Place, Applies, FreeOps
<1>8. CASE w.kind \notin {"head", "position", "before", "after"}
  BY <1>1, <1>8 DEF Place, Applies, FreeOps, EndOps
<1> QED
  BY <1>4, <1>5, <1>6, <1>7, <1>8

\* Its elements join those of the calls before it, at their end.
LEMMA JoinsInOrder ==
    ASSUME NEW w \in Writes, Fresh(w), Adds(w), w.kind # "position", NEW k \in Nat, k < Len(CallsOf(w)),
           NEW s \in Seq(AnyElement), Applies(CallsOf(w)[k + 1], s),
           Among(s, ToSet(w.data)) = Block(w, k)
    PROVE  Among(Applied(CallsOf(w)[k + 1], s), ToSet(w.data)) = Block(w, k + 1)
<1> DEFINE all == CallsOf(w)
           c == all[k + 1]
           x == c.vals
           b == Block(w, k)
           D == ToSet(w.data)
           E == AnyElement
<1>1. Place(w, Vals(all), k + 1, c) /\ b \in Seq(E) /\ x \in Seq(E) /\ ToSet(x) \subseteq D
  BY NextCall
<1>2. Block(w, k + 1) = IF w.kind = "head" THEN x \o b ELSE b \o x
  BY BlockStep
<1>3. Among(s \o x, D) = b \o x /\ Among(x \o s, D) = x \o b
  <2>1. Joins(E, D)
    BY AmongJoins
  <2>2. Among(x, D) = x
    BY <1>1, AmongAll
  <2>3. Among(s, D) = b
    OBVIOUS
  <2> HIDE DEF x, D, E, b
  <2>4. x \in Seq(E) /\ s \in Seq(E)
    BY <1>1 DEF E
  <2> QED
    BY <2>1, <2>2, <2>3, <2>4, Zenon DEF Joins
<1>4. CASE w.kind = "head"
  <2>1. Applied(c, s) = x \o s
    BY <1>1, <1>4 DEF Place, Applied, MapKinds, CreateKinds
  <2> QED
    BY <1>2, <1>3, <1>4, <2>1
<1>5. CASE w.kind \notin {"head", "position", "before", "after"}
  <2>1. Applied(c, s) = s \o x
    BY <1>1, <1>5 DEF Place, EndOps, Applied, MapKinds, CreateKinds
  <2> QED
    BY <1>2, <1>3, <1>5, <2>1
<1>6. CASE w.kind \in {"before", "after"}
  <2> DEFINE i == FirstIndex(s, c.pivot)
  <2>1. c.op \in {"before", "after"}
    BY <1>1, <1>6 DEF Place
  <2>2. c.pivot \in ToSet(s)
    BY <2>1 DEF Applies, FreeOps, MapKinds, CreateKinds
  <2>3. i \in 1 .. Len(s) /\ s[i] = c.pivot
    BY <2>2, FirstIndexHolds
  <2>4. Applied(c, s) = IF c.op = "before" THEN InsertBlock(s, i - 1, x) ELSE InsertBlock(s, i, x)
    BY <2>1, <2>2 DEF Applied, AppliedAt, MapKinds, CreateKinds
  <2>5. i - 1 \in 0 .. Len(s) /\ i \in 0 .. Len(s)
    BY <2>3
  <2>6. CASE k = 0
    <3>1. b = <<>>
      BY <2>6, BlockEnds
    <3>2. ToSet(s) \cap D = {}
      <4>1. ToSet(Among(s, D)) = ToSet(s) \cap D
        BY AmongElements
      <4>2. ToSet(<<>>) = {}
        BY DEF ToSet
      <4> QED
        BY <3>1, <4>1, <4>2
    <3>3. Block(w, k + 1) = x
      BY <1>1, <1>2, <1>6, <3>1
    <3> HIDE DEF i, x, c, D, b
    <3>4. Among(InsertBlock(s, i - 1, x), D) = x /\ Among(InsertBlock(s, i, x), D) = x
      <4>1. s \in Seq(AnyElement) /\ x \in Seq(AnyElement) /\ ToSet(x) \subseteq D
        BY <1>1
      <4>2. Among(InsertBlock(s, i - 1, x), D) = x
        BY ONLY <2>5, <3>2, <4>1, InsertAmongOthers
      <4>3. Among(InsertBlock(s, i, x), D) = x
        BY ONLY <2>5, <3>2, <4>1, InsertAmongOthers
      <4> QED
        BY <4>2, <4>3
    <3> QED
      BY <2>4, <3>3, <3>4 DEF c, D
  <2>7. CASE k # 0
    <3>1. /\ c.op = "after" /\ c.pivot = b[Len(b)] /\ c.pivot \in ToSet(b)
          /\ \A j, n \in 1 .. Len(b) : b[j] = b[n] => j = n
      BY <1>6, <2>7, NextPivot
    <3>2. c.pivot \in D
      <4>1. ToSet(Among(s, D)) = ToSet(s) \cap D
        BY AmongElements
      <4> QED
        BY <3>1, <4>1
    <3>3. Among(s, D) = b
      OBVIOUS
    <3>4. Applied(c, s) = InsertBlock(s, i, x)
      BY <2>4, <3>1
    <3> HIDE DEF i, x, c, D, b
    <3>5. Among(InsertBlock(s, i, x), D) = Among(s, D) \o x
      <4> DEFINE y == Among(s, D)
      <4>1. s[i] \in D /\ y[Len(y)] = s[i] /\ \A j, n \in 1 .. Len(y) : y[j] = y[n] => j = n
        BY <2>3, <3>1, <3>2, <3>3
      <4> HIDE DEF y
      <4>2. s \in Seq(E) /\ x \in Seq(E) /\ ToSet(x) \subseteq D /\ i \in 1 .. Len(s)
        BY <1>1, <2>3
      <4> QED
        BY ONLY <4>1, <4>2, InsertBehindLast DEF y
    <3> QED
      BY <1>2, <1>6, <3>3, <3>4, <3>5 DEF c, D
  <2> QED
    BY <2>6, <2>7
<1> QED
  BY <1>4, <1>5, <1>6

LEMMA LandedWeaker ==
    ASSUME NEW w, NEW m, NEW s, NEW exact, NEW less, Landed(w, m, s, exact), less => exact
    PROVE  Landed(w, m, s, less)
BY DEF Landed

\* A missing pivot changes nothing.
LEMMA MissingAddsNothing ==
    ASSUME NEW c, NEW s, c.op \in {"before", "after", "replace"}, c.pivot \notin ToSet(s)
    PROVE  Applied(c, s) = s
BY DEF Applied, AppliedAt, MapKinds, CreateKinds

\* A list that had room for the elements has room for the chunk too.
LEMMA RoomRemains ==
    ASSUME NEW l \in Nat, NEW s \in Nat, NEW b \in Nat, NEW x \in Nat,
           s >= l + b \/ s >= l + (b + x)
    PROVE  s + x >= l + (b + x)
OBVIOUS

LEMMA AddLandsInPlace ==
    ASSUME NEW w \in Writes, Fresh(w), Adds(w), NEW k \in Nat, k < Len(CallsOf(w)),
           NEW m \in {k, k + 1}, NEW s, NEW exact \in BOOLEAN, Landed(w, m, s, exact),
           Applies(CallsOf(w)[k + 1], s)
    PROVE  Landed(w, k + 1, Applied(CallsOf(w)[k + 1], s), exact /\ m # k + 1)
<1> DEFINE all == CallsOf(w)
           c == all[k + 1]
           x == c.vals
           b == Block(w, k)
           B == Block(w, k + 1)
           D == ToSet(w.data)
           t == Applied(c, s)
<1>1. /\ x \in Seq(AnyElement) /\ b \in Seq(AnyElement) /\ ToSet(x) \subseteq D
      /\ ToSet(B) = ToSet(b) \cup ToSet(x) /\ Len(B) = Len(b) + Len(x)
  BY NextCall
<1>2. c.op \in EndOps \cup {"head", "position", "before", "after"}
  BY FindsPlace
<1>3. /\ s \in Seq(AnyElement) /\ ToSet(s) \cap D = ToSet(Block(w, m))
      /\ w.kind = "position" => Len(s) >= Len(w.list) + Len(Block(w, m))
      /\ exact => IF w.kind = "position" THEN s = After(w, m) ELSE Among(s, D) = Block(w, m)
  BY DEF Landed, Brought
<1>4. t \in Seq(AnyElement) /\ Len(t) = Len(s) + Len(x) /\ ToSet(t) = ToSet(s) \cup ToSet(x)
  BY <1>1, <1>2, <1>3, AddedElements
<1>5. w.kind # "position" /\ exact /\ m = k => Among(t, D) = B
  BY <1>3, JoinsInOrder
<1>6. Applied(c, After(w, k)) = After(w, k + 1)
  BY FreshIsPlaced, AfterNext
<1>7. w.kind = "position" /\ exact /\ m = k => t = After(w, k + 1)
  BY <1>3, <1>6
<1>8. Len(w.list) \in Nat /\ k # k + 1
  BY WriteTypes
<1> HIDE DEF all, c, x, b, B, D, t
<1>9. ToSet(t) \cap D = ToSet(B)
  <2>1. CASE m = k
    BY <1>1, <1>3, <1>4, <2>1 DEF b
  <2>2. CASE m = k + 1
    BY <1>1, <1>3, <1>4, <2>2 DEF B
  <2> QED
    BY <2>1, <2>2
<1>10. w.kind = "position" => Len(t) >= Len(w.list) + Len(B)
  <2> SUFFICES ASSUME w.kind = "position" PROVE Len(t) >= Len(w.list) + Len(B)
    OBVIOUS
  <2>1. Len(x) \in Nat /\ Len(b) \in Nat /\ Len(s) \in Nat
    BY <1>1, <1>3
  <2>2. Len(B) = Len(b) + Len(x) /\ Len(t) = Len(s) + Len(x)
    BY <1>1, <1>4
  <2>3. Len(s) >= Len(w.list) + Len(b) \/ Len(s) >= Len(w.list) + Len(B)
    BY <1>3, Zenon DEF b, B
  <2> QED
    BY ONLY <1>8, <2>1, <2>2, <2>3, RoomRemains, Zenon
<1>11. exact /\ m # k + 1 => IF w.kind = "position" THEN t = After(w, k + 1) ELSE Among(t, D) = B
  BY <1>5, <1>7
<1> QED
  BY <1>4, <1>9, <1>10, <1>11, Zenon DEF Landed, Brought, B, D, t, c, all

LEMMA AddLands ==
    ASSUME NEW w \in Writes, Fresh(w), Adds(w), NEW k \in Nat, k < Len(CallsOf(w)),
           NEW m, m \in {k, k + 1} \/ (m = 0 /\ Anchored(w)),
           NEW s, NEW exact \in BOOLEAN, Landed(w, m, s, exact)
    PROVE  \E n \in {0, k + 1} :
              /\ n = k + 1 \/ Anchored(w)
              /\ Landed(w, n, Applied(CallsOf(w)[k + 1], s), exact /\ m # k + 1)
<1> DEFINE c == CallsOf(w)[k + 1]
           less == exact /\ m # k + 1
<1>1. CASE m \in {k, k + 1} /\ Applies(c, s)
  <2>1. Landed(w, k + 1, Applied(c, s), less)
    BY <1>1, AddLandsInPlace
  <2> QED
    BY <2>1
<1>2. CASE m \in {k, k + 1} /\ ~Applies(c, s)
  <2>1. k = 0 /\ w.kind \in {"before", "after"} /\ c.op \in {"before", "after"} /\ c.pivot \notin ToSet(s)
    BY <1>2, FindsPlace
  <2>2. Applied(c, s) = s
    BY <2>1, MissingAddsNothing
  <2>3. Landed(w, m, s, less)
    BY LandedWeaker
  <2>4. m \in {0, k + 1} /\ Anchored(w)
    BY <1>2, <2>1 DEF Anchored
  <2> QED
    BY <2>2, <2>3, <2>4
<1>3. CASE m \notin {k, k + 1}
  <2>1. m = 0 /\ Anchored(w) /\ k \in Nat \ {0}
    BY <1>3
  <2>2. w.kind \in {"before", "after"}
    BY <2>1, ChunkAssumption DEF Anchored, Adds, AddKinds, MapKinds, CreateKinds
  <2>3. c.op = "after" /\ c.pivot \in ToSet(Block(w, k))
    BY <2>1, <2>2, NextPivot
  <2>4. ToSet(Block(w, k)) \subseteq ToSet(w.data)
    <3>1. CallsOf(w) \in Seq(ToSet(CallsOf(w)))
      BY CallsAreSequences
    <3>2. k \in 0 .. Len(CallsOf(w))
      BY <3>1
    <3> QED
      BY <3>2, BlockIsEnd
  <2>5. ToSet(s) \cap ToSet(w.data) = {}
    <3>1. ToSet(s) \cap ToSet(w.data) = ToSet(Block(w, 0))
      BY <2>1 DEF Landed, Brought
    <3>2. Block(w, 0) = <<>> /\ ToSet(<<>>) = {}
      BY BlockEnds DEF ToSet
    <3> QED
      BY <3>1, <3>2
  <2>6. Applied(c, s) = s
    BY <2>3, <2>4, <2>5, MissingAddsNothing
  <2>7. Landed(w, 0, s, less)
    BY <2>1, LandedWeaker
  <2> QED
    BY <2>1, <2>6, <2>7
<1> QED
  BY <1>1, <1>2, <1>3

LEMMA TakeLands ==
    ASSUME NEW w \in Writes, w.kind \in {"stream", "takeHead", "takeTail"},
           NEW c, c.op = w.kind, NEW m, NEW n, NEW s, NEW exact \in BOOLEAN, Landed(w, m, s, exact)
    PROVE  Landed(w, n, Applied(c, s), exact)
<1> DEFINE t == Applied(c, s)
           D == ToSet(w.data)
           E == AnyElement
<1>1. ~Adds(w) /\ \A j : Brought(w, j) = <<>>
  BY DEF Adds, AddKinds, MapKinds, CreateKinds, Brought
<1>2. s \in Seq(E) /\ ToSet(s) \cap D = {}
  BY <1>1 DEF Landed, ToSet
<1>3. t \in Seq(E) /\ ToSet(t) \subseteq ToSet(s)
  <2>1. CASE w.kind = "stream"
    BY <1>2, <2>1 DEF Applied, MapKinds, CreateKinds
  <2>2. CASE w.kind = "takeHead"
    <3>1. t = SubSeq(s, 2, Len(s))
      BY <2>2 DEF Applied, MapKinds, CreateKinds
    <3> HIDE DEF t
    <3>2. t \in Seq(E) /\ DOMAIN t = 1 .. Len(t) /\ \A i \in 1 .. Len(t) : i + 1 \in 1 .. Len(s) /\ t[i] = s[i + 1]
      BY <1>2, <3>1
    <3> QED
      BY <1>2, <3>2 DEF ToSet
  <2>3. CASE w.kind = "takeTail"
    <3>1. t = SubSeq(s, 1, Len(s) - 1)
      BY <2>3 DEF Applied, MapKinds, CreateKinds
    <3> HIDE DEF t
    <3>2. t \in Seq(E) /\ DOMAIN t = 1 .. Len(t) /\ \A i \in 1 .. Len(t) : i \in 1 .. Len(s) /\ t[i] = s[i]
      BY <1>2, <3>1
    <3> QED
      BY <1>2, <3>2 DEF ToSet
  <2> QED
    BY <2>1, <2>2, <2>3
<1> HIDE DEF t, D, E
<1>4. ToSet(t) \cap D = {}
  BY <1>2, <1>3
<1>5. Among(t, D) = <<>>
  BY <1>3, <1>4, AmongNone
<1> QED
  BY <1>1, <1>3, <1>4, <1>5 DEF Landed, ToSet, t, D, E

LEMMA ReplaceLands ==
    ASSUME NEW w \in Writes, Fresh(w), w.kind = "replace",
           NEW c, c.op = "replace", c.vals = w.data,
           NEW m \in {0, 1}, NEW s, NEW exact \in BOOLEAN, Landed(w, m, s, exact)
    PROVE  \E n \in {0, 1} : Landed(w, n, Applied(c, s), exact /\ m # 1)
<1> DEFINE D == ToSet(w.data)
           E == AnyElement
           x == w.data[1]
           t == Applied(c, s)
           less == exact /\ m # 1
<1>1. /\ ~Adds(w) /\ Brought(w, 0) = <<>> /\ Brought(w, 1) = w.data
  BY DEF Adds, AddKinds, MapKinds, CreateKinds, Brought
<1>2. w.data = <<x>> /\ x \in E /\ D = {x}
  <2>1. w.data \in Seq(DOMAIN Raw) /\ Len(w.data) = 1
    BY WriteTypes DEF Fresh
  <2>2. w.data = <<x>> /\ x \in DOMAIN Raw
    BY <2>1
  <2> HIDE DEF x
  <2> QED
    BY <2>2 DEF AnyElement, ToSet
<1>3. s \in Seq(E) /\ ToSet(s) \cap D \subseteq {x} /\ (m = 0 => ToSet(s) \cap D = {})
  <2>1. ToSet(s) \cap D = ToSet(Brought(w, m)) /\ s \in Seq(E)
    BY DEF Landed
  <2>2. ToSet(<<>>) = {}
    BY DEF ToSet
  <2> HIDE DEF D, E, x
  <2> QED
    BY <1>1, <1>2, <2>1, <2>2 DEF D
<1>4. CASE c.pivot \notin ToSet(s)
  <2>1. t = s
    BY <1>4, MissingAddsNothing
  <2>2. Landed(w, m, s, less)
    BY LandedWeaker
  <2> QED
    BY <2>1, <2>2
<1>5. CASE c.pivot \in ToSet(s)
  <2> DEFINE i == FirstIndex(s, c.pivot)
  <2>1. i \in 1 .. Len(s)
    BY <1>3, <1>5, FirstIndexHolds
  <2>2. t = [s EXCEPT ![i] = x]
    BY <1>5 DEF Applied, AppliedAt, MapKinds, CreateKinds
  <2> HIDE DEF i, E, x, D, t
  <2>3. x \in D
    BY <1>2
  <2>4. /\ t \in Seq(E) /\ ToSet(t) \cap D = {x}
        /\ m = 0 => Among(t, D) = <<x>>
    <3> DEFINE r == [s EXCEPT ![i] = x]
    <3>1. s \in Seq(E) /\ i \in 1 .. Len(s) /\ x \in E /\ x \in D
      BY <1>2, <1>3, <2>1, <2>3
    <3>2. /\ r \in Seq(E)
          /\ ToSet(s) \cap D \subseteq {x} => ToSet(r) \cap D = {x}
          /\ ToSet(s) \cap D = {} => Among(r, D) = <<x>>
      BY ONLY <3>1, ReplacedElements
    <3> HIDE DEF r
    <3>3. t = r
      BY <2>2 DEF r
    <3> QED
      BY <1>3, <3>2, <3>3
  <2>5. ToSet(t) \cap D = ToSet(Brought(w, 1))
    BY <1>1, <1>2, <2>4 DEF D
  <2>6. less => Among(t, D) = Brought(w, 1)
    BY <1>1, <1>2, <2>4
  <2>7. Landed(w, 1, t, less)
    BY <2>4, <2>5, <2>6 DEF Landed, D, E
  <2> QED
    BY <2>7 DEF t
<1> QED
  BY <1>4, <1>5

\* An operation of one call: the element it replaces another with, or none.
LEMMA SingleLands ==
    ASSUME NEW w \in Writes, Fresh(w), Takes(w) \/ Keeps(w), NEW k \in Nat, k < Len(CallsOf(w)),
           NEW m, m \in {k, k + 1} \/ (m = 0 /\ Anchored(w)),
           NEW s, NEW exact \in BOOLEAN, Landed(w, m, s, exact)
    PROVE  \E n \in {0, k + 1} :
              /\ n = k + 1 \/ Anchored(w)
              /\ Landed(w, n, Applied(CallsOf(w)[k + 1], s), exact /\ m # k + 1)
<1>1. PICK c : /\ CallsOf(w) = <<c>> /\ c.op = w.kind
               /\ w.kind = "replace" => c.pivot = w.pivot /\ c.vals = w.data
  BY SingleCalls
<1>2. k = 0 /\ CallsOf(w)[k + 1] = c /\ m \in {0, 1}
  BY <1>1
<1>3. CASE w.kind = "replace"
  <2>1. \E n \in {0, 1} : Landed(w, n, Applied(c, s), exact /\ m # 1)
    BY <1>1, <1>2, <1>3, ReplaceLands
  <2> QED
    BY <1>2, <1>3, <2>1 DEF Anchored
<1>4. CASE w.kind # "replace"
  <2>1. w.kind \in {"stream", "takeHead", "takeTail"}
    BY <1>4 DEF Takes, Keeps
  <2>2. Landed(w, 1, Applied(c, s), exact)
    BY <1>1, <2>1, TakeLands
  <2>3. Landed(w, 1, Applied(c, s), exact /\ m # k + 1)
    BY <2>2, LandedWeaker
  <2> QED
    BY <1>2, <2>3
<1> QED
  BY <1>3, <1>4

\* One more call was carried out: its elements have arrived, or a pivot was missing.
LEMMA CallLands ==
    ASSUME NEW w \in Writes, Fresh(w), w.kind # "remove", NEW k \in Nat, k < Len(CallsOf(w)),
           NEW m, m \in {k, k + 1} \/ (m = 0 /\ Anchored(w)),
           NEW s, NEW exact \in BOOLEAN, Landed(w, m, s, exact)
    PROVE  \E n \in {0, k + 1} :
              /\ n = k + 1 \/ Anchored(w)
              /\ Landed(w, n, Applied(CallsOf(w)[k + 1], s), exact /\ m # k + 1)
<1>1. CASE Adds(w)
  BY <1>1, AddLands
<1>2. CASE ~Adds(w)
  <2>1. Takes(w) \/ Keeps(w)
    BY <1>2, ChunkAssumption DEF Adds, Takes, Keeps, PlainKinds
  <2> QED
    BY <2>1, SingleLands
<1> QED
  BY <1>1, <1>2

\* Another client adds its element at an end.
LEMMA ForeignLands ==
    ASSUME NEW w \in Writes, Fresh(w), NEW m \in 0 .. Len(CallsOf(w)), NEW s,
           NEW exact \in BOOLEAN, Landed(w, m, s, exact),
           NEW t \in {<<Foreign>> \o s, Append(s, Foreign)}
    PROVE  Landed(w, m, t, exact /\ w.kind # "position")
<1> DEFINE D == ToSet(w.data)
           E == AnyElement
           f == <<Foreign>>
<1>1. /\ s \in Seq(E) /\ ToSet(s) \cap D = ToSet(Brought(w, m))
      /\ w.kind = "position" => Len(s) >= Len(w.list) + Len(Brought(w, m))
      /\ exact /\ w.kind # "position" => Among(s, D) = Brought(w, m)
  BY DEF Landed
<1>3. t \in {f \o s, s \o f}
  <2>1. Append(s, Foreign) = s \o <<Foreign>>
    BY ONLY <1>1
  <2> QED
    BY <2>1
<1>2. f \in Seq(E) /\ ToSet(f) = {Foreign} /\ Len(f) = 1 /\ Foreign \notin D
  <2>1. Foreign \in E /\ Foreign \notin D
    BY DEF AnyElement, Fresh
  <2> QED
    BY <2>1 DEF ToSet
<1> HIDE DEF D, E, f
<1>4. Among(f, D) = <<>>
  BY <1>2, AmongNone
<1>5. t \in Seq(E) /\ Len(t) = Len(s) + 1 /\ ToSet(t) = ToSet(s) \cup {Foreign}
  <2>1. f \o s \in Seq(E) /\ ToSet(f \o s) = ToSet(f) \cup ToSet(s)
    BY ONLY <1>1, <1>2, ConcatProperties, ToSetConcat
  <2>2. s \o f \in Seq(E) /\ ToSet(s \o f) = ToSet(s) \cup ToSet(f)
    BY ONLY <1>1, <1>2, ConcatProperties, ToSetConcat
  <2>3. Len(f \o s) = Len(s) + 1 /\ Len(s \o f) = Len(s) + 1
    <3>0. s \in Seq(E) /\ f \in Seq(E)
      BY <1>1, <1>2
    <3>1. Len(f \o s) = Len(f) + Len(s) /\ Len(s \o f) = Len(s) + Len(f)
      BY ONLY <3>0, ConcatProperties
    <3>2. Len(s) \in Nat /\ Len(f) = 1
      BY <1>1, <1>2
    <3> QED
      BY ONLY <3>1, <3>2
  <2> QED
    BY <1>2, <1>3, <2>1, <2>2, <2>3
<1>6. Among(t, D) = Among(s, D)
  <2>1. Joins(E, D)
    BY AmongJoins
  <2>2. Among(f \o s, D) = Among(f, D) \o Among(s, D) /\ Among(s \o f, D) = Among(s, D) \o Among(f, D)
    BY <1>1, <1>2, <2>1, Zenon DEF Joins
  <2>3. Among(s, D) \in Seq(E)
    BY ONLY <1>1, AmongTypes
  <2>4. <<>> \o Among(s, D) = Among(s, D) /\ Among(s, D) \o <<>> = Among(s, D)
    BY <2>3
  <2> QED
    BY <1>3, <1>4, <2>2, <2>4
<1>7. ToSet(t) \cap D = ToSet(Brought(w, m))
  BY <1>1, <1>2, <1>5
<1>8. w.kind = "position" => Len(t) >= Len(w.list) + Len(Brought(w, m))
  <2> SUFFICES ASSUME w.kind = "position" PROVE Len(t) >= Len(w.list) + Len(Brought(w, m))
    OBVIOUS
  <2>1. Len(s) \in Nat /\ Len(s) >= Len(w.list) + Len(Brought(w, m))
    BY <1>1
  <2>2. Len(w.list) + Len(Brought(w, m)) \in Int
    <3>1. Adds(w) /\ Brought(w, m) = Block(w, m)
      BY DEF Brought, Adds, AddKinds
    <3>2. PICK n \in 0 .. Len(w.data) : Block(w, m) = Ended(w, n)
      BY <3>1, BlockIsEnd
    <3>3. Ended(w, n) \in Seq(DOMAIN Raw)
      BY WriteTypes DEF Ended
    <3>4. Len(Brought(w, m)) \in Nat
      BY <3>1, <3>2, <3>3
    <3> QED
      BY <3>4, WriteTypes
  <2> QED
    BY ONLY <1>5, <2>1, <2>2
<1>9. exact /\ w.kind # "position" => Among(t, D) = Brought(w, m)
  BY <1>1, <1>6
<1> QED
  BY <1>5, <1>7, <1>8, <1>9 DEF Landed, D, E

-----------------------------------------------------------------------------
(* What has arrived, of the calls that have returned or failed.             *)

\* Carried out once, and by no one disturbed where that matters.
Exact == repeats = 0 /\ (write.kind = "position" => foreign = 0)

\* k calls have returned.  Their elements have arrived, or none, for lack of a pivot;
\* and those of the call under way, or which failed, perhaps.
HaveArrived(k, m) == \/ m = k
                     \/ m = 0 /\ Anchored(write)
                     \/ m = k + 1 /\ (attempt = "repeat" \/ outcome = "failed")

ArrivedInv ==
    /\ write \in Writes /\ foreign \in Nat /\ repeats \in Nat
    /\ attempt # "none" => outcome = "running" /\ calls # <<>>
    /\ write.kind # "remove" =>
          \E k \in 0 .. Len(CallsOf(write)) : \E m \in 0 .. Len(CallsOf(write)) :
             /\ calls = Remaining(CallsOf(write), k)
             /\ HaveArrived(k, m)
             /\ Landed(write, m, list, Exact)

LEMMA StartsArrived ==
    ASSUME \A w \in Writes : Fresh(w), Init
    PROVE  ArrivedInv
<1>1. /\ write \in Writes /\ Fresh(write) /\ foreign = 0 /\ repeats = 0 /\ outcome = "running"
      /\ list = write.list
  BY DEF Init
<1> DEFINE all == CallsOf(write)
           D == ToSet(write.data)
<1>2. all \in Seq(ToSet(all)) /\ calls = all
  BY <1>1, CallsAreSequences DEF Init
<1>3. attempt # "none" => calls # <<>>
  <2>1. CASE write.kind \in CreateKinds
    BY <1>1, <1>2, <2>1, CreateSends
  <2>2. CASE write.kind \in PlainKinds
    <3>1. PICK c : all = <<c>>
      BY <1>1, <2>2, PlainCall
    <3> QED
      BY <1>2, <3>1
  <2> QED
    BY <2>1, <2>2 DEF Init
<1>4. list \in Seq(AnyElement) /\ ToSet(list) \cap D = {}
  BY <1>1, WriteTypes DEF Fresh
<1>5. Brought(write, 0) = <<>>
  BY <1>1, BlockEnds DEF Brought
<1>6. Landed(write, 0, list, Exact)
  <2>1. ToSet(<<>>) = {}
    BY DEF ToSet
  <2>2. Len(list) >= Len(write.list) + Len(<<>>)
    <3>1. Len(list) \in Nat
      BY <1>4
    <3> QED
      BY <1>1, <3>1
  <2>3. list = After(write, 0)
    BY <1>1, FreshIsPlaced, AfterNone
  <2> HIDE DEF D
  <2>4. Among(list, D) = <<>>
    BY ONLY <1>4, AmongNone
  <2> QED
    BY <1>4, <1>5, <2>1, <2>2, <2>3, <2>4 DEF Landed, D
<1> HIDE DEF all, D
<1>7. 0 \in 0 .. Len(all) /\ calls = Remaining(all, 0)
  <2>1. 0 \in 0 .. Len(all)
    BY <1>2
  <2> QED
    BY <1>2, <2>1, RemainingSteps
<1>8. HaveArrived(0, 0)
  BY DEF HaveArrived
<1> QED
  BY <1>1, <1>3, <1>6, <1>7, <1>8 DEF ArrivedInv, all

\* What the call under way brings, if it is carried out.
LEMMA CarriedOutLands ==
    ASSUME \A w \in Writes : Fresh(w), ArrivedInv, write.kind # "remove",
           attempt # "none", CarryOut
    PROVE  \E k \in Nat, n \in Nat, exact \in BOOLEAN :
              LET last == Len(CallsOf(write))
              IN  /\ {k, k + 1, n} \subseteq 0 .. last
                  /\ calls = Remaining(CallsOf(write), k)
                  /\ Tail(calls) = Remaining(CallsOf(write), k + 1)
                  /\ n = k + 1 \/ (n = 0 /\ Anchored(write))
                  /\ Landed(write, n, list', exact)
                  /\ Exact /\ attempt # "repeat" => exact
<1> DEFINE all == CallsOf(write)
<1>1. write \in Writes /\ Fresh(write) /\ calls # <<>> /\ outcome = "running" /\ all \in Seq(ToSet(all))
  BY CallsAreSequences DEF ArrivedInv
<1>2. PICK k \in 0 .. Len(all), m \in 0 .. Len(all) :
              calls = Remaining(all, k) /\ HaveArrived(k, m) /\ Landed(write, m, list, Exact)
  BY DEF ArrivedInv
<1>3. list' = Applied(Head(calls), list)
  BY DEF CarryOut
<1> HIDE DEF all
<1>4. k \in Nat /\ k < Len(all) /\ {k, k + 1, 0} \subseteq 0 .. Len(all) /\ k # k + 1 /\ 0 # k + 1
  <2>1. Len(all) \in Nat /\ k # Len(all)
    BY <1>1, <1>2, RemainingSteps
  <2> QED
    BY <2>1
<1>5. Head(calls) = all[k + 1] /\ Tail(calls) = Remaining(all, k + 1)
  BY <1>1, <1>2, <1>4, RemainingSteps
<1> DEFINE exact == Exact /\ m # k + 1
<1>6. Exact \in BOOLEAN /\ exact \in BOOLEAN
  BY DEF Exact
<1>7. m \in {k, k + 1} \/ (m = 0 /\ Anchored(write))
  BY <1>2 DEF HaveArrived
<1>8. PICK n \in {0, k + 1} : /\ n = k + 1 \/ Anchored(write)
                              /\ Landed(write, n, Applied(all[k + 1], list), exact)
  BY <1>1, <1>2, <1>4, <1>6, <1>7, CallLands DEF all
<1>9. Exact /\ attempt # "repeat" => exact
  BY <1>1, <1>2, <1>4 DEF HaveArrived
<1> HIDE DEF exact
<1>10. Landed(write, n, list', exact)
  BY <1>3, <1>5, <1>8
<1>11. n \in Nat /\ {k, k + 1, n} \subseteq 0 .. Len(all)
  BY <1>4, <1>8
<1> QED
  BY <1>2, <1>4, <1>5, <1>6, <1>8, <1>9, <1>10, <1>11, Zenon DEF all

LEMMA StaysArrived ==
    ASSUME \A w \in Writes : Fresh(w), ArrivedInv, [Next]_vars
    PROVE  ArrivedInv'
<1> DEFINE all == CallsOf(write)
           Reached(k, m) == /\ calls' = Remaining(all, k)
                            /\ HaveArrived(k, m)'
                            /\ Landed(write, m, list', Exact')
           Arrived == write.kind # "remove" =>
                         \E k \in 0 .. Len(all) : \E m \in 0 .. Len(all) : Reached(k, m)
<1>0. /\ write \in Writes /\ Fresh(write) /\ foreign \in Nat /\ repeats \in Nat
      /\ attempt # "none" => outcome = "running" /\ calls # <<>>
  BY DEF ArrivedInv
<1>1. write.kind # "remove" =>
         \E k \in 0 .. Len(all) : \E m \in 0 .. Len(all) :
            calls = Remaining(all, k) /\ HaveArrived(k, m) /\ Landed(write, m, list, Exact)
  BY DEF ArrivedInv
<1>2. SUFFICES /\ write' = write /\ foreign' \in Nat /\ repeats' \in Nat
               /\ attempt' # "none" => outcome' = "running" /\ calls' # <<>>
               /\ Arrived
  BY <1>0 DEF ArrivedInv
\* A step that leaves the list alone.
<1>3. ASSUME write' = write, calls' = calls, list' = list,
             outcome' = outcome \/ outcome' = "failed" \/ (outcome # "failed" /\ attempt # "repeat"),
             attempt' = attempt \/ outcome' = "failed" \/ (outcome # "failed" /\ attempt # "repeat"),
             Exact' => Exact
      PROVE  Arrived
  <2> SUFFICES ASSUME write.kind # "remove"
               PROVE  \E k \in 0 .. Len(all) : \E m \in 0 .. Len(all) : Reached(k, m)
    OBVIOUS
  <2>1. PICK k \in 0 .. Len(all), m \in 0 .. Len(all) :
           calls = Remaining(all, k) /\ HaveArrived(k, m) /\ Landed(write, m, list, Exact)
    BY <1>1
  <2>2. HaveArrived(k, m)'
    BY <1>3, <2>1 DEF HaveArrived
  <2>3. Landed(write, m, list, Exact')
    BY <1>3, <2>1, LandedWeaker
  <2> QED
    BY <1>3, <2>1, <2>2, <2>3
\* A step that carries the call out.
<1>4. ASSUME attempt # "none", CarryOut, write' = write, Exact' => Exact /\ attempt # "repeat",
             \/ calls' = Tail(calls)
             \/ calls' = calls /\ (attempt' = "repeat" \/ outcome' = "failed")
      PROVE  Arrived
  <2> SUFFICES ASSUME write.kind # "remove"
               PROVE  \E k \in 0 .. Len(all) : \E m \in 0 .. Len(all) : Reached(k, m)
    OBVIOUS
  <2>1. PICK k \in Nat, n \in Nat, exact \in BOOLEAN :
              /\ {k, k + 1, n} \subseteq 0 .. Len(all)
              /\ calls = Remaining(all, k) /\ Tail(calls) = Remaining(all, k + 1)
              /\ n = k + 1 \/ (n = 0 /\ Anchored(write))
              /\ Landed(write, n, list', exact)
              /\ Exact /\ attempt # "repeat" => exact
    BY <1>4, CarriedOutLands
  <2>2. Landed(write, n, list', Exact')
    BY <1>4, <2>1, LandedWeaker
  <2>3. CASE calls' = Tail(calls)
    <3>1. HaveArrived(k + 1, n)'
      BY <1>4, <2>1 DEF HaveArrived
    <3> QED
      BY <2>1, <2>2, <2>3, <3>1
  <2>4. CASE calls' = calls /\ (attempt' = "repeat" \/ outcome' = "failed")
    <3>1. HaveArrived(k, n)'
      BY <1>4, <2>1, <2>4 DEF HaveArrived
    <3> QED
      BY <2>1, <2>2, <2>4, <3>1
  <2> QED
    BY <1>4, <2>3, <2>4
<1>5. CASE Submit
  <2>1. /\ UNCHANGED <<write, calls, list, outcome, foreign, repeats>> /\ attempt' = "first"
        /\ attempt = "none" /\ calls # <<>> /\ outcome = "running"
    BY <1>5 DEF Submit
  <2>2. Arrived
    BY <1>3, <2>1 DEF Exact
  <2> QED
    BY <1>0, <2>1, <2>2
<1>6. CASE CallReturns
  <2>1. /\ UNCHANGED <<write, outcome, foreign>> /\ attempt # "none" /\ attempt' = "none"
        /\ CarryOut /\ calls' = Tail(calls)
        /\ repeats' = repeats + (IF attempt = "repeat" THEN 1 ELSE 0)
    BY <1>6 DEF CallReturns, CarryOut
  <2>2. Exact' => Exact /\ attempt # "repeat"
    BY <1>0, <2>1 DEF Exact
  <2>3. Arrived
    BY <1>4, <2>1, <2>2
  <2> QED
    BY <1>0, <2>1, <2>3
<1>7. CASE CallUnavailable
  <2>1. /\ UNCHANGED <<write, calls, outcome, foreign>> /\ attempt = "first"
        /\ \/ CarryOut /\ attempt' = "repeat" /\ repeats' = repeats + 0
           \/ attempt' = "again" /\ list' = list /\ repeats' = repeats
    BY <1>7 DEF CallUnavailable, CarryOut
  <2>2. repeats' = repeats
    BY <1>0, <2>1
  <2>3. Exact' => Exact /\ attempt # "repeat"
    BY <2>1, <2>2 DEF Exact
  <2>4. Arrived
    <3>1. CASE CarryOut /\ attempt' = "repeat"
      BY <1>4, <2>1, <2>3, <3>1
    <3>2. CASE attempt' = "again" /\ list' = list
      BY <1>0, <1>3, <2>1, <2>3, <3>2
    <3> QED
      BY <2>1, <3>1, <3>2
  <2> QED
    BY <1>0, <2>1, <2>2, <2>4
<1>8. CASE CallFails
  <2>1. /\ UNCHANGED <<write, calls, foreign>> /\ attempt # "none" /\ attempt' = "none"
        /\ outcome' = "failed"
        /\ \/ CarryOut /\ repeats' = repeats + (IF attempt = "repeat" THEN 1 ELSE 0)
           \/ list' = list /\ repeats' = repeats
    BY <1>8 DEF CallFails, CarryOut
  <2>2. CASE CarryOut /\ repeats' = repeats + (IF attempt = "repeat" THEN 1 ELSE 0)
    <3>1. Exact' => Exact /\ attempt # "repeat"
      BY <1>0, <2>1, <2>2 DEF Exact
    <3>2. Arrived
      BY <1>4, <2>1, <2>2, <3>1
    <3> QED
      BY <1>0, <2>1, <2>2, <3>2
  <2>3. CASE list' = list /\ repeats' = repeats
    <3>1. Exact' => Exact
      BY <2>1, <2>3 DEF Exact
    <3>2. Arrived
      BY <1>3, <2>1, <2>3, <3>1
    <3> QED
      BY <1>0, <2>1, <2>3, <3>2
  <2> QED
    BY <2>1, <2>2, <2>3
<1>9. CASE PipelineEnds
  <2>1. /\ UNCHANGED <<write, calls, attempt, list, foreign, repeats>>
        /\ outcome = "running" /\ attempt = "none"
    BY <1>9 DEF PipelineEnds
  <2>2. Arrived
    BY <1>3, <2>1 DEF Exact
  <2> QED
    BY <1>0, <2>1, <2>2
<1>10. CASE ForeignWrite
  <2>1. /\ UNCHANGED <<write, calls, attempt, outcome, repeats>> /\ foreign' = foreign + 1
        /\ list' \in {<<Foreign>> \o list, Append(list, Foreign)}
    BY <1>10 DEF ForeignWrite
  <2>2. foreign' \in Nat /\ (Exact' => Exact /\ write.kind # "position")
    BY <1>0, <2>1 DEF Exact
  <2>3. Arrived
    <3> SUFFICES ASSUME write.kind # "remove"
                 PROVE  \E k \in 0 .. Len(all) : \E m \in 0 .. Len(all) : Reached(k, m)
      OBVIOUS
    <3>1. PICK k \in 0 .. Len(all), m \in 0 .. Len(all) :
             calls = Remaining(all, k) /\ HaveArrived(k, m) /\ Landed(write, m, list, Exact)
      BY <1>1
    <3>2. HaveArrived(k, m)'
      BY <2>1, <3>1 DEF HaveArrived
    <3>3. Exact \in BOOLEAN
      BY DEF Exact
    <3>4. Landed(write, m, list', Exact /\ write.kind # "position")
      BY <1>0, <2>1, <3>1, <3>3, ForeignLands
    <3>5. Landed(write, m, list', Exact')
      BY <2>2, <3>4, LandedWeaker
    <3> QED
      BY <2>1, <3>1, <3>2, <3>5
  <2> QED
    BY <1>0, <2>1, <2>2, <2>3
<1>11. CASE CallerFrees \/ UNCHANGED vars
  <2>1. UNCHANGED <<write, calls, attempt, list, outcome, foreign, repeats>>
    BY <1>11 DEF CallerFrees, vars
  <2>2. Arrived
    BY <1>3, <2>1 DEF Exact
  <2> QED
    BY <1>0, <2>1, <2>2
<1> QED
  BY <1>5, <1>6, <1>7, <1>8, <1>9, <1>10, <1>11 DEF Next, PipelineStep

(***************************************************************************)
(* Whatever fails, is repeated or comes in between, the elements that have *)
(* arrived are those of the first calls: a pipeline that ends half way     *)
(* (smart_client.cpp: runAddPipeline) leaves a beginning of the data, or,  *)
(* for the head, an end of it.  And they stand in the caller's order, as   *)
(* long as no call was carried out twice: the pivot of the next chunk is   *)
(* the last element that arrived (addElementToPositionBefore, ...After).   *)
(***************************************************************************)
THEOREM ArrivesInOrder ==
    ASSUME \A w \in Writes : Fresh(w)
    PROVE  Spec => []ArrivedInOrder
<1>1. Init => ArrivedInv
  BY StartsArrived
<1>2. ArrivedInv /\ [Next]_vars => ArrivedInv'
  BY StaysArrived
<1>3. ASSUME ArrivedInv PROVE ArrivedInOrder
  <2> DEFINE D == ToSet(write.data)
             mine == Among(list, D)
  <2> SUFFICES ASSUME write.kind # "remove"
               PROVE  \E n \in 0 .. Len(write.data) :
                         /\ ToSet(mine) = ToSet(Ended(write, n))
                         /\ Exact => mine = Ended(write, n)
    BY DEF ArrivedInOrder, Ended, Exact
  <2>1. write \in Writes /\ Fresh(write)
    BY <1>3 DEF ArrivedInv
  <2>2. PICK m \in 0 .. Len(CallsOf(write)) : Landed(write, m, list, Exact)
    BY <1>3 DEF ArrivedInv
  <2> DEFINE b == Brought(write, m)
  <2>3. /\ list \in Seq(AnyElement) /\ ToSet(list) \cap D = ToSet(b)
        /\ Exact => IF write.kind = "position" THEN list = After(write, m) ELSE mine = b
    BY <2>2 DEF Landed
  <2>4. ToSet(mine) = ToSet(b)
    <3> HIDE DEF D, b
    <3>1. list \in Seq(AnyElement)
      BY <2>3
    <3>2. ToSet(Among(list, D)) = ToSet(list) \cap D
      BY ONLY <3>1, AmongElements
    <3> QED
      BY <2>3, <3>2
  <2>5. \E n \in 0 .. Len(write.data) : b = Ended(write, n)
    <3>1. CASE Adds(write)
      BY <2>1, <3>1, BlockIsEnd DEF Brought
    <3>2. CASE ~Adds(write)
      <4>1. write.kind # "head" /\ write.data \in Seq(DOMAIN Raw)
        BY <2>1, <3>2, WriteTypes DEF Adds, AddKinds
      <4>2. Ended(write, 0) = <<>> /\ 0 \in 0 .. Len(write.data)
        BY <4>1 DEF Ended
      <4>3. Ended(write, Len(write.data)) = write.data /\ Len(write.data) \in 0 .. Len(write.data)
        BY <4>1 DEF Ended
      <4>4. b \in {<<>>, write.data}
        BY <3>2 DEF Brought
      <4> HIDE DEF b
      <4> QED
        BY <4>2, <4>3, <4>4
    <3> QED
      BY <3>1, <3>2
  <2>6. Exact => mine = b
    <3> SUFFICES ASSUME Exact, write.kind = "position"
                 PROVE  mine = b
      BY <2>3
    <3>1. Adds(write) /\ ~MissingPivot(write) /\ write.kind \notin PlainKinds
      BY DEF Adds, AddKinds, MissingPivot, PlainKinds
    <3>2. b = Block(write, m) /\ list = InsertBlock(write.list, At(write), Block(write, m))
      BY <2>3, <3>1 DEF Brought, After
    <3>3. At(write) \in 0 .. Len(write.list)
      BY <2>1, <3>1, FreshIsPlaced, AtTypes
    <3>4. write.list \in Seq(AnyElement) /\ ToSet(write.list) \cap D = {}
      BY <2>1, WriteTypes DEF Fresh
    <3>5. Block(write, m) \in Seq(AnyElement) /\ ToSet(Block(write, m)) \subseteq D
      <4>1. PICK n \in 0 .. Len(write.data) : Block(write, m) = Ended(write, n)
        BY <2>1, <3>1, BlockIsEnd
      <4>2. Ended(write, n) \in Seq(AnyElement)
        BY <2>1, WriteTypes DEF Ended, AnyElement
      <4> QED
        BY <2>1, <3>1, <4>1, <4>2, BlockIsEnd
    <3> HIDE DEF D, b
    <3>6. Among(InsertBlock(write.list, At(write), Block(write, m)), D) = Block(write, m)
      BY ONLY <3>3, <3>4, <3>5, InsertAmongOthers
    <3> QED
      BY <3>2, <3>6
  <2> HIDE DEF b, mine
  <2> QED
    BY <2>4, <2>5, <2>6
<1> QED
  BY <1>1, <1>2, <1>3, PTL DEF Spec

=============================================================================

------------------------ MODULE CoordinatorClientProofs ------------------------
(***************************************************************************)
(* Proofs about CoordinatorClient, for any set of fetches, coordinators,   *)
(* timeouts and chunks.                                                    *)
(***************************************************************************)
EXTENDS CoordinatorClient, SequenceTheorems, TLAPS

-----------------------------------------------------------------------------
(* The inductive invariant.                                                  *)

\* The order of the steps of shutdown(), and what the cached stub leads to.
ClientInv ==
    /\ shutdown <=> shutPc # "idle"
    /\ cq = "shut" <=> shutPc \in {"join", "done"}
    /\ cqThread = "exited" => cq = "shut" /\ InFlight = {}
    /\ shutPc = "done" => cqThread = "exited"
    /\ stub # NoTarget => stub = activeTarget

\* The call object lives from StartFetch to the outcome; the stub it was made from
\* leads where the fetch was told to go.
LifeInv(f) ==
    /\ pc[f] # "returned" => state[f] = "none" /\ promise[f] = "unset"
    /\ pc[f] = "returned" => (promise[f] = "unset" <=> f \in InFlight)
    /\ state[f] = "none" => accumulated[f] = NoInfo /\ delivered[f] = 0
    /\ pc[f] = "gotStub" \/ f \in InFlight => via[f] = Target[f]

\* What has been accumulated of the reply.
Table(f) == IF accumulated[f] = NoInfo THEN [max |-> 0, peers |-> <<>>] ELSE accumulated[f]

TableInv(f) ==
    /\ delivered[f] <= Len(sent[f])
    /\ IsTableOf(Table(f), sent[f], delivered[f])
    /\ promise[f] = "value" =>
          final[f] = "OK" /\ accumulated[f] # NoInfo /\ delivered[f] = Len(sent[f])

FetchInv(f) == LifeInv(f) /\ TableInv(f)

IInv == TypeOK /\ ClientInv /\ \A f \in Fetches : FetchInv(f)

-----------------------------------------------------------------------------
(* The table of a reply, chunk by chunk.                                     *)

Infos == [max : Nat, peers : Seq(Peers)]

\* Positions in a concatenation: the second part starts after the first one's l.
LEMMA Positions ==
    /\ \A l, m \in Nat : \A j \in 1..m :
          l + j \in 1..(l + m) /\ ~(l + j <= l) /\ (l + j) - l = j
    /\ \A l, m \in Nat : \A j \in 1..l : j \in 1..(l + m) /\ j <= l
    /\ \A l, a, w \in Nat : a + w <= l => \A j \in 1..w : a + j \in 1..l
OBVIOUS

LEMMA EmptyTable == \A s : IsTableOf([max |-> 0, peers |-> <<>>], s, 0)
<1> SUFFICES ASSUME NEW s PROVE IsTableOf([max |-> 0, peers |-> <<>>], s, 0)
  OBVIOUS
<1> DEFINE none == [i \in 0..0 |-> 0]
<1>1. none \in [0..0 -> 0..Len(<<>>)] /\ none[0] = 0 /\ none[0] = Len(<<>>) /\ 1..0 = {}
  OBVIOUS
<1> HIDE DEF none
<1>2. EndsAt(none, <<>>, s, 0)
  BY <1>1 DEF EndsAt
<1>4. IsConcatenation(<<>>, s, 0)
  BY <1>1, <1>2 DEF IsConcatenation
<1>3. IsFirstPositive(0, s, 0)
  BY DEF IsFirstPositive
<1> QED
  BY <1>3, <1>4 DEF IsTableOf

\* A chunk that arrives later changes nothing of what the first n chunks say.
LEMMA LaterChunksDoNotMatter ==
    ASSUME NEW info \in Infos, NEW s \in Seq(Chunks), NEW n \in Nat, n <= Len(s), NEW k \in Chunks,
           IsTableOf(info, s, n)
    PROVE  IsTableOf(info, Append(s, k), n)
<1>1. \A i \in 1..n : Append(s, k)[i] = s[i]
  OBVIOUS
<1>2. IsFirstPositive(info.max, Append(s, k), n)
  BY <1>1 DEF IsTableOf, IsFirstPositive
<1>3. IsConcatenation(info.peers, Append(s, k), n)
  <2>1. PICK cut \in [0..n -> 0..Len(info.peers)] : EndsAt(cut, info.peers, s, n)
    BY DEF IsTableOf, IsConcatenation
  <2> DEFINE longer == Append(s, k)
  <2>2. \A i \in 1..n : longer[i] = s[i]
    BY <1>1
  <2> HIDE DEF longer
  <2>3. EndsAt(cut, info.peers, longer, n)
    <3>1. /\ cut[0] = 0
          /\ cut[n] = Len(info.peers)
          /\ \A i \in 1..n :
                /\ cut[i] = cut[i - 1] + Len(s[i].peers)
                /\ \A j \in 1..Len(s[i].peers) : info.peers[cut[i - 1] + j] = s[i].peers[j]
      BY <2>1 DEF EndsAt
    <3>2. ASSUME NEW i \in 1..n
          PROVE  /\ cut[i] = cut[i - 1] + Len(longer[i].peers)
                 /\ \A j \in 1..Len(longer[i].peers) :
                       info.peers[cut[i - 1] + j] = longer[i].peers[j]
      <4>1. longer[i] = s[i]
        BY <2>2
      <4> QED
        BY <3>1, <4>1
    <3> QED
      BY <3>1, <3>2 DEF EndsAt
  <2>4. IsConcatenation(info.peers, longer, n)
    BY <2>3 DEF IsConcatenation
  <2> QED
    BY <2>4 DEF longer
<1> QED
  BY <1>2, <1>3 DEF IsTableOf

\* Accumulating the next chunk of a reply gives the table of one chunk more.
LEMMA AccumulateExtends ==
    ASSUME NEW info \in Infos \cup {NoInfo}, NEW s \in Seq(Chunks), NEW n \in Nat, n < Len(s),
           IsTableOf(IF info = NoInfo THEN [max |-> 0, peers |-> <<>>] ELSE info, s, n)
    PROVE  /\ Accumulate(info, s[n + 1]) \in Infos
           /\ IsTableOf(Accumulate(info, s[n + 1]), s, n + 1)
<1> DEFINE i == IF info = NoInfo THEN [max |-> 0, peers |-> <<>>] ELSE info
           k == s[n + 1]
           new == Accumulate(info, k)
           sum == i.peers \o k.peers
<1>1. k \in Chunks /\ k \in Infos /\ i \in Infos
  BY CoordinatorAssumption DEF Infos
<1>2. new = [max |-> IF i.max = 0 THEN k.max ELSE i.max, peers |-> sum]
  BY DEF Accumulate
<1> HIDE DEF i, k, new
<1>3. i.max \in Nat /\ k.max \in Nat /\ i.peers \in Seq(Peers) /\ k.peers \in Seq(Peers)
  BY <1>1 DEF Infos
<1>4. new \in Infos /\ new.max = (IF i.max = 0 THEN k.max ELSE i.max) /\ new.peers = sum
  <2>1. sum \in Seq(Peers)
    BY <1>3
  <2> HIDE DEF sum
  <2> QED
    BY <1>2, <1>3, <2>1 DEF Infos
<1>5. IsTableOf(i, s, n)
  BY DEF i
<1>6. IsFirstPositive(new.max, s, n + 1)
  <2>1. CASE i.max = 0
    <3>1. \A j \in 1..n : s[j].max = 0
      BY <1>5, <2>1 DEF IsTableOf, IsFirstPositive
    <3>2. new.max = s[n + 1].max /\ s[n + 1].max \in Nat
      BY <1>3, <1>4, <2>1 DEF k
    <3> QED
      BY <3>1, <3>2 DEF IsFirstPositive
  <2>2. CASE i.max # 0
    <3>1. PICK j \in 1..n : i.max > 0 /\ i.max = s[j].max /\ \A h \in 1..(j - 1) : s[h].max = 0
      BY <1>5, <2>2 DEF IsTableOf, IsFirstPositive
    <3> QED
      BY <1>4, <2>2, <3>1 DEF IsFirstPositive
  <2> QED
    BY <2>1, <2>2
<1>7. IsConcatenation(new.peers, s, n + 1)
  <2>1. PICK cut \in [0..n -> 0..Len(i.peers)] : EndsAt(cut, i.peers, s, n)
    BY <1>5 DEF IsTableOf, IsConcatenation
  <2> DEFINE l == Len(i.peers)
             longer == [c \in 0..(n + 1) |-> IF c <= n THEN cut[c] ELSE Len(sum)]
  <2>2. l \in Nat /\ Len(k.peers) \in Nat /\ k.peers = s[n + 1].peers
    BY <1>3 DEF k
  <2>3. /\ Len(sum) = l + Len(k.peers)
        /\ \A j \in 1..(l + Len(k.peers)) :
              sum[j] = IF j <= l THEN i.peers[j] ELSE k.peers[j - l]
    BY <1>3, ConcatProperties
  <2> HIDE DEF sum
  <2>4. \A j \in 1..l : sum[j] = i.peers[j]
    BY <2>2, <2>3, Positions
  <2>5. \A j \in 1..Len(k.peers) : sum[l + j] = k.peers[j]
    <3> SUFFICES ASSUME NEW j \in 1..Len(k.peers) PROVE sum[l + j] = k.peers[j]
      OBVIOUS
    <3>1. l + j \in 1..(l + Len(k.peers)) /\ ~(l + j <= l) /\ (l + j) - l = j
      BY <2>2, Positions
    <3> QED
      BY <2>3, <3>1
  <2> HIDE DEF l
  <2>6. /\ \A c \in 0..n : longer[c] = cut[c] /\ cut[c] \in 0..l
        /\ longer[n + 1] = Len(sum)
    BY <2>2 DEF l
  <2>7. longer \in [0..(n + 1) -> 0..Len(sum)]
    <3> SUFFICES ASSUME NEW c \in 0..(n + 1)
                 PROVE  longer[c] \in 0..Len(sum)
      OBVIOUS
    <3>1. l <= Len(sum) /\ Len(sum) \in Nat
      BY <2>2, <2>3
    <3>2. c \in 0..n \/ c = n + 1
      OBVIOUS
    <3> HIDE DEF longer
    <3> QED
      BY <2>2, <2>6, <3>1, <3>2
  <2> HIDE DEF longer
  <2>8. /\ cut[0] = 0
        /\ cut[n] = l
        /\ \A c \in 1..n :
              /\ cut[c] = cut[c - 1] + Len(s[c].peers)
              /\ \A j \in 1..Len(s[c].peers) : i.peers[cut[c - 1] + j] = s[c].peers[j]
    BY <2>1 DEF EndsAt, l
  <2>9. ASSUME NEW c \in 1..(n + 1)
        PROVE  /\ longer[c] = longer[c - 1] + Len(s[c].peers)
               /\ \A j \in 1..Len(s[c].peers) : sum[longer[c - 1] + j] = s[c].peers[j]
    <3>1. CASE c = n + 1
      <4>1. longer[c - 1] = l /\ longer[c] = Len(sum) /\ s[c].peers = k.peers
        BY <2>2, <2>6, <2>8, <3>1
      <4> QED
        BY <2>3, <2>5, <4>1
    <3>2. CASE c \in 1..n
      <4>1. /\ longer[c - 1] = cut[c - 1] /\ longer[c] = cut[c]
            /\ cut[c - 1] \in 0..l /\ cut[c] \in 0..l
        BY <2>6, <3>2
      <4>2. s[c] \in Infos
        BY CoordinatorAssumption, <3>2 DEF Infos
      <4>3. Len(s[c].peers) \in Nat
        BY <4>2 DEF Infos
      <4>4. ASSUME NEW j \in 1..Len(s[c].peers)
            PROVE  sum[longer[c - 1] + j] = s[c].peers[j]
        <5> DEFINE a == cut[c - 1]
                   w == Len(s[c].peers)
        <5>3. cut[c] = a + w
          BY <2>8, <3>2
        <5>4. a \in Nat /\ cut[c] <= l
          BY <2>2, <4>1
        <5>2. a \in Nat /\ w \in Nat /\ a + w <= l /\ l \in Nat
          BY <2>2, <4>3, <5>3, <5>4
        <5>1. a + j \in 1..l
          BY <5>2, Positions
        <5> QED
          BY <2>4, <2>8, <3>2, <4>1, <5>1
      <4> QED
        BY <2>8, <3>2, <4>1, <4>4
    <3> QED
      BY <3>1, <3>2
  <2>10. EndsAt(longer, sum, s, n + 1)
    <3>1. longer[0] = 0
      BY <2>6, <2>8
    <3> QED
      BY <2>6, <2>9, <3>1 DEF EndsAt
  <2> QED
    BY <1>4, <2>7, <2>10 DEF IsConcatenation
<1> QED
  BY <1>4, <1>6, <1>7 DEF IsTableOf, new, k

-----------------------------------------------------------------------------
(* Type correctness.                                                         *)

LEMMA TypeInit == Init => TypeOK
<1> SUFFICES ASSUME Init PROVE TypeOK
  OBVIOUS
<1>1. sent \in [Fetches -> Seq(Chunks)] /\ delivered \in [Fetches -> Nat]
  BY DEF Init
<1>2. accumulated \in [Fetches -> [max : Numbers, peers : Seq(Peers)] \cup {NoInfo}]
  BY DEF Init
<1>3. via \in [Fetches -> Targets \cup {NoTarget}]
  BY DEF Init
<1> QED
  BY <1>1, <1>2, <1>3 DEF Init, TypeOK

\* A step of fetch f: of its thread, of the coordinator, or of Proceed.
FetchStep(f) ==
    \/ RejectFetch(f) \/ BeginFetch(f) \/ ProvideGlobalRoutingInfo(f)
    \/ CoordinatorSend(f) \/ CoordinatorEnd(f) \/ DeadlineExpires(f)
    \/ Proceed(f)

ShutdownStep == ShutdownBegin \/ ResetChannel \/ ShutCq \/ JoinCqThread

\* The accumulated table has the numbers and peers of the chunks it was made of.
LEMMA AccumulateTypes ==
    ASSUME NEW info \in [max : Numbers, peers : Seq(Peers)] \cup {NoInfo}, NEW k \in Chunks
    PROVE  Accumulate(info, k) \in [max : Numbers, peers : Seq(Peers)]
<1> DEFINE i == IF info = NoInfo THEN [max |-> 0, peers |-> <<>>] ELSE info
<1>1. i.max \in Numbers /\ i.peers \in Seq(Peers)
  BY DEF Numbers
<1>2. k.max \in Numbers /\ k.peers \in Seq(Peers)
  BY CoordinatorAssumption DEF Numbers
<1>3. i.peers \o k.peers \in Seq(Peers)
  BY <1>1, <1>2, ConcatProperties
<1> QED
  BY <1>1, <1>2, <1>3 DEF Accumulate

LEMMA TypeInductive == TypeOK /\ [Next]_vars => TypeOK'
<1> SUFFICES ASSUME TypeOK, [Next]_vars PROVE TypeOK'
  OBVIOUS
<1> USE DEF TypeOK, clientVars, callVars, wireVars
<1>1. ASSUME NEW f \in Fetches, FetchStep(f) PROVE TypeOK'
  <2>1. CASE RejectFetch(f)
    BY <2>1 DEF RejectFetch
  <2>2. CASE BeginFetch(f)
    BY <2>2 DEF BeginFetch
  <2>3. CASE EnsureStub(f)
    <3>1. Target[f] \in Targets
      BY CoordinatorAssumption
    <3>2. activeTarget' \in Targets \cup {NoTarget} /\ stub' \in Targets \cup {NoTarget}
      BY <2>3, <3>1 DEF EnsureStub
    <3>3. via' \in [Fetches -> Targets \cup {NoTarget}]
      BY <2>3, <3>2 DEF EnsureStub
    <3>4. pc' \in [Fetches -> {"idle", "checked", "gotStub", "returned"}]
      BY <2>3 DEF EnsureStub
    <3> QED
      BY <2>3, <3>2, <3>3, <3>4 DEF EnsureStub
  <2>4. CASE StartFetch(f)
    BY <2>4 DEF StartFetch
  <2>5. CASE CoordinatorSend(f)
    <3>1. PICK k \in Chunks : sent' = [sent EXCEPT ![f] = Append(@, k)]
      BY <2>5 DEF CoordinatorSend
    <3>2. Append(sent[f], k) \in Seq(Chunks)
      OBVIOUS
    <3>3. sent' \in [Fetches -> Seq(Chunks)]
      BY <3>1, <3>2
    <3> QED
      BY <2>5, <3>3 DEF CoordinatorSend
  <2>6. CASE CoordinatorEnd(f)
    BY <2>6 DEF CoordinatorEnd
  <2>7. CASE DeadlineExpires(f)
    BY <2>7 DEF DeadlineExpires
  <2>8. CASE ProceedStarted(f)
    BY <2>8 DEF ProceedStarted, Proceeding
  <2>9. CASE ProceedChunk(f)
    <3> DEFINE k == sent[f][delivered[f] + 1]
    <3>1. k \in Chunks
      BY <2>9 DEF ProceedChunk
    <3>2. accumulated[f] \in [max : Numbers, peers : Seq(Peers)] \cup {NoInfo}
      OBVIOUS
    <3> HIDE DEF k
    <3>3. Accumulate(accumulated[f], k) \in [max : Numbers, peers : Seq(Peers)]
      BY <3>1, <3>2, AccumulateTypes
    <3>4. accumulated' = [accumulated EXCEPT ![f] = Accumulate(accumulated[f], k)]
      BY <2>9 DEF ProceedChunk, k
    <3>5. accumulated' \in [Fetches -> [max : Numbers, peers : Seq(Peers)] \cup {NoInfo}]
      BY <3>3, <3>4
    <3>7. /\ state' \in [Fetches -> {"none", "STARTED", "READING", "FINISHING", "deleted"}]
          /\ delivered' \in [Fetches -> Nat]
      BY <2>9 DEF ProceedChunk, Proceeding
    <3>8. UNCHANGED <<clientVars, pc, via, promise, sent, final, crashed>>
      BY <2>9 DEF ProceedChunk
    <3> QED
      BY <3>5, <3>7, <3>8
  <2>10. CASE ProceedEndOfStream(f)
    BY <2>10 DEF ProceedEndOfStream, Proceeding
  <2>11. CASE ProceedFinished(f)
    <3>1. [max |-> 0, peers |-> <<>>] \in [max : Numbers, peers : Seq(Peers)]
      BY DEF Numbers
    <3>2. accumulated' \in [Fetches -> [max : Numbers, peers : Seq(Peers)] \cup {NoInfo}]
      <4> DEFINE new == IF accumulated[f] = NoInfo THEN [max |-> 0, peers |-> <<>>] ELSE accumulated[f]
      <4>1. new \in [max : Numbers, peers : Seq(Peers)] \cup {NoInfo}
        BY <3>1
      <4>2. accumulated' = accumulated \/ accumulated' = [accumulated EXCEPT ![f] = new]
        BY <2>11 DEF ProceedFinished
      <4> HIDE DEF new
      <4> QED
        BY <4>1, <4>2
    <3>3. promise' \in [Fetches -> {"unset", "value", "error"}]
      BY <2>11 DEF ProceedFinished
    <3> QED
      BY <2>11, <3>2, <3>3 DEF ProceedFinished, Proceeding
  <2>12. CASE StartAborts(f) \/ ProceedAborts(f)
    BY <2>12 DEF StartAborts, ProceedAborts, Abort
  <2> QED
    BY <1>1, <2>1, <2>2, <2>3, <2>4, <2>5, <2>6, <2>7, <2>8, <2>9, <2>10, <2>11, <2>12
       DEF FetchStep, ProvideGlobalRoutingInfo, Proceed
<1>2. CASE CqThreadExits
  BY <1>2 DEF CqThreadExits
<1>3. CASE ShutdownStep
  BY <1>3 DEF ShutdownStep, ShutdownBegin, ResetChannel, ShutCq, JoinCqThread
<1>4. CASE UNCHANGED vars
  BY <1>4 DEF vars
<1> QED
  BY <1>1, <1>2, <1>3, <1>4 DEF Next, FetchStep, ShutdownStep

(***************************************************************************)
(* Type correctness: the coordinator client's variables keep their types.  *)
(* What is accumulated is made of numbers and peers the chunks contain.    *)
(***************************************************************************)
THEOREM TypeCorrect == Spec => []TypeOK
BY TypeInit, TypeInductive, PTL DEF Spec

-----------------------------------------------------------------------------
(* The invariant is inductive.                                               *)

\* What a step leaves of fetch f when it is another fetch's, or nobody's.
Untouched(f) ==
    /\ pc'[f] = pc[f] /\ via'[f] = via[f] /\ state'[f] = state[f]
    /\ accumulated'[f] = accumulated[f] /\ promise'[f] = promise[f]
    /\ sent'[f] = sent[f] /\ delivered'[f] = delivered[f] /\ final'[f] = final[f]

\* Fetches share the stub, the queue and nothing else.
LEMMA OthersUntouched ==
    ASSUME TypeOK, NEW f \in Fetches, NEW g \in Fetches, f # g, FetchStep(g)
    PROVE  Untouched(f)
<1> USE DEF Untouched, TypeOK, clientVars, callVars, wireVars
<1>1. CASE RejectFetch(g) \/ BeginFetch(g) \/ ProvideGlobalRoutingInfo(g)
  BY <1>1 DEF RejectFetch, BeginFetch, ProvideGlobalRoutingInfo, EnsureStub, StartFetch,
              StartAborts, Abort
<1>2. CASE CoordinatorSend(g) \/ CoordinatorEnd(g) \/ DeadlineExpires(g)
  BY <1>2 DEF CoordinatorSend, CoordinatorEnd, DeadlineExpires
<1>3. CASE Proceed(g)
  BY <1>3 DEF Proceed, ProceedStarted, ProceedChunk, ProceedEndOfStream, ProceedFinished,
              ProceedAborts, Proceeding, Abort
<1> QED
  BY <1>1, <1>2, <1>3 DEF FetchStep

LEMMA UntouchedKeeps ==
    ASSUME NEW f \in Fetches, FetchInv(f), Untouched(f)
    PROVE  FetchInv(f)'
BY DEF Untouched, FetchInv, LifeInv, TableInv, Table, InFlight

\* A step that adds no chunk to the table, and takes none away, keeps it.
LEMMA SameTable ==
    ASSUME TypeOK, NEW f \in Fetches, TableInv(f), Table(f)' = Table(f),
           sent'[f] = sent[f], delivered'[f] = delivered[f]
    PROVE  delivered'[f] <= Len(sent'[f]) /\ IsTableOf(Table(f)', sent'[f], delivered'[f])
BY DEF TableInv

LEMMA OwnStep ==
    ASSUME TypeOK, TypeOK', ClientInv, NEW f \in Fetches, FetchInv(f), FetchStep(f)
    PROVE  FetchInv(f)'
<1> USE DEF FetchInv, InFlight, TypeOK, clientVars, callVars, wireVars
<1>1. CASE RejectFetch(f)
  <2>1. LifeInv(f)'
    BY <1>1 DEF RejectFetch, LifeInv
  <2>2. TableInv(f)'
    BY <1>1 DEF RejectFetch, TableInv, Table
  <2> QED
    BY <2>1, <2>2
<1>2. CASE BeginFetch(f)
  <2>1. LifeInv(f)'
    BY <1>2 DEF BeginFetch, LifeInv
  <2>2. TableInv(f)'
    BY <1>2 DEF BeginFetch, TableInv, Table
  <2> QED
    BY <2>1, <2>2
<1>3. CASE EnsureStub(f)
  <2>1. stub' = Target[f]
    BY <1>3 DEF EnsureStub, ClientInv
  <2>2. LifeInv(f)'
    BY <1>3, <2>1 DEF EnsureStub, LifeInv
  <2>3. TableInv(f)'
    BY <1>3 DEF EnsureStub, TableInv, Table
  <2> QED
    BY <2>2, <2>3
<1>4. CASE StartFetch(f)
  <2>1. LifeInv(f)'
    BY <1>4 DEF StartFetch, LifeInv
  <2>2. TableInv(f)'
    BY <1>4 DEF StartFetch, TableInv, Table
  <2> QED
    BY <2>1, <2>2
<1>5. CASE CoordinatorSend(f)
  <2>1. PICK k \in Chunks : sent' = [sent EXCEPT ![f] = Append(@, k)]
    BY <1>5 DEF CoordinatorSend
  <2>2. LifeInv(f)'
    BY <1>5 DEF CoordinatorSend, LifeInv
  <2>3. Table(f) \in Infos /\ Table(f)' = Table(f)
    <3>1. [max |-> 0, peers |-> <<>>] \in Infos
      BY DEF Infos
    <3>2. [max : Numbers, peers : Seq(Peers)] \subseteq Infos
      BY CoordinatorAssumption DEF Infos, Numbers
    <3>3. Table(f) \in Infos
      BY <3>1, <3>2 DEF Table
    <3> QED
      BY <1>5, <3>3 DEF CoordinatorSend, Table
  <2>4. sent'[f] = Append(sent[f], k) /\ delivered'[f] = delivered[f]
    BY <1>5, <2>1 DEF CoordinatorSend
  <2>5. delivered[f] \in Nat /\ delivered[f] <= Len(sent[f]) /\ IsTableOf(Table(f), sent[f], delivered[f])
    BY DEF TableInv
  <2>6. IsTableOf(Table(f)', sent'[f], delivered'[f])
    BY <2>3, <2>4, <2>5, LaterChunksDoNotMatter
  <2>7. delivered'[f] <= Len(sent'[f])
    BY <2>4, <2>5
  <2>8. promise'[f] # "value"
    BY <1>5 DEF CoordinatorSend, LifeInv
  <2> QED
    BY <2>2, <2>6, <2>7, <2>8 DEF TableInv
<1>6. CASE CoordinatorEnd(f) \/ DeadlineExpires(f)
  <2>1. LifeInv(f)'
    BY <1>6 DEF CoordinatorEnd, DeadlineExpires, LifeInv
  <2>2. promise'[f] # "value"
    BY <1>6 DEF CoordinatorEnd, DeadlineExpires, LifeInv
  <2>3. TableInv(f)'
    BY <1>6, <2>2 DEF CoordinatorEnd, DeadlineExpires, TableInv, Table
  <2> QED
    BY <2>1, <2>3
<1>7. CASE ProceedStarted(f) \/ ProceedEndOfStream(f)
  <2>1. LifeInv(f)'
    BY <1>7 DEF ProceedStarted, ProceedEndOfStream, Proceeding, LifeInv
  <2>2. TableInv(f)'
    BY <1>7 DEF ProceedStarted, ProceedEndOfStream, Proceeding, TableInv, Table
  <2> QED
    BY <2>1, <2>2
<1>8. CASE ProceedChunk(f)
  <2> DEFINE k == sent[f][delivered[f] + 1]
  <2>1. LifeInv(f)'
    BY <1>8 DEF ProceedChunk, Proceeding, LifeInv
  <2>2. accumulated[f] \in Infos \cup {NoInfo}
    <3>1. [max : Numbers, peers : Seq(Peers)] \subseteq Infos
      BY CoordinatorAssumption DEF Infos, Numbers
    <3> QED
      BY <3>1
  <2>3. /\ sent[f] \in Seq(Chunks) /\ delivered[f] \in Nat /\ delivered[f] < Len(sent[f])
        /\ IsTableOf(IF accumulated[f] = NoInfo THEN [max |-> 0, peers |-> <<>>] ELSE accumulated[f],
                     sent[f], delivered[f])
    BY <1>8 DEF ProceedChunk, TableInv, Table
  <2>4. /\ Accumulate(accumulated[f], k) \in Infos
        /\ IsTableOf(Accumulate(accumulated[f], k), sent[f], delivered[f] + 1)
    BY <2>2, <2>3, AccumulateExtends
  <2>5. /\ accumulated'[f] = Accumulate(accumulated[f], k)
        /\ sent'[f] = sent[f] /\ delivered'[f] = delivered[f] + 1
    BY <1>8 DEF ProceedChunk
  <2>6. Table(f)' = accumulated'[f]
    BY <2>4, <2>5, CoordinatorAssumption DEF Table, Infos
  <2>7. promise'[f] # "value"
    BY <1>8 DEF ProceedChunk, Proceeding, LifeInv
  <2>8. delivered'[f] <= Len(sent'[f]) /\ IsTableOf(Table(f)', sent'[f], delivered'[f])
    BY <2>3, <2>4, <2>5, <2>6
  <2> QED
    BY <2>1, <2>7, <2>8 DEF TableInv
<1>9. CASE ProceedFinished(f)
  <2>1. LifeInv(f)'
    BY <1>9 DEF ProceedFinished, Proceeding, LifeInv
  <2>2. /\ Table(f)' = Table(f) /\ sent' = sent /\ delivered' = delivered
        /\ promise'[f] = "value" =>
              final'[f] = "OK" /\ accumulated'[f] # NoInfo /\ delivered'[f] = Len(sent'[f])
    <3>1. [max |-> 0, peers |-> <<>>] # NoInfo
      <4>1. [max |-> 0, peers |-> <<>>] \in [max : Nat, peers : Seq(Peers)]
        OBVIOUS
      <4> QED
        BY <4>1, CoordinatorAssumption
    <3>2. sent' = sent /\ delivered' = delivered /\ final' = final
      BY <1>9 DEF ProceedFinished
    <3>3. CASE final[f] = "OK"
      BY <1>9, <3>1, <3>2, <3>3 DEF ProceedFinished, Drained, Table
    <3>4. CASE final[f] # "OK"
      BY <1>9, <3>2, <3>4 DEF ProceedFinished, Table
    <3> QED
      BY <3>3, <3>4
  <2> QED
    BY <2>1, <2>2 DEF TableInv
<1>10. CASE StartAborts(f) \/ ProceedAborts(f)
  <2>1. LifeInv(f)'
    BY <1>10 DEF StartAborts, ProceedAborts, Abort, LifeInv
  <2>2. TableInv(f)'
    BY <1>10 DEF StartAborts, ProceedAborts, Abort, TableInv, Table
  <2> QED
    BY <2>1, <2>2
<1> QED
  BY <1>1, <1>2, <1>3, <1>4, <1>5, <1>6, <1>7, <1>8, <1>9, <1>10
     DEF FetchStep, ProvideGlobalRoutingInfo, Proceed

\* A fetch in flight stays so but for its own Finish, and none joins it on a queue that
\* is shut down and drained.
LEMMA ExitedStaysQuiet ==
    ASSUME TypeOK, ClientInv, cqThread = "exited", NEW f \in Fetches, FetchStep(f)
    PROVE  InFlight' = {}
<1>1. cq = "shut" /\ InFlight = {}
  BY DEF ClientInv
<1>2. ~StartFetch(f) /\ ~Proceed(f)
  BY <1>1 DEF StartFetch, QueueMayAccept, Proceed, ProceedStarted, ProceedChunk,
              ProceedEndOfStream, ProceedFinished, ProceedAborts, Proceeding
<1>3. state' = state
  BY <1>2 DEF FetchStep, ProvideGlobalRoutingInfo, RejectFetch, BeginFetch, EnsureStub,
              StartAborts, Abort, CoordinatorSend, CoordinatorEnd, DeadlineExpires, callVars
<1> QED
  BY <1>1, <1>3 DEF InFlight

LEMMA ClientStep == TypeOK /\ ClientInv /\ [Next]_vars => ClientInv'
<1> SUFFICES ASSUME TypeOK, ClientInv, [Next]_vars PROVE ClientInv'
  OBVIOUS
<1> USE DEF ClientInv, TypeOK, clientVars
<1>1. ASSUME NEW f \in Fetches, EnsureStub(f) PROVE ClientInv'
  <2>1. cqThread = "exited" => InFlight' = {}
    BY <1>1, ExitedStaysQuiet DEF FetchStep, ProvideGlobalRoutingInfo
  <2> QED
    BY <1>1, <2>1 DEF EnsureStub
<1>2. ASSUME NEW f \in Fetches, FetchStep(f), ~EnsureStub(f) PROVE ClientInv'
  <2>1. UNCHANGED clientVars
    BY <1>2 DEF FetchStep, ProvideGlobalRoutingInfo, RejectFetch, BeginFetch, StartFetch,
                StartAborts, Abort, CoordinatorSend, CoordinatorEnd, DeadlineExpires, Proceed,
                ProceedStarted, ProceedChunk, ProceedEndOfStream, ProceedFinished, ProceedAborts
  <2>2. cqThread = "exited" => InFlight' = {}
    BY <1>2, ExitedStaysQuiet
  <2> QED
    BY <2>1, <2>2
<1>3. CASE CqThreadExits
  BY <1>3 DEF CqThreadExits, InFlight, callVars
<1>4. CASE ShutdownStep
  BY <1>4 DEF ShutdownStep, ShutdownBegin, ResetChannel, ShutCq, JoinCqThread, InFlight, callVars
<1>5. CASE UNCHANGED vars
  BY <1>5 DEF vars, InFlight, callVars
<1> QED
  BY <1>1, <1>2, <1>3, <1>4, <1>5 DEF Next, FetchStep, ShutdownStep

LEMMA InvInit == Init => IInv
<1> SUFFICES ASSUME Init PROVE IInv
  OBVIOUS
<1>1. TypeOK
  BY TypeInit
<1>2. ClientInv
  BY DEF Init, ClientInv, InFlight
<1>3. ASSUME NEW f \in Fetches PROVE FetchInv(f)
  <2>1. LifeInv(f)
    BY DEF Init, LifeInv, InFlight
  <2>2. Table(f) = [max |-> 0, peers |-> <<>>] /\ delivered[f] = 0 /\ Len(sent[f]) = 0
    BY DEF Init, Table
  <2>3. promise[f] = "unset"
    BY DEF Init
  <2> QED
    BY <2>1, <2>2, <2>3, EmptyTable DEF FetchInv, TableInv
<1> QED
  BY <1>1, <1>2, <1>3 DEF IInv

LEMMA InvInductive == IInv /\ [Next]_vars => IInv'
<1> SUFFICES ASSUME IInv, [Next]_vars PROVE IInv'
  OBVIOUS
<1>1. TypeOK'
  BY TypeInductive DEF IInv
<1>2. ClientInv'
  BY ClientStep DEF IInv
<1>3. ASSUME NEW f \in Fetches PROVE FetchInv(f)'
  <2>1. ASSUME NEW g \in Fetches, FetchStep(g) PROVE FetchInv(f)'
    <3>1. CASE g = f
      BY <1>1, <2>1, <3>1, OwnStep DEF IInv
    <3>2. CASE g # f
      BY <2>1, <3>2, OthersUntouched, UntouchedKeeps DEF IInv
    <3> QED
      BY <3>1, <3>2
  <2>2. CASE CqThreadExits \/ ShutdownStep \/ UNCHANGED vars
    <3>1. Untouched(f)
      BY <2>2 DEF CqThreadExits, ShutdownStep, ShutdownBegin, ResetChannel, ShutCq, JoinCqThread,
                  Untouched, vars, callVars, wireVars
    <3> QED
      BY <3>1, UntouchedKeeps DEF IInv
  <2> QED
    BY <2>1, <2>2 DEF Next, FetchStep, ShutdownStep
<1> QED
  BY <1>1, <1>2, <1>3 DEF IInv

LEMMA Invariance == Spec => []IInv
BY InvInit, InvInductive, PTL DEF Spec

-----------------------------------------------------------------------------
(* The safety properties, for every value of the constants.                  *)

(***************************************************************************)
(* A call object talks to the coordinator its fetch was told to ask,       *)
(* although fetches for other coordinators and shutdown() may replace the  *)
(* cached stub at any moment.                                              *)
(***************************************************************************)
THEOREM FetchesReachTheirTargets == Spec => []FetchReachesItsTarget
<1>1. IInv => FetchReachesItsTarget
  BY DEF IInv, FetchInv, LifeInv, FetchReachesItsTarget, InFlight
<1> QED
  BY <1>1, Invariance, PTL

(***************************************************************************)
(* A fetch yields a value only when the stream ended with OK, and the      *)
(* value then holds the peers of every chunk in order and the first        *)
(* positive number of shards: no table is installed in part.               *)
(***************************************************************************)
THEOREM RepliesAreWholeTables == Spec => []ReplyIsWholeTable
<1>1. IInv => ReplyIsWholeTable
  BY DEF IInv, FetchInv, TableInv, Table, ReplyIsWholeTable
<1> QED
  BY <1>1, Invariance, PTL

-----------------------------------------------------------------------------
(* Refinement, whatever the fetching threads do while shutdown() runs.       *)

\* A fetch that is started while shutdown() runs is accepted only while another one is
\* in flight, and so before shutdown() returns.
LEMMA StepSimulates == IInv /\ [Next]_vars => [Contract!Next]_<<phase, door>>
<1> SUFFICES ASSUME IInv, [Next]_vars PROVE [Contract!Next]_<<phase, door>>
  OBVIOUS
<1> USE DEF IInv, TypeOK, clientVars, callVars, wireVars
<1>1. ASSUME NEW f \in Fetches, RejectFetch(f) PROVE Contract!Reject(f)
  <2>1. phase[f] = "new" /\ door # "open" /\ door' = door
    BY <1>1 DEF RejectFetch, FetchInv, LifeInv, phase, door
  <2>2. phase' = [phase EXCEPT ![f] = "error"]
    BY <1>1 DEF RejectFetch, phase
  <2> QED
    BY <2>1, <2>2 DEF Contract!Reject
<1>2. ASSUME NEW f \in Fetches, BeginFetch(f) PROVE Contract!Enter(f)
  <2>1. phase[f] = "new" /\ door = "open" /\ door' = door
    BY <1>2 DEF BeginFetch, FetchInv, LifeInv, phase, door
  <2>2. phase' = [phase EXCEPT ![f] = "entered"]
    BY <1>2 DEF BeginFetch, FetchInv, LifeInv, phase
  <2> QED
    BY <2>1, <2>2 DEF Contract!Enter
<1>3. ASSUME NEW f \in Fetches, EnsureStub(f) PROVE UNCHANGED <<phase, door>>
  <2>1. UNCHANGED <<promise, shutdown, shutPc>>
    BY <1>3 DEF EnsureStub
  <2>2. \A g \in Fetches : /\ pc'[g] = "idle" <=> pc[g] = "idle"
                           /\ pc'[g] = "returned" <=> pc[g] = "returned"
    BY <1>3 DEF EnsureStub
  <2> QED
    BY <2>1, <2>2 DEF phase, door
<1>10. ASSUME NEW f \in Fetches, StartFetch(f) PROVE Contract!Accept(f)
  <2>1. promise[f] = "unset" /\ pc' = [pc EXCEPT ![f] = "returned"] /\ promise' = promise
    BY <1>10 DEF StartFetch, FetchInv, LifeInv
  <2>2. phase[f] = "entered"
    BY <1>10, <2>1 DEF StartFetch, phase
  <2>4. phase' = [phase EXCEPT ![f] = "pending"]
    BY <2>1 DEF phase
  <2>3. door # "closed" /\ door' = door
    BY <1>10 DEF StartFetch, QueueMayAccept, ClientInv, door
  <2> QED
    BY <2>2, <2>3, <2>4 DEF Contract!Accept
<1>11. ASSUME NEW f \in Fetches, StartAborts(f) \/ ProceedAborts(f)
       PROVE  UNCHANGED <<phase, door>>
  BY <1>11 DEF StartAborts, ProceedAborts, Abort, phase, door
<1>4. ASSUME NEW f \in Fetches,
             CoordinatorSend(f) \/ CoordinatorEnd(f) \/ DeadlineExpires(f) \/ ProceedStarted(f)
             \/ ProceedChunk(f) \/ ProceedEndOfStream(f)
      PROVE  UNCHANGED <<phase, door>>
  <2>1. UNCHANGED <<promise, pc, shutdown, shutPc>>
    BY <1>4 DEF CoordinatorSend, CoordinatorEnd, DeadlineExpires, ProceedStarted, ProceedChunk,
                ProceedEndOfStream
  <2> QED
    BY <2>1 DEF phase, door
<1>5. ASSUME NEW f \in Fetches, ProceedFinished(f) PROVE Contract!Resolve(f)
  <2>1. phase[f] = "pending"
    BY <1>5 DEF ProceedFinished, Proceeding, FetchInv, LifeInv, InFlight, phase
  <2>2. door # "closed" /\ door' = door
    BY <1>5 DEF ProceedFinished, Proceeding, ClientInv, door
  <2>3. PICK outcome \in {"value", "error"} : promise' = [promise EXCEPT ![f] = outcome]
    BY <1>5 DEF ProceedFinished
  <2>4. phase' = [phase EXCEPT ![f] = outcome]
    BY <1>5, <2>3 DEF ProceedFinished, phase
  <2> QED
    BY <2>1, <2>2, <2>4 DEF Contract!Resolve
<1>6. CASE CqThreadExits \/ ResetChannel \/ ShutCq
  BY <1>6 DEF CqThreadExits, ResetChannel, ShutCq, phase, door
<1>7. CASE ShutdownBegin
  <2>1. phase' = phase /\ door = "open" /\ door' = "closing"
    BY <1>7 DEF ShutdownBegin, ClientInv, phase, door
  <2> QED
    BY <2>1 DEF Contract!Next, Contract!Close
<1>8. CASE JoinCqThread
  <2>1. phase' = phase /\ door = "closing" /\ door' = "closed"
    BY <1>8 DEF JoinCqThread, ClientInv, phase, door
  <2>2. \A f \in Fetches : phase[f] # "pending"
    BY <1>8 DEF JoinCqThread, ClientInv, FetchInv, LifeInv, phase
  <2> QED
    BY <2>1, <2>2 DEF Contract!Next, Contract!Closed
<1>9. CASE UNCHANGED vars
  BY <1>9 DEF vars, phase, door
<1> QED
  BY <1>1, <1>2, <1>3, <1>4, <1>5, <1>6, <1>7, <1>8, <1>9, <1>10, <1>11
     DEF Next, ProvideGlobalRoutingInfo, Proceed, Contract!Next

(***************************************************************************)
(* Refinement: the coordinator client implements RpcContract, for any      *)
(* interleaving of fetching threads with the steps of shutdown() -- a      *)
(* fetch is rejected or enters, and an accepted one is resolved once and   *)
(* before shutdown() returns.                                              *)
(***************************************************************************)
THEOREM ClientImplementsContract == Spec => ImplementsContract
<1>1. Init => Contract!Init
  BY DEF Init, Contract!Init, phase, door
<1> QED
  BY <1>1, StepSimulates, Invariance, PTL
     DEF Spec, ImplementsContract, Contract!Spec, Contract!vars

=============================================================================

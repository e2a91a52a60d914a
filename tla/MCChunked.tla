----------------------------- MODULE MCChunked -----------------------------
(* Writes of up to four elements of sizes 1 to 9, with four units to an RPC. *)
EXTENDS ChunkedWrites

\* a is small; b and c are compressible, b below and c above the client's threshold;
\* D alone exceeds an RPC, compressed or not.
Elements  == {"a", "b", "c", "D", "x", "p", "q"}
MCRaw     == [v \in Elements |-> CASE v = "D" -> 9 [] v = "c" -> 3 [] v = "b" -> 2 [] OTHER -> 1]
MCPacked  == [v \in Elements |-> IF v = "D" THEN 9 ELSE 1]

Write(kind, data, values, pos, pivot, on) ==
    [kind |-> kind, data |-> data, values |-> values, pos |-> pos, pivot |-> pivot, list |-> on]

\* Every order of up to four different elements.
Distinct == {s \in SeqOf({"a", "b", "c", "D"}, 4) : \A i, j \in DOMAIN s : s[i] = s[j] => i = j}

Existing == <<"p", "x", "q">>

\* A write next to x, next to an element that is not there, or with a null pivot.
AddWrites(data) ==
    {Write(k, data, <<>>, 0, NoValue, Existing) : k \in {"tail", "unordered", "head", "weighted"}}
    \cup {Write("position", data, <<>>, p, NoValue, Existing) : p \in {1, 3}}
    \cup {Write(k, data, <<>>, 0, p, Existing) : k \in {"before", "after"}, p \in {"x", NoValue}}
    \cup {Write(k, data, <<>>, 0, NoValue, <<>>) : k \in {"create", "createOrdered"}}

\* Maps of all keys, or with fewer values than keys; a created map has them all.
MapWrites(data) ==
    {Write(k, data, SubSeq(data, 1, n), 0, NoValue, <<>>) :
        k \in {"map", "orderedMap"}, n \in 0 .. Len(data)}
    \cup {Write(k, data, Reverse(data), 0, NoValue, <<>>) : k \in {"createMap", "createOrderedMap"}}

PlainWrites ==
    {Write(k, <<>>, <<>>, 0, NoValue, Existing) : k \in {"stream", "takeHead", "takeTail"}}
    \cup {Write("replace", <<"a">>, <<>>, 0, p, Existing) : p \in {"x", "a"}}

AllWrites == PlainWrites \cup UNION {AddWrites(d) \cup MapWrites(d) : d \in Distinct}
Removals  == {Write("remove", d, <<>>, 0, NoValue, Existing) : d \in {<<"p">>, <<"x", "q">>}}
=============================================================================

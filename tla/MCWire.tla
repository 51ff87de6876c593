------------------------------- MODULE MCWire -------------------------------
(* Instances of Wire for TLC: names are single letters, keys a few words. *)
EXTENDS Wire

a == 97
b == 98
n == <<110>>
s == <<115>>

MCXMatch == <<120, 45, 109, 97, 116, 99, 104>>
MCAnyMode == <<97, 110, 121>>

E(name, kind, value) == [key |-> name, value |-> [k |-> kind, v |-> value]]
R(queue, key, args) == [queue |-> <<queue>>, exchange |-> <<120>>, key |-> key, args |-> args]

MCRequests ==
  {R(a, <<a, Dot, Hash>>, <<E(MCXMatch, "string", MCAnyMode), E(n, "int16", -2)>>),
   R(a, <<Hash, Dot, b>>, <<E(n, "int16", -2), E(s, "string", <<a, b>>)>>),
   R(b, <<Star, Dot, b>>, <<E(n, "uint8", 200), E(s, "bool", 1)>>),
   R(b, <<a, Dot, b>>, <<E(n, "float64", 4), E(s, "table", <<E(n, "int64", -70000)>>)>>),
   R(b, <<a, Dot, Hash, Dot, Star>>, <<E(n, "uint32", 70000), E(s, "time", -1)>>),
   R(a, <<Hash>>, <<E(n, "int8", -128), E(s, "bytes", <<>>), E(<<>>, "int32", -1)>>),
   R(b, <<>>, <<>>)}

MCMessages ==
  [key : {<<>>, <<a>>, <<a, Dot, b>>, <<b, Dot, a, Dot, b>>},
   headers : {[k \in {} |-> 0],
              [k \in {n} |-> [k |-> "int16", v |-> -2]],
              [k \in {n} |-> [k |-> "int16", v |-> 2]],
              [k \in {n, s} |-> IF k = n THEN [k |-> "int16", v |-> -2]
                                ELSE [k |-> "string", v |-> <<a, b>>]],
              [k \in {n, s} |-> IF k = n THEN [k |-> "uint8", v |-> 200]
                                ELSE [k |-> "bool", v |-> 0]]}]

F(type, channel, payload) == [type |-> type, channel |-> channel, payload |-> payload]
Heartbeat == F(8, 0, <<>>)
Bind(channel, r) == F(1, channel, <<0, 50, 0, 20>> \o EncodeBind(r))
Small == R(b, <<>>, <<>>)
Large == R(a, <<Hash>>, <<E(n, "bytes", [i \in 1 .. 20 |-> i])>>)
Huge == R(a, <<Hash>>, <<E(n, "bytes", [i \in 1 .. 70 |-> i])>>)

\* No client; ignored frames around a binding; a body frame; an unknown method; frames
\* larger than the buffer and than the limit.
MCScripts ==
  {<<>>,
   <<Heartbeat, Bind(2, Small), Bind(1, Small), Heartbeat>>,
   <<Bind(2, Large), F(3, 1, <<1, 2>>)>>,
   <<Heartbeat, F(1, 1, <<0, 50, 0, 99>>)>>,
   <<Bind(2, Small), Bind(2, Large), Heartbeat>>,
   <<Bind(1, Large), Heartbeat>>,
   <<F(3, 1, [i \in 1 .. 60 |-> i])>>,
   <<Bind(1, Huge)>>}

\* The smallest client: one Queue.Bind.
MCOneBind == {<<Bind(1, Small)>>}
MCNone == {}

\* The arguments {n: 1.5} and no client.
MCFraction == {R(b, <<a>>, <<E(n, "float64", 3)>>)}
MCNoClient == {<<>>}
=============================================================================

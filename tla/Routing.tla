------------------------------ MODULE Routing ------------------------------
(***************************************************************************)
(* The routers of the four exchange types (internal/server/                *)
(* exchange_direct.go, exchange_fanout.go, exchange_topic.go and           *)
(* exchange_headers.go), and what their comments say they match.           *)
(*                                                                         *)
(* A binding is a record of its queue, its key (bytes) and its arguments,  *)
(* a function from names to values as module Codec decodes them; so are a  *)
(* message's headers.                                                      *)
(***************************************************************************)
EXTENDS Integers, Sequences, FiniteSets, SequencesExt

CONSTANTS Dot, Star, Hash,   \* the bytes ".", "*" and "#"
          XMatch, AnyMode    \* the strings "x-match" and "any"

ASSUME DotAssumption == Hash # Dot

----------------------------------------------------------------------------
(* TopicExchange                                                           *)

\* strings.Split at the dots: the empty string is one empty word.  End(n) is where the
\* n-th word ends, at a dot or behind the string.
Split(s) ==
  LET ends == {i \in DOMAIN s : s[i] = Dot} \cup {Len(s) + 1}
      End(n) == IF n = 0 THEN 0 ELSE CHOOSE e \in ends : Cardinality({d \in ends : d <= e}) = n
  IN [n \in 1 .. Cardinality(ends) |-> SubSeq(s, End(n - 1) + 1, End(n) - 1)]

\* Mutant of matchParts: a # stands for at least one word.
matchParts_OneOrMore(msg, pat) ==
  LET from[n \in 0 .. Len(pat)] ==
        IF n = 0 THEN {Len(msg)}
        ELSE LET word == pat[Len(pat) - n + 1] IN
             {i \in 0 .. Len(msg) :
                IF word = <<Hash>> THEN n = 1 \/ \E j \in i + 1 .. Len(msg) : j \in from[n - 1]
                ELSE /\ i < Len(msg) /\ (word = <<Star>> \/ word = msg[i + 1])
                     /\ i + 1 \in from[n - 1]}
  IN 0 \in from[Len(pat)]

\* A # tries every split, any other word consumes one of the message's; from[n] is where
\* the message may be when the last n words of the pattern are left, for it to match.
matchParts(msg, pat) ==
  LET from[n \in 0 .. Len(pat)] ==
        IF n = 0 THEN {Len(msg)}
        ELSE LET word == pat[Len(pat) - n + 1] IN
             {i \in 0 .. Len(msg) :
                IF word = <<Hash>> THEN n = 1 \/ \E j \in i .. Len(msg) : j \in from[n - 1]
                ELSE /\ i < Len(msg) /\ (word = <<Star>> \/ word = msg[i + 1])
                     /\ i + 1 \in from[n - 1]}
  IN 0 \in from[Len(pat)]

matchTopicPattern(key, pattern) == pattern = <<Hash>> \/ matchParts(Split(key), Split(pattern))

----------------------------------------------------------------------------
(* HeadersExchange                                                         *)

SignedKinds == {"int8", "int16", "int32", "int64"}
UnsignedKinds == {"uint8", "uint16", "uint32", "uint64"}
FloatKinds == {"float32", "float64"}

\* toInt64 and toUint64: a value of another kind is 0.
toInt64(b) == IF b.k \in SignedKinds THEN b.v ELSE 0
toUint64(b) == IF b.k \in UnsignedKinds THEN b.v ELSE 0

\* toFloat64, in halves.
toFloat64(b) == IF b.k \in FloatKinds THEN b.v
                ELSE IF b.k \in SignedKinds \cup UnsignedKinds THEN 2 * b.v ELSE 0

valuesEqual(a, b) ==
  \/ a.k \in {"string", "bool"} /\ a.k = b.k /\ a.v = b.v
  \/ a.k \in SignedKinds /\ a.v = toInt64(b)
  \/ a.k \in UnsignedKinds /\ a.v = toUint64(b)
  \/ a.k \in FloatKinds /\ a.v = toFloat64(b)

HasEqual(headers, args, k) == k \in DOMAIN headers /\ valuesEqual(headers[k], args[k])

\* Without arguments nothing matches; any other mode than "any" is "all".
matchHeaders(headers, args) ==
  /\ DOMAIN args # {}
  /\ IF XMatch \in DOMAIN args /\ args[XMatch] = [k |-> "string", v |-> AnyMode]
     THEN \E k \in DOMAIN args \ {XMatch} : HasEqual(headers, args, k)
     ELSE \A k \in DOMAIN args \ {XMatch} : HasEqual(headers, args, k)

----------------------------------------------------------------------------
(* Router.Route: the queues of the bindings that match, each once          *)

MatchDirect(m, b) == b.key = m.key
MatchFanout(m, b) == TRUE

Matches(type, m, b) ==
  CASE type = "direct" -> MatchDirect(m, b)
    [] type = "fanout" -> MatchFanout(m, b)
    [] type = "topic" -> matchTopicPattern(m.key, b.key)
    [] type = "headers" -> matchHeaders(m.headers, b.args)

Route(type, m, bindings) ==
  LET queues[i \in 0 .. Len(bindings)] ==
        IF i = 0 THEN <<>>
        ELSE LET b == bindings[i] IN
             IF Matches(type, m, b) /\ b.queue \notin ToSet(queues[i - 1])
             THEN Append(queues[i - 1], b.queue) ELSE queues[i - 1]
  IN queues[Len(bindings)]

----------------------------------------------------------------------------
(* What the comments say                                                   *)

\* A pattern matches when its words can be laid over the message's: * over exactly
\* one, # over any number, every other word over itself.  ends[i] is where the i-th
\* word of the pattern ends.
TopicReference(msg, pat) ==
  \E ends \in [0 .. Len(pat) -> 0 .. Len(msg)] :
    /\ ends[0] = 0 /\ ends[Len(pat)] = Len(msg)
    /\ \A i \in 1 .. Len(pat) :
         \/ pat[i] = <<Hash>> /\ ends[i] >= ends[i - 1]
         \/ ends[i] = ends[i - 1] + 1 /\ (pat[i] = <<Star>> \/ pat[i] = msg[ends[i]])

\* The headers a binding asks for, and those a message has with the same value.
Asked(args) == DOMAIN args \ {XMatch}
Agreeing(headers, args) ==
  {k \in Asked(args) \cap DOMAIN headers : headers[k].k = args[k].k /\ headers[k].v = args[k].v}

\* "all" (the default): every specified header must exist and match exactly; "any": at
\* least one.  The comment does not say what a binding without arguments matches: nothing,
\* as in the code.
HeadersReference(headers, args) ==
  /\ DOMAIN args # {}
  /\ IF XMatch \in DOMAIN args /\ args[XMatch] = [k |-> "string", v |-> AnyMode]
     THEN Agreeing(headers, args) # {}
     ELSE Agreeing(headers, args) = Asked(args)

\* The header and the argument of each name are of the same kind, one of those
\* valuesEqual supports.
Comparable(headers, args) ==
  \A k \in Asked(args) \cap DOMAIN headers :
    /\ headers[k].k = args[k].k
    /\ headers[k].k \in {"string", "bool"} \cup SignedKinds \cup UnsignedKinds \cup FloatKinds

\* Does the binding match the message, by what the comments say?
Reference(type, m, b) ==
  CASE type = "direct" -> b.key = m.key
    [] type = "fanout" -> TRUE
    [] type = "topic" -> TopicReference(Split(m.key), Split(b.key))
    [] type = "headers" -> HeadersReference(m.headers, b.args)
=============================================================================

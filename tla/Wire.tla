-------------------------------- MODULE Wire --------------------------------
(***************************************************************************)
(* From the bytes of a client to the queues of a message: the framer       *)
(* (pkg/protocol/amqp091/framer.go) over a buffered reader, the dispatcher *)
(* (internal/server/dispatcher.go), the decoding half of Queue.Bind        *)
(* (basic_handlers.go) and the routers that use the bindings.              *)
(*                                                                         *)
(* Bytes arrive one at a time, which leaves the reader every way to cut    *)
(* the stream.  A connection either serves a client's stream, or has none  *)
(* and its handlers are called directly, the way the repository's tests    *)
(* and benchmarks drive them.                                              *)
(***************************************************************************)
EXTENDS Codec, Routing

CONSTANTS
  Scripts,     \* what clients send: sequences of frames
  Requests,    \* Queue.Bind requests, with the arguments as entries
  Messages,    \* messages: routing key and headers
  OpenChannel, \* the channels that are open
  MaxSize,     \* largest payload the Framer allows (FrameMaxDefault)
  BufSize,     \* size of the connection's bufio.Reader
  MaxCalls     \* bound: handler calls without a client

\* Strings and tables have the sizes their prefixes can tell.
Size(b, n) == FitsIn(Len(b), n, FALSE)

Channel == 0 .. 65535
Frame == [type : FrameTypes, channel : Channel, payload : Seq(Byte)]

ASSUME ScriptAssumption ==
  \A script \in Scripts :
    /\ script \in Seq(Frame)
    /\ \A i \in DOMAIN script : Size(script[i].payload, 4)

ASSUME RequestAssumption ==
  \A r \in Requests :
    /\ r \in [queue : Seq(Byte), exchange : Seq(Byte), key : Seq(Byte), args : Table[MaxDepth]]
    /\ Size(r.queue, 1) /\ Size(r.exchange, 1) /\ Size(r.key, 1)
    /\ Size(tableBytes[MaxDepth][r.args], 4)

ASSUME MessageAssumption == \A m \in Messages : m.key \in Seq(Byte)

ASSUME LimitAssumption == MaxSize \in Nat /\ BufSize \in Nat

VARIABLES
  sent,      \* the frames the client encodes
  stream,    \* their bytes
  arrived,   \* number of bytes that arrived
  hungUp,    \* has the client closed its side?
  taken,     \* number of bytes the Framer discarded
  frames,    \* the frames it returned
  hand,      \* the frame being handled, in a sequence of at most one
  conn,      \* "open", or why the frame loop ended: "refused", "failed", "eof"
  bindings,  \* the bindings of the exchange
  asked,     \* history: the requests of the direct calls
  routed     \* history: the last publish, in a sequence of at most one

wire == <<sent, stream, arrived, hungUp>>
vars == <<wire, taken, frames, hand, conn, bindings, asked, routed>>

Init ==
  /\ sent \in Scripts
  /\ stream = FlattenSeq([i \in DOMAIN sent |->
                            EncodeFrame(sent[i].type, sent[i].channel, sent[i].payload)])
  /\ arrived = 0 /\ hungUp = FALSE
  /\ taken = 0 /\ frames = <<>> /\ hand = <<>> /\ conn = "open"
  /\ bindings = <<>> /\ asked = <<>> /\ routed = <<>>

----------------------------------------------------------------------------
(* The client and the network                                              *)

Arrive ==
  /\ ~hungUp /\ arrived < Len(stream)
  /\ arrived' = arrived + 1
  /\ UNCHANGED <<sent, stream, hungUp, taken, frames, hand, conn, bindings, asked, routed>>

HangUp ==
  /\ ~hungUp /\ sent # <<>>
  /\ hungUp' = TRUE
  /\ UNCHANGED <<sent, stream, arrived, taken, frames, hand, conn, bindings, asked, routed>>

----------------------------------------------------------------------------
(* Framer.NextFrame                                                        *)

Reading == conn = "open" /\ hand = <<>> /\ sent # <<>>

\* reader.Peek: the next n bytes are there.
Peek(n) == arrived - taken >= n

PayloadLength == Number(SubSeq(stream, taken + 4, taken + 7), FALSE)
Total == 7 + PayloadLength + 1

isValidFrameType(t) == t \in FrameTypes

\* The header passes the checks made before the payload is peeked.
HeaderAllowed == isValidFrameType(stream[taken + 1]) /\ PayloadLength <= MaxSize

\* Mutant of NextFrame: the trailer is not discarded.
NextFrame_KeepTrailer ==
  /\ Reading /\ Peek(7) /\ HeaderAllowed
  /\ Total <= BufSize /\ Peek(Total)
  /\ taken' = taken + Total - 1
  /\ hand' = <<[type |-> stream[taken + 1],
                channel |-> Number(SubSeq(stream, taken + 2, taken + 3), FALSE),
                payload |-> SubSeq(stream, taken + 8, taken + 7 + PayloadLength)]>>
  /\ frames' = frames \o hand'
  /\ UNCHANGED <<wire, conn, bindings, asked, routed>>

\* A whole frame is in the buffer and ends with FrameEnd.
NextFrame ==
  /\ Reading /\ Peek(7) /\ HeaderAllowed
  /\ Total <= BufSize /\ Peek(Total)
  /\ stream[taken + Total] = FrameEnd
  /\ taken' = taken + Total
  /\ hand' = <<[type |-> stream[taken + 1],
                channel |-> Number(SubSeq(stream, taken + 2, taken + 3), FALSE),
                payload |-> SubSeq(stream, taken + 8, taken + 7 + PayloadLength)]>>
  /\ frames' = frames \o hand'
  /\ UNCHANGED <<wire, conn, bindings, asked, routed>>

\* The header or the end octet is wrong, or the frame is larger than the buffer:
\* Peek then fails once the buffer is full or nothing more comes.
FrameRefused ==
  /\ Reading /\ Peek(7)
  /\ \/ ~HeaderAllowed
     \/ Total > BufSize /\ (Peek(BufSize) \/ hungUp)
     \/ Total <= BufSize /\ Peek(Total) /\ stream[taken + Total] # FrameEnd
  /\ conn' = "refused"
  /\ UNCHANGED <<wire, taken, frames, hand, bindings, asked, routed>>

\* The stream ends before the frame does.
EndOfStream ==
  /\ Reading /\ hungUp
  /\ IF Peek(7) THEN HeaderAllowed /\ Total <= BufSize /\ ~Peek(Total) ELSE TRUE
  /\ conn' = "eof"
  /\ UNCHANGED <<wire, taken, frames, hand, bindings, asked, routed>>

----------------------------------------------------------------------------
(* Dispatch and Queue.Bind                                                 *)

\* The reads of handleQueueBind; the reserved short is skipped whatever it is.
Arguments(queue, exchange, key, bits, args) ==
  IF ~queue.ok \/ ~exchange.ok \/ ~key.ok \/ ~bits.ok \/ ~args.ok THEN Bad
  ELSE Read([queue |-> queue.v, exchange |-> exchange.v, key |-> key.v, args |-> args.v],
            args.rest)

DecodeBind(payload) ==
  LET queue == ReadShortString[Drop(payload, 2)]
      exchange == ReadShortString[queue.rest]
      key == ReadShortString[exchange.rest]
      bits == ReadUint(key.rest, 1)
  IN Arguments(queue, exchange, key, bits, ReadTable(bits.rest))

\* The handler binds, or returns an error that ends the frame loop.
handleQueueBind(payload) ==
  LET b == DecodeBind(payload) IN
  IF b.ok THEN bindings' = Append(bindings, b.v) /\ UNCHANGED conn
  ELSE conn' = "failed" /\ UNCHANGED bindings

\* The methods of the scripts that RegisterBasicHandlers registers.
Registered == {<<50, 20>>}

\* The class and the method of a payload are those of a registered handler.
Lookup(payload) ==
  Len(payload) >= 4 /\ <<Number(SubSeq(payload, 1, 2), FALSE),
                         Number(SubSeq(payload, 3, 4), FALSE)>> \in Registered

\* Frames of channel 0 (none of the scripts closes the connection) and of channels
\* that are not open change nothing.
Ignored(f) == f.channel \notin OpenChannel

\* Dispatch hands the handler the whole payload, the class and the method included.
Dispatch ==
  /\ hand # <<>> /\ conn = "open"
  /\ LET f == hand[1]
         known == f.type = 1 /\ Lookup(f.payload)
     IN \/ Ignored(f) /\ UNCHANGED <<conn, bindings>>
        \/ ~Ignored(f) /\ known /\ handleQueueBind(f.payload)
        \/ ~Ignored(f) /\ ~known /\ conn' = "failed" /\ UNCHANGED bindings
  /\ hand' = <<>>
  /\ UNCHANGED <<wire, taken, frames, asked, routed>>

\* The arguments of Queue.Bind, as the repository's tests encode them.
EncodeBind(r) ==
  BigEndian(0, 2) \o WriteShortString(r.queue) \o WriteShortString(r.exchange)
    \o WriteShortString(r.key) \o <<0>> \o WriteTable(r.args)

\* A handler called with a method's arguments, without a client.
Call(r) ==
  /\ sent = <<>> /\ conn = "open" /\ Len(asked) < MaxCalls
  /\ asked' = Append(asked, r)
  /\ handleQueueBind(EncodeBind(r))
  /\ UNCHANGED <<wire, taken, frames, hand, routed>>

\* Publisher.Publish: the router of the exchange's type and its bindings.
Publish(type, m) ==
  /\ sent = <<>>
  /\ routed' = <<[type |-> type, m |-> m, queues |-> Route(type, m, bindings),
                  by |-> bindings]>>
  /\ UNCHANGED <<wire, taken, frames, hand, conn, bindings, asked>>

----------------------------------------------------------------------------
Serve == NextFrame \/ FrameRefused \/ EndOfStream \/ Dispatch

Next ==
  \/ Arrive \/ HangUp \/ Serve
  \/ \E r \in Requests : Call(r)
  \/ \E type \in {"direct", "fanout", "topic", "headers"}, m \in Messages : Publish(type, m)

\* The goroutine of the connection runs.
Fairness == WF_vars(Serve)

Spec == Init /\ [][Next]_vars /\ Fairness

----------------------------------------------------------------------------
(* Properties                                                              *)

\* The frame is within both limits.
Fits(f) == Len(f.payload) <= MaxSize /\ Len(f.payload) + 8 <= BufSize

\* Once a client's bytes have arrived, in whatever pieces, NextFrame returns the frames
\* that were encoded, in order, unless a handler fails or the client is gone: no frame
\* is cut, merged or refused (framer.go: "It blocks until at least one full frame is
\* available").
FramesRead ==
  (arrived = Len(stream) /\ \A i \in DOMAIN sent : Fits(sent[i]))
    ~> (frames = sent \/ conn \in {"failed", "eof"})

\* The binding a request asks for.
AsAsked(r) == [queue |-> r.queue, exchange |-> r.exchange, key |-> r.key, args |-> AsMap(r.args)]

\* Handlers called with arguments encoded by WriteShortString and WriteTable bind what
\* was asked for: numbers with their sign and width, strings, nested tables, and every
\* entry of the table, unless a float in it has a fraction.
CallsBindAsAsked ==
  /\ Len(bindings) = Len(asked) \/ sent # <<>>
  /\ \A i \in DOMAIN asked :
       asked[i].args \in WholeFloats[MaxDepth] => bindings[i] = AsAsked(asked[i])

\* The same of every request ("writeFloat64 encodes an IEEE-754 double in big-endian.").
\* Does not hold: the encoder converts a float to an integer.
FloatsBindAsAsked == \A i \in DOMAIN asked : bindings[i] = AsAsked(asked[i])

\* A publish goes to the queues of the bindings that match by what the routers'
\* comments say, each once; for headers when the values are of kinds valuesEqual can
\* compare.
RoutedAsDefined ==
  \A i \in DOMAIN routed :
    LET p == routed[i] IN
    (p.type = "headers" => \A j \in DOMAIN p.by : Comparable(p.m.headers, p.by[j].args)) =>
      /\ ToSet(p.queues) = {b.queue : b \in {x \in ToSet(p.by) : Reference(p.type, p.m, x)}}
      /\ Len(p.queues) = Cardinality(ToSet(p.queues))

\* A frame's arguments, which follow the class and the method.
ArgumentsOf(f) == DecodeBind(Drop(f.payload, 4))

\* Each Queue.Bind frame a client sends on an open channel makes the binding it asks
\* for ("handleQueueBind decodes Queue.Bind and creates a binding.").
BindsAsSent ==
  sent # <<>> /\ hand = <<>> =>
    LET binds == SelectSeq(frames, LAMBDA f : f.type = 1 /\ ~Ignored(f)) IN
    bindings = [i \in DOMAIN binds |-> ArgumentsOf(binds[i]).v]
=============================================================================

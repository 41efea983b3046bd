------------------------------ MODULE Transfer ------------------------------
(***************************************************************************)
(* net/http2/http2.c: the way out of a request.  A perform hands nghttp2   *)
(* HEADERS and a data provider; nghttp2_session_send packs one frame at a  *)
(* time and gives it to http2_tls_send_, which writes it to esp_tls in     *)
(* chunks.  The performs are those of one session, one after the other; a  *)
(* call that is given up can leave its frames behind.                      *)
(***************************************************************************)
EXTENDS Naturals, Sequences, SequencesExt

CONSTANTS
    MaxCalls,       \* performs on the session
    MaxPayload,     \* bytes in the longest payload
    HeaderLengths,  \* possible lengths of a HEADERS frame
    FrameLimit,     \* bytes of payload that fit a DATA frame (16384)
    ChunkLength,    \* HTTP2_WRITE_CHUNK_LEN
    MaxWire         \* bound on what is written in a behaviour

ASSUME BoundsAssumption ==
    /\ {MaxCalls, MaxPayload, FrameLimit, ChunkLength, MaxWire} \subseteq Nat \ {0}
    /\ HeaderLengths \subseteq Nat \ {0}

VARIABLES
    pc,         \* "open", "send" (in nghttp2_session_send), "recv" or "dead"
    call,       \* number of the latest call; its stream carries this number
    size,       \* [calls -> Nat] payload_length, the content-length of each call
    cursor,     \* session->payload_cursor
    outbox,     \* frames nghttp2 has yet to pack
    frame,      \* the frame it is sending, <<>> if none
    sent,       \* http2_tls_send_'s cursor into it
    record,     \* what esp_tls keeps of a write it could not finish
    wire,       \* what has been written to the connection
    packed,     \* (history) all frames packed so far, one after the other
    body,       \* (history) [calls -> payload bytes] in the DATA of each stream
    abandoned,  \* (history) calls that returned with their DATA unpacked
    long        \* (history) some frame was longer than a chunk

callVars == <<call, size, cursor>>
outVars  == <<frame, sent, record, wire>>
history  == <<packed, body, abandoned, long>>
vars == <<pc, callVars, outbox, outVars, history>>

CallIds == 1 .. MaxCalls

\* A byte is named by its stream, the call whose payload it is from (0 for a
\* header) and its place.
Bytes(stream, of, from, to) == [i \in 1 .. to - from |-> <<stream, of, from + i>>]

Min2(a, b) == IF a <= b THEN a ELSE b

Init ==
    /\ pc = "open" /\ call = 0 /\ size = [c \in CallIds |-> 0] /\ cursor = 0
    /\ outbox = <<>> /\ frame = <<>> /\ sent = 0 /\ record = <<>> /\ wire = <<>>
    /\ packed = <<>> /\ body = [c \in CallIds |-> <<>>] /\ abandoned = {} /\ long = FALSE

-----------------------------------------------------------------------------
(* http2_session_perform_internal_                                         *)

\* Variant: payload_cursor is left where the last call ended.
SubmitKeepsCursor ==
    /\ pc = "open" /\ pc' = "send"
    /\ call < MaxCalls
    /\ call' = call + 1
    /\ \E n \in 1 .. MaxPayload, h \in HeaderLengths :
          /\ size' = [size EXCEPT ![call'] = n]
          /\ outbox' = outbox \o <<[stream |-> call', head |-> h], [stream |-> call', head |-> 0]>>
    /\ UNCHANGED <<cursor, outVars, history>>

\* The session's payload is the new call's; HEADERS and DATA are queued.
Submit ==
    /\ pc = "open" /\ pc' = "send"
    /\ call < MaxCalls
    /\ call' = call + 1
    /\ \E n \in 1 .. MaxPayload, h \in HeaderLengths :
          /\ size' = [size EXCEPT ![call'] = n]
          /\ outbox' = outbox \o <<[stream |-> call', head |-> h], [stream |-> call', head |-> 0]>>
    /\ cursor' = 0
    /\ UNCHANGED <<outVars, history>>

\* Everything is packed and written: nghttp2_session_send returns.
SendReturns ==
    /\ pc = "send" /\ pc' = "recv"
    /\ frame = <<>> /\ outbox = <<>>
    /\ UNCHANGED <<callVars, outbox, outVars, history>>

\* The response is not complete and there is time left.
Again ==
    /\ pc = "recv" /\ pc' = "send"
    /\ UNCHANGED <<callVars, outbox, outVars, history>>

\* The response is complete (a server may answer early) or the time is over.
Return ==
    /\ pc = "recv" /\ pc' = "open"
    /\ abandoned' = abandoned \cup {f.stream : f \in {g \in ToSet(outbox) : g.head = 0}}
    /\ UNCHANGED <<callVars, outbox, outVars, packed, body, long>>

\* A write or a read fails: nothing more is written on this connection.
ConnectionFails ==
    /\ pc \in {"send", "recv"} /\ pc' = "dead"
    /\ UNCHANGED <<callVars, outbox, outVars, history>>

\* The session is destroyed; the next one starts from nothing.
Release ==
    /\ pc \in {"open", "dead"} /\ pc' = "open"
    /\ call' = 0 /\ size' = [c \in CallIds |-> 0] /\ cursor' = 0
    /\ outbox' = <<>> /\ frame' = <<>> /\ sent' = 0 /\ record' = <<>> /\ wire' = <<>>
    /\ packed' = <<>> /\ body' = [c \in CallIds |-> <<>>] /\ abandoned' = {} /\ long' = FALSE

-----------------------------------------------------------------------------
(* nghttp2 and http2_data_provider_                                        *)

Pack(bytes) ==
    /\ pc = "send"
    /\ frame = <<>>
    /\ frame' = bytes
    /\ packed' = packed \o bytes
    /\ long' = (long \/ Len(bytes) > ChunkLength)
    /\ outbox' = Tail(outbox)
    /\ UNCHANGED <<pc, call, size, sent, record, wire, abandoned>>

PackHeaders ==
    /\ outbox # <<>>
    /\ Head(outbox).head > 0
    /\ Pack(Bytes(Head(outbox).stream, 0, 0, Head(outbox).head))
    /\ UNCHANGED <<cursor, body>>

\* http2_data_provider_: what fits of the session's payload, whatever the stream.
\* EOF is always set, so this is the stream's only DATA frame.  The frame's own
\* header is the byte numbered 0.
PackData ==
    /\ outbox # <<>>
    /\ Head(outbox).head = 0
    /\ LET stream  == Head(outbox).stream
           toWrite == Min2(size[call] - cursor, FrameLimit)
           bytes   == Bytes(stream, call, cursor, cursor + toWrite)
       IN  /\ cursor' = cursor + toWrite
           /\ body' = [body EXCEPT ![stream] = bytes]
           /\ Pack(<<<<stream, 0, 0>>>> \o bytes)

-----------------------------------------------------------------------------
(* http2_tls_send_ and esp_tls                                             *)

\* Every chunk starts at data, not at data + cursor.
Chunk == SubSeq(frame, 1, Min2(Len(frame) - sent, ChunkLength))

Writing == pc = "send" /\ frame # <<>>

\* Variant: a write that would block counts as done.
WouldBlockCounts ==
    /\ Writing
    /\ pc' = "recv"
    /\ frame' = <<>>
    /\ sent' = 0
    /\ UNCHANGED <<callVars, outbox, record, wire, history>>

\* esp_tls holds on to the record; WOULDBLOCK makes nghttp2 offer the same frame
\* again, from its beginning.
WouldBlock ==
    /\ Writing
    /\ pc' = "recv"
    /\ record' = IF record = <<>> THEN Chunk ELSE record
    /\ sent' = 0
    /\ UNCHANGED <<callVars, outbox, frame, wire, history>>

\* Variant: the cursor stays where it is.
WriteForgets ==
    /\ Writing
    /\ Len(wire) < MaxWire
    /\ wire' = wire \o (IF record = <<>> THEN Chunk ELSE record)
    /\ record' = <<>>
    /\ UNCHANGED <<pc, callVars, outbox, frame, sent, history>>

\* A write succeeds for the whole chunk.  A record still held is what goes out,
\* and stands for the chunk; a frame ends when its last chunk is accepted.
Write ==
    /\ Writing
    /\ Len(wire) < MaxWire
    /\ wire' = wire \o (IF record = <<>> THEN Chunk ELSE record)
    /\ record' = <<>>
    /\ IF sent + Len(Chunk) = Len(frame) THEN frame' = <<>> /\ sent' = 0
                                         ELSE sent' = sent + Len(Chunk) /\ UNCHANGED frame
    /\ UNCHANGED <<pc, callVars, outbox, history>>

-----------------------------------------------------------------------------
Loop == SendReturns \/ Again \/ PackHeaders \/ PackData \/ WouldBlock \/ Write

Next == Submit \/ Return \/ ConnectionFails \/ Release \/ Loop

Spec == Init /\ [][Next]_vars

\* http2_task_ keeps running the loop, and a socket that is written to again and
\* again has room in the end.
FairSpec == Spec /\ WF_vars(Loop) /\ SF_vars(Write)

-----------------------------------------------------------------------------
(* What must hold                                                          *)

\* As long as every frame fits one chunk, the connection carries exactly the
\* frames nghttp2 has packed, each byte once and in order, however often a write
\* would block and is repeated, and whatever earlier calls left behind.  (The
\* second chunk of a longer frame repeats its first bytes.)
WireIsExact ==
    ~long =>
        /\ packed = wire \o frame
        /\ record \in {<<>>, frame}

\* The DATA of a stream is its own call's payload, cut where a frame ends, unless
\* that call or one before it was given up with its DATA unsent; and no byte of a
\* payload is sent in two streams.
BodyIsOwn ==
    /\ \A c \in CallIds :
          body[c] # <<>> =>
              \/ body[c] = Bytes(c, c, 0, Min2(size[c], FrameLimit))
              \/ \E b \in abandoned : b <= c
    /\ \A c, d \in CallIds :
          c # d => \A i \in DOMAIN body[c], j \in DOMAIN body[d] :
                       <<body[c][i][2], body[c][i][3]>> # <<body[d][j][2], body[d][j][3]>>

\* A request whose frames fit a chunk leaves, unless its call ends before: being
\* refused again and again does not keep it.
RequestLeaves ==
    pc = "send" ~> pc \in {"open", "dead"} \/ long \/ (outbox = <<>> /\ frame = <<>>)
=============================================================================

---------------------------- MODULE Http2Perform ----------------------------
(***************************************************************************)
(* net/http2/http2.c: the inside of a perform call, which module Http2     *)
(* treats as one step.  http2_session_perform_internal_ submits a request  *)
(* and alternates nghttp2_session_send and nghttp2_session_recv until a    *)
(* stream closes or five seconds have passed.  The nghttp2 callbacks store *)
(* what arrives in the session, whatever stream it arrives on.             *)
(*                                                                         *)
(* A session serves either gRPC calls (api.c: one perform and release) or  *)
(* plain HTTP calls (auth.c: a registration performs again and again).     *)
(***************************************************************************)
EXTENDS Naturals, Sequences, SequencesExt

CONSTANTS
    MaxCalls,       \* calls made in a behaviour, over all sessions
    MaxPerSession,  \* performs on one HTTP session
    MaxChunks,      \* DATA chunks in the longest response body
    DestLength      \* chunks that fit the caller's buffer, the last byte left aside

ASSUME BoundsAssumption ==
    /\ MaxCalls \in Nat \ {0} /\ MaxPerSession \in Nat \ {0}
    /\ MaxChunks \in Nat /\ DestLength \in Nat \ {0}

VARIABLES
    pc,        \* "closed", "open", or the point of the perform loop
    grpc,      \* session->use_grpc_status, for the session's calls
    performs,  \* performs made on this session
    call,      \* number of the latest call; its stream carries this number
    pending,   \* calls whose request nghttp2 has yet to send
    status,    \* session->status
    complete,  \* session->complete
    dest,      \* what the call has written at session->dest; its length is dest_cursor
    buffer,    \* [BOOLEAN -> places]: all that is in the static buffers of the callers
    late,      \* HTTP2_PERFORM_TIMEOUT has passed since the call began
    broken,    \* the connection is dead or nghttp2 has given up on it
    wire,      \* [calls -> frames] what each stream has still to deliver
    size,      \* [calls -> Nat] chunks in the full body of each response
    results    \* what each finished call reported

sessionVars == <<status, complete, dest, buffer>>
netVars     == <<broken, wire, size>>
vars == <<pc, grpc, performs, call, pending, sessionVars, late, netVars, results>>

CallIds   == 1 .. MaxCalls
Statuses  == {"unset", "ok", "bad"}
FrameKind == {"ok", "bad", "data", "end"}   \* a status header, DATA, END_STREAM
Frame     == [kind : FrameKind, index : 0 .. MaxChunks]
Chunk     == CallIds \X (1 .. MaxChunks)

\* gRPC calls have their answers in api.c's buffer, HTTP calls in auth.c's.  A place has
\* room for a chunk; both buffers are zero at first, and nobody ever clears them.
Zero   == <<0, 0>>
Places == 1 .. DestLength + 1
Cell   == Chunk \cup {Zero}

Plain(kind) == [kind |-> kind, index |-> 0]
Data(n)     == [i \in 1 .. n |-> [kind |-> "data", index |-> i]]

\* The status of a gRPC call is a trailer, that of an HTTP call a header.
Response(n, st) ==
    (IF grpc THEN Data(n) \o <<Plain(st)>> ELSE <<Plain(st)>> \o Data(n)) \o <<Plain("end")>>

\* The server can end the stream early, with a RST_STREAM.
CutShort(frames) == {SubSeq(frames, 1, k) \o <<Plain("end")>> : k \in 0 .. Len(frames) - 2}

Running == pc \in {"send", "recv", "check"}

TypeOK ==
    /\ pc \in {"closed", "open", "send", "recv", "check"}
    /\ grpc \in BOOLEAN /\ performs \in 0 .. MaxPerSession /\ call \in 0 .. MaxCalls
    /\ pending \subseteq CallIds /\ status \in Statuses /\ complete \in BOOLEAN
    /\ dest \in Seq(Chunk) /\ Len(dest) <= DestLength
    /\ buffer \in [BOOLEAN -> [Places -> Cell]]
    /\ late \in BOOLEAN /\ broken \in BOOLEAN
    /\ wire \in [CallIds -> Seq(Frame)]
    /\ size \in [CallIds -> 0 .. MaxChunks]
    /\ \A i \in DOMAIN results :
          /\ results[i].call = i
          /\ results[i].status \in Statuses
          /\ results[i].dest \in Seq(Chunk)
          /\ results[i].buffer \in [Places -> Cell]

Init ==
    /\ pc = "closed" /\ grpc = FALSE /\ performs = 0 /\ call = 0 /\ pending = {}
    /\ status = "unset" /\ complete = FALSE /\ dest = <<>> /\ late = FALSE
    /\ buffer = [g \in BOOLEAN |-> [p \in Places |-> Zero]]
    /\ broken = FALSE
    /\ wire = [c \in CallIds |-> <<>>] /\ size = [c \in CallIds |-> 0]
    /\ results = <<>>

-----------------------------------------------------------------------------
(* The session, as its callers use it                                      *)

\* Acquired and connected, by the API (gRPC) or by auth_task (HTTP).
Open ==
    /\ pc = "closed"
    /\ pc' = "open"
    /\ grpc' \in BOOLEAN
    /\ performs' = 0
    /\ broken' = FALSE
    /\ UNCHANGED <<call, pending, sessionVars, late, wire, size, results>>

\* Variant: dest_cursor is not reset.
StartKeepsCursor ==
    /\ pc = "open"
    /\ call < MaxCalls
    /\ performs < IF grpc THEN 1 ELSE MaxPerSession
    /\ call' = call + 1 /\ performs' = performs + 1
    /\ pending' = pending \cup {call + 1} /\ late' = FALSE
    /\ status' = "unset" /\ complete' = FALSE
    /\ pc' = "send"
    /\ UNCHANGED <<grpc, dest, buffer, netVars, results>>

\* The cursor and the results are reset and the request is submitted.  The buffer stays
\* as it is: what an earlier call received is still in it.
Start ==
    /\ pc = "open"
    /\ call < MaxCalls
    /\ performs < IF grpc THEN 1 ELSE MaxPerSession
    /\ call' = call + 1 /\ performs' = performs + 1
    /\ pending' = pending \cup {call + 1} /\ late' = FALSE
    /\ status' = "unset" /\ complete' = FALSE /\ dest' = <<>>
    /\ pc' = "send"
    /\ UNCHANGED <<grpc, buffer, netVars, results>>

\* The TLS connection is not up, or nghttp2 does not take the request.
StartFails ==
    /\ pc = "open"
    /\ call < MaxCalls
    /\ performs < IF grpc THEN 1 ELSE MaxPerSession
    /\ call' = call + 1 /\ performs' = performs + 1
    /\ \/ UNCHANGED sessionVars
       \/ status' = "unset" /\ complete' = FALSE /\ dest' = <<>> /\ UNCHANGED buffer
    /\ results' = Append(results, [call |-> call', grpc |-> grpc, performs |-> performs',
                                   status |-> "unset", dest |-> <<>>, size |-> 0,
                                   buffer |-> buffer[grpc]])
    /\ UNCHANGED <<pc, grpc, pending, late, netVars>>

Release ==
    /\ pc = "open"
    /\ pc' = "closed"
    /\ wire' = [c \in CallIds |-> <<>>]
    /\ pending' = {}
    /\ UNCHANGED <<grpc, performs, call, sessionVars, late, broken, size, results>>

-----------------------------------------------------------------------------
(* http2_session_perform_internal_                                         *)

Return ==
    /\ pc' = "open"
    /\ results' = Append(results, [call |-> call, grpc |-> grpc, performs |-> performs,
                                   status |-> status, dest |-> dest, size |-> size[call],
                                   buffer |-> buffer[grpc]])

\* In nghttp2_session_send a request leaves: this call's, or that of a call which
\* timed out on this session before it was sent.
SendRequest ==
    /\ pc = "send"
    /\ ~broken
    /\ \E c \in pending, n \in 0 .. MaxChunks, st \in {"ok", "bad"} :
          /\ pending' = pending \ {c}
          /\ size' = [size EXCEPT ![c] = n]
          /\ \E frames \in {Response(n, st)} \cup CutShort(Response(n, st)) :
                wire' = [wire EXCEPT ![c] = frames]
    /\ UNCHANGED <<pc, grpc, performs, call, sessionVars, late, broken, results>>

\* Everything is sent, or the socket would block.
SendReturns ==
    /\ pc = "send"
    /\ ~broken
    /\ pc' = "recv"
    /\ UNCHANGED <<grpc, performs, call, pending, sessionVars, late, netVars, results>>

\* A write or a read fails, or the server has closed the connection.
ConnectionFails ==
    /\ pc \in {"send", "recv"}
    /\ broken' = TRUE
    /\ Return
    /\ UNCHANGED <<grpc, performs, call, pending, sessionVars, late, wire, size>>

\* A chunk is written behind the k that are there.  The zero that should end it lands one
\* byte too far (dest[dest_cursor + 1]), beyond the buffer if that is full.
Put(places, k, chunk) ==
    [p \in Places |-> IF p = k + 1 THEN chunk ELSE IF p = k + 3 THEN Zero ELSE places[p]]

Store(chunk) ==
    /\ dest' = Append(dest, chunk)
    /\ buffer' = [buffer EXCEPT ![grpc] = Put(@, Len(dest), chunk)]

\* http2_on_header_, for the header that carries the status of the call.
OnHeader(c) ==
    /\ Head(wire[c]).kind \in {"ok", "bad"}
    /\ status' = Head(wire[c]).kind
    /\ UNCHANGED <<complete, dest, buffer>>

\* Variant: a body that does not fit is cut instead of refused.
OnDataTruncates(c) ==
    /\ Head(wire[c]).kind = "data"
    /\ IF Len(dest) < DestLength THEN Store(<<c, Head(wire[c]).index>>)
                               ELSE UNCHANGED <<dest, buffer>>
    /\ UNCHANGED <<status, complete>>

\* Variant: the room left in dest is not looked at.
OnDataUnchecked(c) ==
    /\ Head(wire[c]).kind = "data"
    /\ Store(<<c, Head(wire[c]).index>>)
    /\ UNCHANGED <<status, complete>>

\* http2_on_data_: the chunk goes to dest, whatever its stream.
OnData(c) ==
    /\ Head(wire[c]).kind = "data"
    /\ Len(dest) < DestLength
    /\ Store(<<c, Head(wire[c]).index>>)
    /\ UNCHANGED <<status, complete>>

\* http2_on_stream_close_: any stream that closes completes the call.
OnStreamClose(c) ==
    /\ Head(wire[c]).kind = "end"
    /\ complete' = TRUE
    /\ UNCHANGED <<status, dest, buffer>>

\* One frame inside nghttp2_session_recv; streams are independent.
RecvFrame ==
    /\ pc = "recv"
    /\ ~broken
    /\ \E c \in CallIds :
          /\ wire[c] # <<>>
          /\ OnHeader(c) \/ OnData(c) \/ OnStreamClose(c)
          /\ wire' = [wire EXCEPT ![c] = Tail(@)]
    /\ UNCHANGED <<pc, grpc, performs, call, pending, late, broken, size, results>>

\* http2_on_data_ refuses a chunk that does not fit and recv fails.  The chunk is gone.
\* nghttp2 can go on with the session unless it had read more than this frame.
RecvTooLarge ==
    /\ pc = "recv"
    /\ ~broken
    /\ \E c \in CallIds :
          /\ wire[c] # <<>>
          /\ Head(wire[c]).kind = "data"
          /\ Len(dest) >= DestLength
          /\ wire' = [wire EXCEPT ![c] = Tail(@)]
    /\ broken' \in BOOLEAN
    /\ Return
    /\ UNCHANGED <<grpc, performs, call, pending, sessionVars, late, size>>

\* Nothing (more) to read for now.
RecvWouldBlock ==
    /\ pc = "recv"
    /\ ~broken
    /\ pc' = "check"
    /\ UNCHANGED <<grpc, performs, call, pending, sessionVars, late, netVars, results>>

\* The loop condition: complete == false and the clock is before the end.
Again ==
    /\ pc = "check"
    /\ ~complete /\ ~late
    /\ pc' = "send"
    /\ UNCHANGED <<grpc, performs, call, pending, sessionVars, late, netVars, results>>

\* Variant: the loop has no deadline.
FinishComplete ==
    /\ pc = "check"
    /\ complete
    /\ Return
    /\ UNCHANGED <<grpc, performs, call, pending, sessionVars, late, netVars>>

Finish ==
    /\ pc = "check"
    /\ complete \/ late
    /\ Return
    /\ UNCHANGED <<grpc, performs, call, pending, sessionVars, late, netVars>>

\* esp_timer_get_time() reaches the end of the call's five seconds.
Elapse ==
    /\ Running
    /\ ~late
    /\ late' = TRUE
    /\ UNCHANGED <<pc, grpc, performs, call, pending, sessionVars, netVars, results>>

Loop == SendRequest \/ SendReturns \/ ConnectionFails \/ RecvFrame \/ RecvTooLarge \/ RecvWouldBlock
        \/ Again \/ Finish

Next == Open \/ Start \/ StartFails \/ Release \/ Loop \/ Elapse

Spec == Init /\ [][Next]_vars

\* http2_task_ keeps running the loop, and time passes.
FairSpec == Spec /\ WF_vars(Loop) /\ WF_vars(Elapse)

-----------------------------------------------------------------------------
(* What must hold                                                          *)

Body(c, n) == [i \in 1 .. n |-> <<c, i>>]

Outputs == {results[i].dest : i \in DOMAIN results} \cup (IF Running THEN {dest} ELSE {})

\* The buffer that the caller reads has what the call received, from its start on.
InPlace(r) == \A p \in DOMAIN r.dest : r.buffer[p] = r.dest[p]

\* A gRPC call that reports OK leaves its own response body in the caller's buffer,
\* complete and in order: poll_task_ and measurements_task unpack it on the strength of
\* that status alone.
GrpcOkIsWhole ==
    \A i \in DOMAIN results :
        results[i].grpc /\ results[i].status = "ok" =>
            results[i].dest = Body(i, results[i].size) /\ InPlace(results[i])

\* The caller gets no length, it reads its buffer up to a zero.  In the first call of a
\* session it finds a beginning of its own response, whatever fails, and behind that
\* nothing of this call and nothing newer: if there was a body, at most one byte that an
\* earlier call had left (http2.c:254), and if there was none, all that it had left.
FirstCallIsOwn ==
    \A i \in DOMAIN results :
        results[i].performs = 1 =>
            LET r == results[i]
                k == Len(r.dest)
            IN  /\ IsPrefix(r.dest, Body(i, r.size)) /\ InPlace(r)
                /\ 0 < k /\ k < DestLength => r.buffer[k + 2] = Zero
                /\ \A p \in Places : k < p => r.buffer[p][1] < i

\* A chunk that arrives is stored once, in the buffer of one call.
ChunkStoredOnce ==
    /\ \A o \in Outputs : IsInjective(o)
    /\ \A i, j \in DOMAIN results :
          i # j => ToSet(results[i].dest) \cap ToSet(results[j].dest) = {}

\* A perform ends: http2_task_ is not kept from the next event by a silent
\* server.
PerformReturns == Running ~> ~Running

\* http2.c:30: "Timeout for HTTP2 calls. This is not an idle timeout, but a
\* hard limit on rx/tx duration."  If so, nothing of a call is received once
\* the call is over, and every chunk in dest belongs to the call that owns it.
RxEndsWithTheCall ==
    \A i \in DOMAIN results : \A k \in DOMAIN results[i].dest : results[i].dest[k][1] = i
=============================================================================

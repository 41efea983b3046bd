--------------------------- MODULE Transfer_proofs ---------------------------
(***************************************************************************)
(* Theorems about module Transfer, for any payloads, headers, chunks and   *)
(* frames, and any number of calls, some of them given up, on a session.   *)
(*                                                                         *)
(* What is written is exact because, without a long frame, the cursor of   *)
(* http2_tls_send_ never leaves 0.  What a stream carries is its own,      *)
(* because every DATA frame still queued is the current call's or belongs  *)
(* to a call that was given up.                                            *)
(***************************************************************************)
EXTENDS Transfer, SequenceTheorems, TLAPS

WireByte == Nat \X Nat \X Nat
Frame    == [stream : CallIds, head : Nat]

Types ==
    /\ pc \in {"open", "send", "recv", "dead"}
    /\ call \in 0 .. MaxCalls /\ size \in [CallIds -> 0 .. MaxPayload] /\ cursor \in Nat
    /\ pc \in {"send", "recv"} => call \in CallIds
    /\ IF call = 0 THEN cursor = 0 ELSE cursor <= size[call]
    /\ outbox \in Seq(Frame)
    /\ {frame, record, wire, packed} \subseteq Seq(WireByte)
    /\ sent \in 0 .. Len(frame)
    /\ body \in [CallIds -> Seq(WireByte)]
    /\ abandoned \subseteq CallIds /\ long \in BOOLEAN

IsData(i) == outbox[i].head = 0

\* A DATA frame that waits is the current call's only one, or it was given up.
Queue ==
    /\ \A i \in DOMAIN outbox : outbox[i].stream <= call
    /\ \A i \in DOMAIN outbox :
          IsData(i) => \/ outbox[i].stream \in abandoned
                       \/ pc # "open" /\ outbox[i].stream = call
    /\ \A i, j \in DOMAIN outbox :
          IsData(i) /\ IsData(j) /\ outbox[i].stream = call /\ outbox[j].stream = call => i = j

\* The payload has been read from before only by the call itself, or by streams that
\* were given up.
Cursor ==
    cursor > 0 => \/ \E b \in abandoned : b <= call
                  \/ \A i \in DOMAIN outbox : IsData(i) => outbox[i].stream # call

\* Without a long frame, every write takes the whole frame.
Whole == ~long => sent = 0 /\ Len(frame) <= ChunkLength

\* Of the current payload, what lies before the cursor has been sent, and of later
\* calls nothing.
Read ==
    \A c \in CallIds :
        /\ c > call => body[c] = <<>>
        /\ \A i \in DOMAIN body[c] :
              /\ body[c][i][2] \in 1 .. call /\ body[c][i][3] \in Nat
              /\ body[c][i][2] = call => body[c][i][3] <= cursor

IInv == Types /\ Queue /\ Cursor /\ Whole /\ Read /\ WireIsExact /\ BodyIsOwn

-----------------------------------------------------------------------------
(* Operators                                                               *)

\* A piece of a payload, as the data provider or the packing of HEADERS names it, is a
\* sequence of bytes.
LEMMA BytesAre ==
  ASSUME NEW s \in Nat, NEW of \in Nat, NEW from \in Nat, NEW n \in Nat
  PROVE  Bytes(s, of, from, from + n) \in Seq(WireByte)
<1>1. from + n - from = n
  OBVIOUS
<1>2. \A i \in 1 .. n : <<s, of, from + i>> \in WireByte
  BY DEF WireByte
<1>. QED  BY <1>1, <1>2 DEF Bytes

\* A frame that fits goes out as one chunk.
LEMMA ChunkIsFrame ==
  ASSUME frame \in Seq(WireByte), sent = 0, Len(frame) <= ChunkLength
  PROVE  Chunk = frame
<1>1. Len(frame) \in Nat /\ ChunkLength \in Nat
  BY BoundsAssumption
<1>2. Min2(Len(frame) - sent, ChunkLength) = Len(frame)
  BY <1>1 DEF Min2
<1>. QED  BY <1>2, SubSeqFull DEF Chunk

\* A chunk is never longer than what is left of its frame.
LEMMA ChunkType ==
  ASSUME Types
  PROVE  Chunk \in Seq(WireByte) /\ sent + Len(Chunk) \in 0 .. Len(frame)
<1> DEFINE n == Min2(Len(frame) - sent, ChunkLength)
<1>1. n \in Nat /\ n <= Len(frame) - sent /\ sent \in Nat /\ Len(frame) \in Nat
  BY BoundsAssumption DEF Types, Min2
<1> HIDE DEF n
<1>2. \A i \in 1 .. n : frame[i] \in WireByte
  BY <1>1 DEF Types
<1>3. SubSeq(frame, 1, n) \in Seq(WireByte) /\ Len(SubSeq(frame, 1, n)) = n
  BY <1>1, <1>2, SubSeqProperties
<1>. QED  BY <1>1, <1>3 DEF Chunk, n

\* A frame that is packed leaves the others in their order.
LEMMA OutboxTail ==
  ASSUME outbox \in Seq(Frame), outbox # <<>>, outbox' = Tail(outbox)
  PROVE  /\ outbox' \in Seq(Frame) /\ Head(outbox) = outbox[1] /\ 1 \in DOMAIN outbox
         /\ \A i \in DOMAIN outbox' : i + 1 \in DOMAIN outbox /\ outbox'[i] = outbox[i + 1]
         /\ \A i \in DOMAIN outbox' : i \in Nat /\ i # 0
<1>1. outbox' \in Seq(Frame) /\ Len(outbox') = Len(outbox) - 1
      /\ \A i \in 1 .. Len(outbox') : outbox'[i] = outbox[i + 1]
  BY HeadTailProperties
<1>2. Len(outbox) \in Nat \ {0} /\ DOMAIN outbox = 1 .. Len(outbox)
      /\ DOMAIN outbox' = 1 .. Len(outbox')
  BY <1>1
<1>. QED  BY <1>1, <1>2

-----------------------------------------------------------------------------
(* Every action keeps IInv                                                 *)

\* Where http2_session_perform_internal_ stands says nothing about what is sent.
LEMMA LoopStepsKeep ==
  ASSUME IInv, SendReturns \/ Again \/ ConnectionFails
  PROVE  IInv'
<1> USE DEF IInv, SendReturns, Again, ConnectionFails, callVars, outVars, history
<1>1. Types'
  BY DEF Types
<1>2. Queue' /\ Cursor' /\ Whole' /\ Read'
  BY DEF Queue, Cursor, IsData, Whole, Read
<1>3. WireIsExact' /\ BodyIsOwn'
  BY DEF WireIsExact, BodyIsOwn
<1>. QED  BY <1>1, <1>2, <1>3

\* A new call finds only frames of calls that were given up.
LEMMA SubmitKeeps ==
  ASSUME IInv, Submit
  PROVE  IInv'
<1> USE BoundsAssumption DEF IInv
<1>1. PICK n \in 1 .. MaxPayload, h \in HeaderLengths :
         /\ size' = [size EXCEPT ![call'] = n]
         /\ outbox' = outbox \o <<[stream |-> call', head |-> h], [stream |-> call', head |-> 0]>>
  BY DEF Submit
<1>2. /\ pc = "open" /\ pc' = "send" /\ call' = call + 1 /\ cursor' = 0
      /\ call \in Nat /\ call' \in CallIds /\ h \in Nat \ {0}
      /\ UNCHANGED <<frame, sent, record, wire, packed, body, abandoned, long>>
  BY DEF Submit, outVars, history, Types, CallIds
<1> DEFINE two == <<[stream |-> call', head |-> h], [stream |-> call', head |-> 0]>>
<1>3. two \in Seq(Frame) /\ Len(two) = 2 /\ two[1].stream = call' /\ two[2].stream = call'
      /\ two[1].head = h /\ two[2].head = 0
  BY <1>2 DEF Frame
<1>4. outbox \in Seq(Frame) /\ outbox' = outbox \o two
  BY <1>1 DEF Types
<1> HIDE DEF two
<1>5. /\ outbox' \in Seq(Frame) /\ Len(outbox) \in Nat
      /\ DOMAIN outbox = 1 .. Len(outbox) /\ DOMAIN outbox' = 1 .. Len(outbox) + 2
      /\ \A i \in DOMAIN outbox : outbox'[i] = outbox[i]
      /\ outbox'[Len(outbox) + 1] = two[1] /\ outbox'[Len(outbox) + 2] = two[2]
  <2>1. /\ outbox' \in Seq(Frame) /\ Len(outbox') = Len(outbox) + Len(two)
        /\ \A i \in 1 .. Len(outbox) + Len(two) :
              outbox'[i] = IF i <= Len(outbox) THEN outbox[i] ELSE two[i - Len(outbox)]
    BY <1>3, <1>4, ConcatProperties
  <2>2. Len(outbox) \in Nat /\ DOMAIN outbox = 1 .. Len(outbox)
        /\ DOMAIN outbox' = 1 .. Len(outbox) + 2
    BY <1>3, <1>4, <2>1
  <2>. QED  BY <1>3, <2>1, <2>2
<1>6. \A i \in DOMAIN outbox' : i \in DOMAIN outbox \/ i = Len(outbox) + 1 \/ i = Len(outbox) + 2
  BY <1>5
<1>7. Types'
  <2>1. size' \in [CallIds -> 0 .. MaxPayload] /\ cursor' <= size'[call']
    BY <1>1, <1>2 DEF Types
  <2>. QED  BY <1>2, <1>5, <2>1 DEF Types, CallIds
<1>8. Queue'
  <2>1. \A i \in DOMAIN outbox : outbox[i].stream <= call /\ outbox[i].stream \in Nat
    <3>1. \A i \in DOMAIN outbox : outbox[i] \in Frame
      BY <1>4, <1>5
    <3>. QED  BY <3>1 DEF Queue, Frame, CallIds
  <2>2. ASSUME NEW i \in DOMAIN outbox'
        PROVE  outbox'[i].stream <= call'
    <3>1. CASE i \in DOMAIN outbox
      BY <1>2, <1>5, <2>1, <3>1
    <3>2. CASE i \notin DOMAIN outbox
      <4>1. outbox'[i].stream = call'
        BY <1>3, <1>5, <1>6, <3>2
      <4>. QED  BY <1>2, <4>1
    <3>. QED  BY <3>1, <3>2
  <2>3. ASSUME NEW i \in DOMAIN outbox', IsData(i)'
        PROVE  outbox'[i].stream \in abandoned \/ outbox'[i].stream = call'
    BY <1>2, <1>3, <1>5, <1>6, <2>3 DEF Queue, IsData
  <2>4. ASSUME NEW i \in DOMAIN outbox', IsData(i)', outbox'[i].stream = call'
        PROVE  i = Len(outbox) + 2
    <3>1. i \notin DOMAIN outbox
      BY <1>2, <1>5, <2>1, <2>4
    <3>2. i # Len(outbox) + 1
      BY <1>2, <1>3, <1>5, <2>4 DEF IsData
    <3>. QED  BY <1>6, <3>1, <3>2
  <2>. QED  BY <1>2, <2>2, <2>3, <2>4 DEF Queue
<1>9. Cursor' /\ Whole'
  BY <1>2 DEF Cursor, Whole
<1>10. Read'
  BY <1>2 DEF Read
<1>11. WireIsExact'
  BY <1>2 DEF WireIsExact
<1>12. BodyIsOwn'
  <2>1. \A c \in CallIds : body[c] # <<>> => size'[c] = size[c]
    BY <1>1, <1>2 DEF Read, Types
  <2>. QED  BY <1>2, <2>1 DEF BodyIsOwn
<1>. QED  BY <1>7, <1>8, <1>9, <1>10, <1>11, <1>12

\* The DATA of a call that returns before it is packed counts as given up.
LEMMA ReturnKeeps ==
  ASSUME IInv, Return
  PROVE  IInv'
<1> USE DEF IInv, Return, callVars, outVars
<1>1. \A i \in DOMAIN outbox : IsData(i) => outbox[i].stream \in abandoned'
  BY DEF ToSet, IsData
<1>2. abandoned \subseteq abandoned' /\ abandoned' \subseteq CallIds
  <2>1. \A i \in DOMAIN outbox : outbox[i] \in Frame
    BY DEF Types
  <2>. QED  BY <2>1 DEF ToSet, Frame, Types
<1>3. Types'
  BY <1>2 DEF Types
<1>4. Queue' /\ Cursor' /\ Whole' /\ Read'
  BY <1>1, <1>2 DEF Queue, Cursor, IsData, Whole, Read
<1>5. WireIsExact' /\ BodyIsOwn'
  BY <1>2 DEF WireIsExact, BodyIsOwn
<1>. QED  BY <1>3, <1>4, <1>5

\* A session starts from nothing.
LEMMA FreshSession ==
  Init => IInv
<1> SUFFICES ASSUME Init PROVE IInv
  OBVIOUS
<1> USE BoundsAssumption DEF Init
<1>1. Types
  <2>1. <<>> \in Seq(WireByte) /\ Len(frame) = 0
    OBVIOUS
  <2>2. 0 \in 0 .. MaxPayload
    BY BoundsAssumption
  <2>3. size \in [CallIds -> 0 .. MaxPayload]
    BY <2>2
  <2>4. body \in [CallIds -> Seq(WireByte)]
    BY <2>1
  <2>5. long \in BOOLEAN
    BY Zenon
  <2>. QED  BY <2>1, <2>3, <2>4, <2>5 DEF Types
<1>2. Queue /\ Cursor /\ Whole /\ Read
  BY DEF Queue, Cursor, Whole, Read
<1>3. WireIsExact /\ BodyIsOwn
  BY DEF WireIsExact, BodyIsOwn
<1>. QED  BY <1>1, <1>2, <1>3 DEF IInv

\* The next session starts from nothing too.
LEMMA ReleaseKeeps ==
  Release => IInv'
<1>1. Init' => IInv'
  BY FreshSession, PTL
<1>2. Release => Init'
  BY DEF Release, Init
<1>. QED  BY <1>1, <1>2

\* nghttp2 packs a frame only when the one before is out.
LEMMA PackIsExact ==
  ASSUME IInv, NEW bytes \in Seq(WireByte), Pack(bytes)
  PROVE  WireIsExact' /\ Whole' /\ sent' \in 0 .. Len(frame')
         /\ frame' \in Seq(WireByte) /\ packed' \in Seq(WireByte) /\ long' \in BOOLEAN
<1> USE DEF IInv, Pack
<1>1. frame = <<>> /\ sent = 0 /\ Len(frame') \in Nat
  BY DEF Types
<1>2. packed' \in Seq(WireByte)
  BY ConcatProperties DEF Types
<1>3. long' \in BOOLEAN
  BY DEF Types
<1>4. ~long' => ~long /\ Len(frame') <= ChunkLength
  <2>1. ~long' => ~long /\ ~(Len(frame') > ChunkLength)
    BY Zenon
  <2>2. ChunkLength \in Nat
    BY BoundsAssumption
  <2>. QED  BY <1>1, <2>1, <2>2
<1>5. ~long => packed = wire /\ record = <<>>
  BY <1>1, ConcatEmptySeq DEF WireIsExact, Types
<1>6. WireIsExact'
  BY <1>4, <1>5 DEF WireIsExact
<1>. QED  BY <1>1, <1>2, <1>3, <1>4, <1>6 DEF Whole

\* HEADERS carry none of the payload.
LEMMA PackHeadersKeeps ==
  ASSUME IInv, PackHeaders
  PROVE  IInv'
<1> USE DEF IInv
<1> DEFINE first == Head(outbox)
<1>1. /\ outbox # <<>> /\ outbox \in Seq(Frame) /\ outbox' = Tail(outbox)
      /\ Pack(Bytes(first.stream, 0, 0, first.head))
      /\ UNCHANGED <<pc, call, size, cursor, record, wire, body, abandoned>>
  BY DEF PackHeaders, Pack, Types
<1>2. /\ outbox' \in Seq(Frame) /\ first = outbox[1] /\ 1 \in DOMAIN outbox
      /\ \A i \in DOMAIN outbox' : i + 1 \in DOMAIN outbox /\ outbox'[i] = outbox[i + 1]
      /\ \A i \in DOMAIN outbox' : i \in Nat /\ i # 0
  BY <1>1, OutboxTail
<1>3. Bytes(first.stream, 0, 0, first.head) \in Seq(WireByte)
  <2>1. first \in Frame
    BY <1>1, <1>2
  <2>2. first.stream \in Nat /\ first.head \in Nat
    BY <2>1, BoundsAssumption DEF Frame, CallIds
  <2>3. 0 + first.head = first.head /\ 0 \in Nat
    BY <2>2
  <2>4. Bytes(first.stream, 0, 0, 0 + first.head) \in Seq(WireByte)
    BY <2>2, <2>3, BytesAre
  <2>. QED  BY <2>3, <2>4
<1>4. Types'
  BY <1>1, <1>2, <1>3, PackIsExact DEF Types
<1>5. Queue'
  BY <1>1, <1>2 DEF Queue, IsData
<1>6. Cursor' /\ Read'
  BY <1>1, <1>2 DEF Cursor, Read, IsData
<1>7. WireIsExact' /\ Whole' /\ BodyIsOwn'
  BY <1>1, <1>3, PackIsExact DEF BodyIsOwn
<1>. QED  BY <1>4, <1>5, <1>6, <1>7

\* The data provider reads on where the last one stopped, and only the current call's
\* own DATA, or DATA that was given up, comes to ask it.
LEMMA PackDataKeeps ==
  ASSUME IInv, PackData
  PROVE  IInv'
<1> USE DEF IInv
<1>1. PICK stream, toWrite, bytes :
         /\ stream = Head(outbox).stream
         /\ toWrite = Min2(size[call] - cursor, FrameLimit)
         /\ bytes = Bytes(stream, call, cursor, cursor + toWrite)
         /\ outbox # <<>> /\ outbox \in Seq(Frame) /\ outbox' = Tail(outbox)
         /\ Head(outbox).head = 0 /\ cursor' = cursor + toWrite
         /\ body' = [body EXCEPT ![stream] = bytes]
         /\ Pack(<<<<stream, 0, 0>>>> \o bytes) /\ pc = "send" /\ call \in CallIds
         /\ UNCHANGED <<pc, call, size, record, wire, abandoned>>
  BY DEF PackData, Pack, Types
<1>2. /\ outbox' \in Seq(Frame) /\ Head(outbox) = outbox[1] /\ 1 \in DOMAIN outbox
      /\ \A i \in DOMAIN outbox' : i + 1 \in DOMAIN outbox /\ outbox'[i] = outbox[i + 1]
      /\ \A i \in DOMAIN outbox' : i \in Nat /\ i # 0
  BY <1>1, OutboxTail
<1>3. /\ stream \in CallIds /\ stream \in Nat /\ call \in Nat /\ stream <= call
      /\ stream \in abandoned \/ stream = call
      /\ IsData(1)
  <2>1. outbox[1] \in Frame
    BY <1>1, <1>2
  <2>2. stream \in CallIds /\ stream <= call /\ (stream \in abandoned \/ stream = call) /\ IsData(1)
    BY <1>1, <1>2, <2>1 DEF Frame, Queue, IsData
  <2>. QED  BY <1>1, <2>2, BoundsAssumption DEF CallIds
<1>4. toWrite \in Nat /\ cursor \in Nat /\ cursor + toWrite <= size[call]
  <2>1. size[call] \in Nat /\ cursor \in Nat /\ cursor <= size[call] /\ FrameLimit \in Nat
    BY <1>1, BoundsAssumption DEF Types, CallIds
  <2>. QED  BY <1>1, <2>1 DEF Min2
<1>5. /\ bytes \in Seq(WireByte) /\ DOMAIN bytes = 1 .. toWrite
      /\ \A i \in 1 .. toWrite : bytes[i][2] = call /\ bytes[i][3] = cursor + i
  <2>1. stream \in Nat /\ call \in Nat /\ cursor \in Nat /\ toWrite \in Nat
        /\ bytes = Bytes(stream, call, cursor, cursor + toWrite)
    BY <1>1, <1>3, <1>4
  <2>2. cursor + toWrite - cursor = toWrite
    BY <2>1
  <2>3. bytes = [i \in 1 .. toWrite |-> <<stream, call, cursor + i>>]
    BY <2>1, <2>2 DEF Bytes
  <2>4. bytes \in Seq(WireByte)
    BY <2>1, BytesAre
  <2>. QED  BY <2>3, <2>4
<1>6. <<<<stream, 0, 0>>>> \o bytes \in Seq(WireByte)
  <2>1. <<stream, 0, 0>> \in WireByte
    BY <1>3 DEF WireByte
  <2>. QED  BY <1>5, <2>1
<1>7. bytes # <<>> => \/ bytes = Bytes(stream, stream, 0, Min2(size[stream], FrameLimit))
                      \/ \E b \in abandoned : b <= stream
  <2>1. CASE stream \in abandoned
    BY <1>3, <2>1
  <2>2. CASE stream \notin abandoned /\ cursor > 0
    BY <1>1, <1>2, <1>3, <2>2 DEF Cursor
  <2>3. CASE stream \notin abandoned /\ cursor = 0
    <3>1. size[call] \in Nat
      BY <1>1, BoundsAssumption DEF Types
    <3>2. size[call] - cursor = size[call] /\ cursor + toWrite = toWrite
      BY <1>4, <2>3, <3>1
    <3>. QED  BY <1>1, <1>3, <2>3, <3>2
  <2>. QED  BY <1>4, <2>1, <2>2, <2>3
<1>8. \A i \in DOMAIN bytes : bytes[i][2] = call /\ bytes[i][3] = cursor + i /\ i \in Nat \ {0}
                              /\ i <= toWrite
  BY <1>4, <1>5
<1>9. /\ body'[stream] = bytes
      /\ \A c \in CallIds \ {stream} : body'[c] = body[c]
  BY <1>1, <1>3 DEF Types
<1>10. Types'
  <2>1. body' \in [CallIds -> Seq(WireByte)]
    BY <1>1, <1>3, <1>5 DEF Types
  <2>2. cursor' \in Nat /\ cursor' <= size[call] /\ call # 0
    BY <1>1, <1>4, BoundsAssumption DEF CallIds
  <2>. QED  BY <1>1, <1>2, <1>6, <2>1, <2>2, PackIsExact DEF Types
<1>11. Queue'
  BY <1>1, <1>2 DEF Queue, IsData
<1>12. Cursor'
  <2>1. CASE stream \in abandoned
    BY <1>1, <1>3, <2>1 DEF Cursor
  <2>2. CASE stream \notin abandoned
    <3>1. \A i \in DOMAIN outbox' : outbox[i + 1].head = 0 => outbox[i + 1].stream # call
      <4>1. outbox[1].stream = call
        BY <1>1, <1>2, <1>3, <2>2
      <4>2. \A i \in DOMAIN outbox' : i + 1 # 1
        BY <1>2
      <4>. QED  BY <1>2, <1>3, <4>1, <4>2 DEF Queue, IsData
    <3>. QED  BY <1>1, <1>2, <3>1 DEF Cursor, IsData
  <2>. QED  BY <2>1, <2>2
<1>13. Read'
  <2>1. ASSUME NEW c \in CallIds, c > call
        PROVE  body'[c] = <<>>
    <3>1. c # stream
      BY <1>3, <2>1, BoundsAssumption DEF CallIds
    <3>. QED  BY <1>9, <2>1, <3>1 DEF Read
  <2>2. ASSUME NEW c \in CallIds, NEW i \in DOMAIN body'[c]
        PROVE  /\ body'[c][i][2] \in 1 .. call /\ body'[c][i][3] \in Nat
               /\ body'[c][i][2] = call => body'[c][i][3] <= cursor'
    <3>1. CASE c = stream
      BY <1>1, <1>3, <1>4, <1>8, <1>9, <3>1 DEF CallIds
    <3>2. CASE c # stream
      <4>1. /\ body[c][i][2] \in 1 .. call /\ body[c][i][3] \in Nat
            /\ body[c][i][2] = call => body[c][i][3] <= cursor
        BY <1>9, <2>2, <3>2 DEF Read
      <4>. QED  BY <1>1, <1>4, <1>9, <3>2, <4>1
    <3>. QED  BY <3>1, <3>2
  <2>. QED  BY <1>1, <2>1, <2>2 DEF Read
<1>14. BodyIsOwn'
  <2>1. ASSUME NEW c \in CallIds, body'[c] # <<>>
        PROVE  \/ body'[c] = Bytes(c, c, 0, Min2(size[c], FrameLimit))
               \/ \E b \in abandoned : b <= c
    BY <1>7, <1>9, <2>1 DEF BodyIsOwn
  <2>2. ASSUME NEW d \in CallIds \ {stream}, NEW i \in DOMAIN bytes, NEW j \in DOMAIN body[d]
        PROVE  <<bytes[i][2], bytes[i][3]>> # <<body[d][j][2], body[d][j][3]>>
    <3>1. bytes[i][2] = call /\ bytes[i][3] = cursor + i /\ i \in Nat \ {0}
      BY <1>8
    <3>2. body[d][j][3] \in Nat /\ (body[d][j][2] = call => body[d][j][3] <= cursor)
      BY DEF Read
    <3>. QED  BY <1>4, <3>1, <3>2
  <2>3. ASSUME NEW c \in CallIds, NEW d \in CallIds, c # d,
               NEW i \in DOMAIN body'[c], NEW j \in DOMAIN body'[d]
        PROVE  <<body'[c][i][2], body'[c][i][3]>> # <<body'[d][j][2], body'[d][j][3]>>
    <3>1. CASE c = stream
      BY <1>9, <2>2, <2>3, <3>1
    <3>2. CASE d = stream
      BY <1>9, <2>2, <2>3, <3>2
    <3>3. CASE c # stream /\ d # stream
      BY <1>9, <2>3, <3>3 DEF BodyIsOwn
    <3>. QED  BY <3>1, <3>2, <3>3
  <2>. QED  BY <1>1, <2>1, <2>3 DEF BodyIsOwn
<1>15. WireIsExact' /\ Whole'
  BY <1>1, <1>6, PackIsExact
<1>. QED  BY <1>10, <1>11, <1>12, <1>13, <1>14, <1>15

\* esp_tls keeps the chunk it could not write, and that chunk is the whole frame.
LEMMA WouldBlockKeeps ==
  ASSUME IInv, WouldBlock
  PROVE  IInv'
<1> USE DEF IInv, WouldBlock, Writing, callVars, history
<1>1. Chunk \in Seq(WireByte)
  BY ChunkType
<1>2. Len(frame) \in Nat
  BY DEF Types
<1>3. Types'
  BY <1>1, <1>2 DEF Types
<1>4. Queue' /\ Cursor' /\ Whole' /\ Read'
  BY DEF Queue, Cursor, IsData, Whole, Read
<1>5. ~long => Chunk = frame
  BY ChunkIsFrame DEF Whole, Types
<1>6. WireIsExact'
  BY <1>5 DEF WireIsExact
<1>7. BodyIsOwn'
  BY DEF BodyIsOwn
<1>. QED  BY <1>3, <1>4, <1>6, <1>7

\* A write puts the whole frame on the wire, held back before or not.
LEMMA WriteKeeps ==
  ASSUME IInv, Write
  PROVE  IInv'
<1> USE DEF IInv
<1> DEFINE out == IF record = <<>> THEN Chunk ELSE record
<1>1. /\ frame # <<>> /\ wire' = wire \o out /\ record' = <<>>
      /\ IF sent + Len(Chunk) = Len(frame) THEN frame' = <<>> /\ sent' = 0
                                           ELSE sent' = sent + Len(Chunk) /\ frame' = frame
      /\ UNCHANGED <<pc, call, size, cursor, outbox, packed, body, abandoned, long>>
  BY DEF Write, Writing, callVars, history
<1>2. Chunk \in Seq(WireByte) /\ sent + Len(Chunk) \in 0 .. Len(frame)
  BY ChunkType
<1>3. out \in Seq(WireByte) /\ wire \in Seq(WireByte) /\ packed \in Seq(WireByte)
  BY <1>2 DEF Types
<1>4. ~long => out = frame /\ Chunk = frame /\ sent = 0 /\ Len(frame) \in Nat
  BY <1>1, ChunkIsFrame DEF Types, Whole, WireIsExact
<1> HIDE DEF out
<1>5. wire' \in Seq(WireByte) /\ frame' \in Seq(WireByte) /\ sent' \in 0 .. Len(frame')
  <2>1. wire' \in Seq(WireByte)
    BY <1>1, <1>3
  <2>2. CASE sent + Len(Chunk) = Len(frame)
    <3>1. frame' = <<>> /\ sent' = 0
      BY <1>1, <2>2
    <3>. QED  BY <2>1, <3>1
  <2>3. CASE sent + Len(Chunk) # Len(frame)
    <3>1. frame' = frame /\ sent' = sent + Len(Chunk) /\ frame \in Seq(WireByte)
      BY <1>1, <2>3 DEF Types
    <3>. QED  BY <1>2, <2>1, <3>1
  <2>. QED  BY <2>1, <2>2, <2>3
<1>6. Types'
  BY <1>1, <1>5 DEF Types
<1>7. Queue' /\ Cursor' /\ Read'
  BY <1>1 DEF Queue, Cursor, IsData, Read
<1>8. ~long => frame' = <<>> /\ sent' = 0
  BY <1>1, <1>4
<1>9. Whole'
  <2>1. Len(<<>>) = 0 /\ ChunkLength \in Nat
    BY BoundsAssumption
  <2>. QED  BY <1>1, <1>8, <2>1 DEF Whole
<1>10. WireIsExact'
  <2>1. ~long => packed = wire' \o frame'
    BY <1>1, <1>3, <1>4, <1>5, <1>8, ConcatEmptySeq DEF WireIsExact
  <2>. QED  BY <1>1, <2>1 DEF WireIsExact
<1>11. BodyIsOwn'
  BY <1>1 DEF BodyIsOwn
<1>. QED  BY <1>6, <1>7, <1>9, <1>10, <1>11

-----------------------------------------------------------------------------
(* Safety                                                                  *)

\* Whatever is submitted, refused, repeated, given up or dropped with its connection,
\* the wire, the frames and the payload stay related.
THEOREM Invariance == Spec => []IInv
<1>1. Init => IInv
  BY FreshSession
<1>2. IInv /\ [Next]_vars => IInv'
  <2> SUFFICES ASSUME IInv, [Next]_vars
               PROVE  IInv'
    OBVIOUS
  <2>1. CASE Release
    BY <2>1, ReleaseKeeps
  <2>2. CASE UNCHANGED vars
    BY <2>2 DEF IInv, vars, callVars, outVars, history, Types, Queue, IsData, Cursor, Whole, Read,
                WireIsExact, BodyIsOwn
  <2>. QED  BY <2>1, <2>2, LoopStepsKeep, SubmitKeeps, ReturnKeeps, PackHeadersKeeps,
               PackDataKeeps, WouldBlockKeeps, WriteKeeps DEF Next, Loop
<1>. QED  BY <1>1, <1>2, PTL DEF Spec

\* As long as every frame fits a chunk of http2_tls_send_, the connection carries
\* exactly the frames nghttp2 packed, however often a write would block.
THEOREM WireStaysExact == Spec => []WireIsExact
<1>. QED  BY Invariance, PTL DEF IInv

\* A stream carries its own call's payload unless a call up to it was given up with its
\* DATA unsent, and no byte of a payload goes out twice.
THEOREM BodyStaysOwn == Spec => []BodyIsOwn
<1>. QED  BY Invariance, PTL DEF IInv
=============================================================================

------------------------- MODULE Http2Perform_proofs -------------------------
(***************************************************************************)
(* Theorems about module Http2Perform, for any number of calls and         *)
(* sessions, any bodies and any buffer.                                    *)
(*                                                                         *)
(* The callbacks do not look at the stream.  The first call of a session   *)
(* is right all the same, because a session starts with no stream of an    *)
(* earlier call; and a gRPC call is always the first.  Its status comes    *)
(* behind its body, so it says that all of the body is there.              *)
(***************************************************************************)
EXTENDS Http2Perform, SequenceTheorems, TLAPS

Result == [call : CallIds, grpc : BOOLEAN, performs : Nat, status : Statuses,
           dest : Seq(Chunk), size : 0 .. MaxChunks, buffer : [Places -> Cell]]

IsData(f)   == f.kind = "data"
IsStatus(f) == f.kind \in {"ok", "bad"}

\* Calls are counted one by one; only calls that were made are on their way.
Counted ==
    /\ results \in Seq(Result)
    /\ Len(results) = IF Running THEN call - 1 ELSE call
    /\ Running => call \in CallIds /\ performs # 0
    /\ grpc => performs <= 1
    /\ \A c \in pending : c <= call
    /\ \A c \in CallIds : wire[c] # <<>> => c <= call /\ c \notin pending

\* The first call of a session has the connection for itself.
Alone ==
    /\ pc = "closed" \/ performs = 0 => pending = {} /\ \A c \in CallIds : wire[c] = <<>>
    /\ Running /\ performs = 1 =>
          pending \subseteq {call} /\ \A c \in CallIds \ {call} : wire[c] = <<>>

\* A stream brings chunks of its body in their order, its status before or behind, and
\* nothing after its end.
Shaped(frames, n) ==
    /\ \A i \in DOMAIN frames : IsData(frames[i]) => frames[i].index \in 1 .. n
    /\ \A i, j \in DOMAIN frames :
          i < j /\ IsData(frames[i]) /\ IsData(frames[j]) => frames[i].index < frames[j].index
    /\ \A i, j \in DOMAIN frames :
          i < j /\ IsStatus(frames[i]) /\ IsData(frames[j]) => i = 1
    /\ \A i \in DOMAIN frames : frames[i].kind = "end" => i = Len(frames)

Streams == \A c \in CallIds : Shaped(wire[c], size[c])

\* A chunk in a buffer is of a request that was sent, and is not on its way any more.
Taken(held, latest, unsent, streams) ==
    \A i \in DOMAIN held :
        /\ held[i][1] <= latest /\ held[i][1] \notin unsent
        /\ \A j \in DOMAIN streams[held[i][1]] :
              IsData(streams[held[i][1]][j]) => streams[held[i][1]][j].index # held[i][2]

Stored ==
    /\ \A i \in DOMAIN results :
          Taken(results[i].dest, call, pending, wire) /\ IsInjective(results[i].dest)
    /\ \A i, j \in DOMAIN results :
          i # j => ToSet(results[i].dest) \cap ToSet(results[j].dest) = {}
    /\ Running =>
          /\ Taken(dest, call, pending, wire) /\ IsInjective(dest)
          /\ \A i \in DOMAIN results : ToSet(results[i].dest) \cap ToSet(dest) = {}

\* What the stream of a first call brings continues after the d chunks that dest has.
Follows(frames, n, d, trailer) ==
    /\ \A i \in DOMAIN frames :
          IsData(frames[i]) => frames[i].index = d + i - (IF IsStatus(frames[1]) THEN 1 ELSE 0)
    /\ trailer => \A i \in DOMAIN frames : IsStatus(frames[i]) => d + i = n + 1

First ==
    Running /\ performs = 1 =>
        /\ Len(dest) <= size[call]
        /\ \A i \in DOMAIN dest : dest[i] = <<call, i>>
        /\ Follows(wire[call], size[call], Len(dest), grpc)
        /\ call \in pending => dest = <<>> /\ status = "unset"
        /\ grpc /\ status # "unset" => Len(dest) = size[call]

\* The buffers have nothing of a call to come.  The one of the call in progress has what it
\* received in place and one byte more at most; in a first call, the rest is older.
Buffers ==
    /\ \A g \in BOOLEAN, p \in Places : buffer[g][p][1] <= call
    /\ Running =>
          /\ \A p \in DOMAIN dest : buffer[grpc][p] = dest[p]
          /\ 0 < Len(dest) /\ Len(dest) < DestLength => buffer[grpc][Len(dest) + 2] = Zero
          /\ performs = 1 => \A p \in Places : Len(dest) < p => buffer[grpc][p][1] < call

\* What the caller finds, k chunks of its call in front.
Found(places, k, latest) ==
    /\ 0 < k /\ k < DestLength => places[k + 2] = Zero
    /\ \A p \in Places : k < p => places[p][1] < latest

IInv ==
    /\ TypeOK /\ Counted /\ Alone /\ Streams /\ Stored /\ First /\ Buffers
    /\ GrpcOkIsWhole /\ FirstCallIsOwn

-----------------------------------------------------------------------------
(* Streams and buffers                                                     *)

\* One more frame at the end of some.
LEMMA OneMore ==
  ASSUME NEW d \in Seq(Frame), NEW n \in Nat, Len(d) = n, NEW x \in Frame
  PROVE  /\ d \o <<x>> \in Seq(Frame) /\ Len(d \o <<x>>) = n + 1
         /\ \A i \in 1 .. n : (d \o <<x>>)[i] = d[i]
         /\ (d \o <<x>>)[n + 1] = x
<1>1. d \o <<x>> \in Seq(Frame) /\ Len(d \o <<x>>) = n + 1
  OBVIOUS
<1>2. \A i \in 1 .. n : (d \o <<x>>)[i] = d[i]
  OBVIOUS
<1>3. (d \o <<x>>)[n + 1] = x
  OBVIOUS
<1>. QED  BY <1>1, <1>2, <1>3

\* A response whose status is a trailer.
LEMMA StatusBehind ==
  ASSUME NEW d \in Seq(Frame), NEW n \in Nat, Len(d) = n, NEW x \in Frame, NEW y \in Frame
  PROVE  LET r == (d \o <<x>>) \o <<y>>
         IN  /\ r \in Seq(Frame) /\ Len(r) = n + 2
             /\ \A i \in 1 .. n + 1 : i # n + 1 => r[i] = d[i]
             /\ r[n + 1] = x /\ r[n + 2] = y
<1>1. PICK b \in Seq(Frame) : /\ b = d \o <<x>> /\ Len(b) = n + 1
                              /\ \A i \in 1 .. n : b[i] = d[i]
                              /\ b[n + 1] = x
  BY OneMore
<1>2. PICK r : r = b \o <<y>>
  OBVIOUS
<1>3. /\ r \in Seq(Frame) /\ Len(r) = n + 1 + 1
      /\ \A i \in 1 .. n + 1 : r[i] = b[i]
      /\ r[n + 1 + 1] = y
  BY <1>1, <1>2, OneMore
<1>4. n + 1 + 1 = n + 2 /\ n + 1 \in 1 .. n + 1
      /\ \A i \in 1 .. n + 1 : i # n + 1 => i \in 1 .. n
  OBVIOUS
<1>. QED  BY <1>1, <1>2, <1>3, <1>4

\* A response whose status is a header.
LEMMA StatusInFront ==
  ASSUME NEW d \in Seq(Frame), NEW n \in Nat, Len(d) = n, NEW x \in Frame, NEW y \in Frame,
         NEW r, r = (<<x>> \o d) \o <<y>>
  PROVE  /\ r \in Seq(Frame) /\ Len(r) = n + 2
         /\ \A i \in 1 .. n + 1 : i # 1 => r[i] = d[i - 1]
         /\ r[1] = x /\ r[n + 2] = y
<1>1. r \in Seq(Frame) /\ Len(r) = n + 2
  OBVIOUS
<1>2. \A i \in 1 .. n + 1 : i # 1 => r[i] = d[i - 1]
  OBVIOUS
<1>3. r[1] = x
  OBVIOUS
<1>4. r[n + 2] = y
  OBVIOUS
<1>. QED  BY <1>1, <1>2, <1>3, <1>4

\* What a server sends before it ends the stream, if it sends it all: the chunks in order,
\* with the status in front of them (HTTP) or behind them (gRPC).
LEMMA ResponseIs ==
  ASSUME NEW n \in 0 .. MaxChunks, NEW st \in {"ok", "bad"}, grpc \in BOOLEAN,
         NEW r, r = Response(n, st), NEW pos, pos = IF grpc THEN n + 1 ELSE 1
  PROVE  /\ r \in Seq(Frame) /\ Len(r) = n + 2
         /\ r[pos] = Plain(st) /\ r[n + 2] = Plain("end")
         /\ \A i \in 1 .. n + 1 :
               i # pos => IsData(r[i]) /\ r[i].index = IF grpc THEN i ELSE i - 1
<1> DEFINE d == Data(n)
<1>1. n \in Nat /\ MaxChunks \in Nat
  BY BoundsAssumption
<1>2. d \in Seq(Frame) /\ Len(d) = n
      /\ \A i \in 1 .. n : IsData(d[i]) /\ d[i].index = i
  <2>1. \A i \in 1 .. n : [kind |-> "data", index |-> i] \in Frame
    BY <1>1 DEF Frame, FrameKind
  <2>. QED  BY <1>1, <2>1 DEF Data, IsData
<1>3. Plain(st) \in Frame /\ Plain("end") \in Frame
  BY <1>1 DEF Plain, Frame, FrameKind
<1>4. r = (IF grpc THEN d \o <<Plain(st)>> ELSE <<Plain(st)>> \o d) \o <<Plain("end")>>
  BY DEF Response
<1> HIDE DEF d
<1>5. CASE grpc
  <2>1. r = (d \o <<Plain(st)>>) \o <<Plain("end")>> /\ pos = n + 1
    BY <1>4, <1>5
  <2>2. /\ r \in Seq(Frame) /\ Len(r) = n + 2
        /\ \A i \in 1 .. n + 1 : i # n + 1 => r[i] = d[i]
        /\ r[n + 1] = Plain(st) /\ r[n + 2] = Plain("end")
    BY <1>1, <1>2, <1>3, <2>1, StatusBehind
  <2>3. \A i \in 1 .. n + 1 : i # n + 1 => i \in 1 .. n
    BY <1>1
  <2>. QED  BY <1>2, <1>5, <2>1, <2>2, <2>3
<1>6. CASE ~grpc
  <2>1. r = (<<Plain(st)>> \o d) \o <<Plain("end")>> /\ pos = 1
    BY <1>4, <1>6
  <2>2. /\ r \in Seq(Frame) /\ Len(r) = n + 2
        /\ \A i \in 1 .. n + 1 : i # 1 => r[i] = d[i - 1]
        /\ r[1] = Plain(st) /\ r[n + 2] = Plain("end")
    BY <1>1, <1>2, <1>3, <2>1, StatusInFront
  <2>3. \A i \in 1 .. n + 1 : i # 1 => i - 1 \in 1 .. n
    BY <1>1
  <2>. QED  BY <1>2, <1>6, <2>1, <2>2, <2>3
<1>. QED  BY <1>5, <1>6

\* A stream that a server cuts short is a beginning of the response and an end.
LEMMA CutIs ==
  ASSUME NEW r \in Seq(Frame), NEW n \in Nat, Len(r) = n + 2, r[n + 2] = Plain("end"),
         NEW frames \in {r} \cup CutShort(r)
  PROVE  /\ frames \in Seq(Frame)
         /\ \E k \in 0 .. n + 1 : /\ Len(frames) = k + 1 /\ frames[k + 1] = Plain("end")
                                  /\ \A i \in 1 .. k : frames[i] = r[i]
<1>1. CASE frames = r
  <2>1. n + 1 \in 0 .. n + 1 /\ n + 1 + 1 = n + 2
    OBVIOUS
  <2>. QED  BY <1>1, <2>1
<1>2. CASE frames \in CutShort(r)
  <2>1. PICK k \in 0 .. n : frames = SubSeq(r, 1, k) \o <<Plain("end")>>
    BY <1>2 DEF CutShort
  <2>2. \A i \in 1 .. k : r[i] \in Frame
    OBVIOUS
  <2>3. PICK s : s = SubSeq(r, 1, k)
    OBVIOUS
  <2>4. s \in Seq(Frame) /\ Len(s) = k /\ \A i \in 1 .. k : s[i] = r[i]
    <3>1. /\ s \in Seq(Frame)
          /\ Len(s) = IF 1 <= k THEN k - 1 + 1 ELSE 0
          /\ \A i \in 1 .. k - 1 + 1 : s[i] = r[1 + i - 1]
      BY <2>2, <2>3, SubSeqProperties
    <3>. QED  BY <3>1
  <2>5. PICK e \in Frame : e = Plain("end")
    BY BoundsAssumption DEF Plain, Frame, FrameKind
  <2>6. frames = s \o <<e>>
    BY <2>1, <2>3, <2>5
  <2>7. frames \in Seq(Frame) /\ Len(frames) = k + 1
    BY <2>4, <2>6
  <2>8. frames[k + 1] = e
    BY <2>4, <2>6
  <2>9. \A i \in 1 .. k : frames[i] = s[i]
    BY <2>4, <2>6
  <2>10. k \in 0 .. n + 1
    OBVIOUS
  <2>. QED  BY <2>4, <2>5, <2>7, <2>8, <2>9, <2>10
<1>. QED  BY <1>1, <1>2

\* So every stream has its chunks in order, and its status where it says something.
LEMMA ResponseShape ==
  ASSUME NEW n \in 0 .. MaxChunks, NEW st \in {"ok", "bad"}, grpc \in BOOLEAN,
         NEW frames \in {Response(n, st)} \cup CutShort(Response(n, st))
  PROVE  frames \in Seq(Frame) /\ Shaped(frames, n) /\ Follows(frames, n, 0, grpc)
<1>1. PICK r, pos : r = Response(n, st) /\ pos = IF grpc THEN n + 1 ELSE 1
  OBVIOUS
<1>2. /\ r \in Seq(Frame) /\ Len(r) = n + 2
      /\ r[pos] = Plain(st) /\ r[n + 2] = Plain("end")
      /\ \A i \in 1 .. n + 1 :
            i # pos => IsData(r[i]) /\ r[i].index = IF grpc THEN i ELSE i - 1
  BY <1>1, ResponseIs
<1>3. n \in Nat /\ frames \in {r} \cup CutShort(r) /\ pos = IF grpc THEN n + 1 ELSE 1
  BY <1>1, BoundsAssumption
<1>4. frames \in Seq(Frame)
  BY <1>2, <1>3, CutIs
<1>5. PICK k \in 0 .. n + 1 : /\ Len(frames) = k + 1 /\ frames[k + 1] = Plain("end")
                              /\ \A i \in 1 .. k : frames[i] = r[i]
  BY <1>2, <1>3, CutIs
<1>6. DOMAIN frames = 1 .. k + 1 /\ pos \in 1 .. n + 1
  BY <1>3, <1>4, <1>5
<1>7. ASSUME NEW i \in DOMAIN frames
      PROVE  /\ IsData(frames[i]) =>
                   /\ i <= k /\ i # pos
                   /\ frames[i].index = IF grpc THEN i ELSE i - 1
             /\ IsStatus(frames[i]) => i = pos /\ i <= k
             /\ frames[i].kind = "end" => i = k + 1
  <2>1. CASE i = k + 1
    BY <1>5, <2>1 DEF Plain, IsData, IsStatus
  <2>2. CASE i # k + 1 /\ i = pos
    <3>1. i <= k /\ frames[i].kind = st
      BY <1>2, <1>5, <1>6, <2>2 DEF Plain
    <3>. QED  BY <2>2, <3>1 DEF IsData, IsStatus
  <2>3. CASE i # k + 1 /\ i # pos
    <3>1. i \in 1 .. k /\ i \in 1 .. n + 1 /\ frames[i] = r[i]
      BY <1>3, <1>5, <1>6, <2>3
    <3>. QED  BY <1>2, <2>3, <3>1 DEF IsData, IsStatus
  <2>. QED  BY <2>1, <2>2, <2>3
<1>8. ASSUME NEW i \in DOMAIN frames, IsData(frames[i]), ~grpc
      PROVE  IsStatus(frames[1])
  <2>1. 1 \in 1 .. k /\ pos = 1
    BY <1>3, <1>5, <1>6, <1>7, <1>8
  <2>2. frames[1].kind = st
    BY <1>2, <1>5, <2>1 DEF Plain
  <2>. QED  BY <2>2 DEF IsStatus
<1>9. ASSUME NEW i \in DOMAIN frames, IsData(frames[i]), grpc
      PROVE  ~IsStatus(frames[1])
  <2>1. 1 \in DOMAIN frames /\ 1 # pos
    BY <1>3, <1>5, <1>6, <1>7, <1>9
  <2>. QED  BY <1>7, <2>1
<1>10. Shaped(frames, n)
  <2>1. \A i \in DOMAIN frames : IsData(frames[i]) => frames[i].index \in 1 .. n
    BY <1>3, <1>5, <1>6, <1>7
  <2>2. \A i, j \in DOMAIN frames :
           i < j /\ IsData(frames[i]) /\ IsData(frames[j]) => frames[i].index < frames[j].index
    BY <1>5, <1>6, <1>7
  <2>3. \A i, j \in DOMAIN frames :
           i < j /\ IsStatus(frames[i]) /\ IsData(frames[j]) => i = 1
    BY <1>3, <1>5, <1>6, <1>7
  <2>. QED  BY <1>5, <1>7, <2>1, <2>2, <2>3 DEF Shaped
<1>11. Follows(frames, n, 0, grpc)
  <2>1. ASSUME NEW i \in DOMAIN frames, IsData(frames[i])
        PROVE  frames[i].index = 0 + i - (IF IsStatus(frames[1]) THEN 1 ELSE 0)
    BY <1>6, <1>7, <1>8, <1>9, <2>1
  <2>2. ASSUME grpc, NEW i \in DOMAIN frames, IsStatus(frames[i])
        PROVE  0 + i = n + 1
    BY <1>3, <1>6, <1>7, <2>2
  <2>. QED  BY <2>1, <2>2 DEF Follows
<1>. QED  BY <1>4, <1>10, <1>11

\* A frame that is received leaves the others of its stream in their order.
LEMMA TailIs ==
  ASSUME NEW frames \in Seq(Frame), frames # <<>>
  PROVE  /\ Tail(frames) \in Seq(Frame) /\ Len(frames) \in Nat
         /\ Len(Tail(frames)) = Len(frames) - 1
         /\ Head(frames) = frames[1] /\ 1 \in DOMAIN frames /\ frames[1] \in Frame
         /\ \A i \in DOMAIN Tail(frames) :
               i \in Nat \ {0} /\ i + 1 \in DOMAIN frames /\ Tail(frames)[i] = frames[i + 1]
<1>1. PICK t : t = Tail(frames)
  OBVIOUS
<1>2. t \in Seq(Frame) /\ Len(t) = Len(frames) - 1 /\ \A i \in 1 .. Len(t) : t[i] = frames[i + 1]
  BY <1>1, HeadTailProperties
<1>3. Len(frames) \in Nat \ {0} /\ DOMAIN t = 1 .. Len(t) /\ DOMAIN frames = 1 .. Len(frames)
  BY <1>2
<1>4. \A i \in 1 .. Len(t) : i \in Nat \ {0} /\ i + 1 \in 1 .. Len(frames)
  BY <1>2, <1>3
<1>5. 1 \in DOMAIN frames /\ frames[1] \in Frame
  BY <1>3
<1>. QED  BY <1>1, <1>2, <1>3, <1>4, <1>5

\* What is left of a stream is still in order.
LEMMA TailShape ==
  ASSUME NEW frames \in Seq(Frame), frames # <<>>, NEW n \in Nat, Shaped(frames, n)
  PROVE  Shaped(Tail(frames), n)
<1>1. PICK t : t = Tail(frames)
  OBVIOUS
<1>2. /\ Len(t) = Len(frames) - 1
      /\ \A i \in DOMAIN t : i \in Nat \ {0} /\ i + 1 \in DOMAIN frames /\ t[i] = frames[i + 1]
  BY <1>1, TailIs
<1>3. \A i \in DOMAIN t : IsData(t[i]) => t[i].index \in 1 .. n
  BY <1>2 DEF Shaped
<1>4. \A i, j \in DOMAIN t : i < j /\ IsData(t[i]) /\ IsData(t[j]) => t[i].index < t[j].index
  <2>1. \A i, j \in DOMAIN t : i < j => i + 1 < j + 1
    BY <1>2
  <2>. QED  BY <1>2, <2>1 DEF Shaped
<1>5. \A i, j \in DOMAIN t : i < j /\ IsStatus(t[i]) /\ IsData(t[j]) => i = 1
  <2>1. \A i, j \in DOMAIN t : i < j => i + 1 < j + 1 /\ i + 1 # 1
    BY <1>2
  <2>. QED  BY <1>2, <2>1 DEF Shaped
<1>6. \A i \in DOMAIN t : t[i].kind = "end" => i = Len(t)
  <2>1. \A i \in DOMAIN t : t[i].kind = "end" => i + 1 = Len(frames)
    BY <1>2 DEF Shaped
  <2>2. Len(frames) \in Nat
    OBVIOUS
  <2>. QED  BY <1>2, <2>1, <2>2
<1>. QED  BY <1>1, <1>3, <1>4, <1>5, <1>6 DEF Shaped

\* The first frame of a first call's stream: the next chunk, the status, or the end.
LEMMA TailFollows ==
  ASSUME NEW frames \in Seq(Frame), frames # <<>>, NEW n \in Nat, NEW d \in Nat,
         NEW trailer \in BOOLEAN, Shaped(frames, n), Follows(frames, n, d, trailer)
  PROVE  IF IsData(Head(frames))
         THEN /\ Head(frames).index = d + 1 /\ d + 1 <= n
              /\ Follows(Tail(frames), n, d + 1, trailer)
         ELSE /\ Follows(Tail(frames), n, d, trailer)
              /\ trailer /\ IsStatus(Head(frames)) => d = n
<1>1. PICK t, h : t = Tail(frames) /\ h = Head(frames)
  OBVIOUS
<1>2. /\ Len(t) = Len(frames) - 1 /\ Len(frames) \in Nat
      /\ h = frames[1] /\ 1 \in DOMAIN frames /\ h \in Frame
      /\ \A i \in DOMAIN t : i \in Nat \ {0} /\ i + 1 \in DOMAIN frames /\ t[i] = frames[i + 1]
      /\ t \in Seq(Frame)
  BY <1>1, TailIs
<1>3. h.kind \in {"ok", "bad", "data", "end"}
  BY <1>2 DEF Frame, FrameKind
<1>4. ASSUME NEW i \in DOMAIN t, IsData(t[i])
      PROVE  ~IsStatus(t[1])
  <2>1. 1 \in DOMAIN t
    BY <1>2
  <2>2. CASE i = 1
    BY <1>4, <2>2 DEF IsData, IsStatus
  <2>3. CASE i # 1
    <3>1. 1 + 1 < i + 1 /\ 1 + 1 # 1
      BY <1>2, <2>3
    <3>. QED  BY <1>2, <1>4, <2>1, <3>1 DEF Shaped
  <2>. QED  BY <2>2, <2>3
<1>5. CASE IsData(h)
  <2>1. ~IsStatus(frames[1])
    BY <1>2, <1>5 DEF IsData, IsStatus
  <2>2. h.index = d + 1 /\ d + 1 <= n
    <3>1. h.index = d + 1 - 0 /\ h.index \in 1 .. n
      BY <1>2, <1>5, <2>1 DEF Follows, Shaped
    <3>. QED  BY <3>1
  <2>3. ASSUME NEW i \in DOMAIN t, IsData(t[i])
        PROVE  t[i].index = d + 1 + i - (IF IsStatus(t[1]) THEN 1 ELSE 0)
    <3>1. t[i].index = d + (i + 1) - 0
      BY <1>2, <2>1, <2>3 DEF Follows
    <3>2. ~IsStatus(t[1])
      BY <1>4, <2>3
    <3>. QED  BY <1>2, <3>1, <3>2
  <2>4. ASSUME trailer, NEW i \in DOMAIN t, IsStatus(t[i])
        PROVE  d + 1 + i = n + 1
    <3>1. d + (i + 1) = n + 1
      BY <1>2, <2>4 DEF Follows
    <3>. QED  BY <1>2, <3>1
  <2>. QED  BY <1>1, <1>5, <2>2, <2>3, <2>4 DEF Follows
<1>6. CASE IsStatus(h)
  <2>1. ~IsData(h) /\ IsStatus(frames[1])
    BY <1>2, <1>6 DEF IsData, IsStatus
  <2>2. ASSUME NEW i \in DOMAIN t, IsData(t[i])
        PROVE  t[i].index = d + i - (IF IsStatus(t[1]) THEN 1 ELSE 0)
    <3>1. t[i].index = d + (i + 1) - 1
      BY <1>2, <2>1, <2>2 DEF Follows
    <3>2. ~IsStatus(t[1])
      BY <1>4, <2>2
    <3>. QED  BY <1>2, <3>1, <3>2
  <2>3. trailer => d = n
    <3>1. trailer => d + 1 = n + 1
      BY <1>2, <2>1 DEF Follows
    <3>. QED  BY <3>1
  <2>4. ASSUME trailer, NEW i \in DOMAIN t, IsStatus(t[i])
        PROVE  d + i = n + 1
    <3>1. d + (i + 1) = n + 1
      BY <1>2, <2>4 DEF Follows
    <3>2. i \in Nat \ {0}
      BY <1>2
    <3>. QED  BY <2>3, <2>4, <3>1, <3>2
  <2>. QED  BY <1>1, <1>6, <2>1, <2>2, <2>3, <2>4 DEF Follows
<1>7. CASE h.kind = "end"
  <2>1. ~IsData(h) /\ ~IsStatus(h)
    BY <1>7 DEF IsData, IsStatus
  <2>2. Len(t) = 0
    <3>1. 1 = Len(frames)
      BY <1>2, <1>7 DEF Shaped
    <3>. QED  BY <1>2, <3>1
  <2>3. DOMAIN t = {}
    BY <1>2, <2>2
  <2>. QED  BY <1>1, <2>1, <2>3 DEF Follows
<1>. QED  BY <1>3, <1>5, <1>6, <1>7 DEF IsData, IsStatus

\* A buffer that has the chunks of one call from the first on is a beginning of its body.
LEMMA PrefixOfBody ==
  ASSUME NEW c, NEW n \in Nat, NEW d, NEW S, d \in Seq(S), Len(d) <= n,
         \A i \in DOMAIN d : d[i] = <<c, i>>
  PROVE  IsPrefix(d, Body(c, n)) /\ (Len(d) = n => d = Body(c, n))
<1>1. PICK k \in Nat : k = Len(d)
  OBVIOUS
<1>2. DOMAIN d = 1 .. k /\ d = [i \in 1 .. k |-> d[i]]
  BY <1>1
<1>3. PICK b : b = Body(c, n)
  OBVIOUS
<1>4. b = [i \in 1 .. n |-> <<c, i>>]
  BY <1>3 DEF Body
<1>5. b \in Seq({c} \X (1 .. n)) /\ Len(b) = n
  BY <1>4
<1>6. SubSeq(d, 1, k) = d
  BY <1>1, SubSeqFull
<1>7. SubSeq(b, 1, k) = d
  <2>1. \A i \in 1 .. k : b[i] \in {c} \X (1 .. n)
    BY <1>1, <1>4
  <2>2. /\ SubSeq(b, 1, k) \in Seq({c} \X (1 .. n)) /\ Len(SubSeq(b, 1, k)) = k
        /\ \A i \in 1 .. k : SubSeq(b, 1, k)[i] = b[i]
    <3>1. /\ SubSeq(b, 1, k) \in Seq({c} \X (1 .. n))
          /\ Len(SubSeq(b, 1, k)) = IF 1 <= k THEN k - 1 + 1 ELSE 0
          /\ \A i \in 1 .. k - 1 + 1 : SubSeq(b, 1, k)[i] = b[1 + i - 1]
      BY <2>1, SubSeqProperties
    <3>. QED  BY <3>1
  <2>3. SubSeq(b, 1, k) = [i \in 1 .. k |-> SubSeq(b, 1, k)[i]]
    BY <2>2
  <2>4. \A i \in 1 .. k : SubSeq(b, 1, k)[i] = d[i]
    <3>1. \A i \in 1 .. k : i \in 1 .. n
      BY <1>1
    <3>2. \A i \in 1 .. k : b[i] = <<c, i>>
      BY <1>4, <3>1
    <3>3. \A i \in 1 .. k : d[i] = <<c, i>>
      BY <1>2
    <3>. QED  BY <2>2, <3>2, <3>3
  <2>. QED  BY <1>2, <2>3, <2>4
<1>8. Len(d) = n => d = b
  BY <1>1, <1>2, <1>4
<1>. QED  BY <1>1, <1>3, <1>5, <1>6, <1>7, <1>8 DEF IsPrefix

\* One more chunk in a buffer, or one more result.
LEMMA AppendIs ==
  ASSUME NEW S, NEW s \in Seq(S), NEW x \in S, NEW t, t = Append(s, x)
  PROVE  /\ t \in Seq(S) /\ Len(s) \in Nat /\ Len(t) = Len(s) + 1
         /\ Len(s) + 1 \in DOMAIN t /\ t[Len(s) + 1] = x /\ Len(s) + 1 \notin DOMAIN s
         /\ \A i \in DOMAIN s : i \in DOMAIN t /\ t[i] = s[i]
         /\ \A i \in DOMAIN t : i \in DOMAIN s \/ i = Len(s) + 1
<1>1. /\ t \in Seq(S) /\ Len(t) = Len(s) + 1 /\ t[Len(s) + 1] = x
      /\ \A i \in 1 .. Len(s) : t[i] = s[i]
  BY AppendProperties
<1>2. Len(s) \in Nat /\ DOMAIN s = 1 .. Len(s) /\ DOMAIN t = 1 .. Len(s) + 1
  BY <1>1
<1>3. \A i \in 1 .. Len(s) + 1 : i \in 1 .. Len(s) \/ i = Len(s) + 1
  BY <1>2
<1>4. \A i \in 1 .. Len(s) : i \in 1 .. Len(s) + 1
  BY <1>2
<1>5. Len(s) + 1 \in 1 .. Len(s) + 1 /\ Len(s) + 1 \notin 1 .. Len(s)
  BY <1>2
<1>. QED  BY <1>1, <1>2, <1>3, <1>4, <1>5

\* The streams of the first m calls that were sent bring nothing new.
NothingNew(m, unsent, unsent2, streams, streams2) ==
    \A c \in CallIds : c <= m /\ c \notin unsent =>
        /\ c \notin unsent2
        /\ \A j \in DOMAIN streams2[c] : \E i \in DOMAIN streams[c] :
              streams2[c][j] = streams[c][i]

\* A chunk stays taken while calls are added, requests are sent and frames are received.
LEMMA TakenStays ==
  ASSUME NEW held \in Seq(Chunk), NEW m \in Nat, NEW n \in Nat, m <= n,
         NEW unsent, NEW unsent2, NEW streams, NEW streams2,
         Taken(held, m, unsent, streams), NothingNew(m, unsent, unsent2, streams, streams2)
  PROVE  Taken(held, n, unsent2, streams2)
<1> SUFFICES ASSUME NEW i \in DOMAIN held
             PROVE  /\ held[i][1] <= n /\ held[i][1] \notin unsent2
                    /\ \A j \in DOMAIN streams2[held[i][1]] :
                          IsData(streams2[held[i][1]][j]) =>
                              streams2[held[i][1]][j].index # held[i][2]
  BY DEF Taken
<1>1. PICK c \in CallIds : c = held[i][1]
  <2>1. held[i] \in Chunk
    OBVIOUS
  <2>. QED  BY <2>1 DEF Chunk
<1>2. /\ c <= m /\ c \notin unsent
      /\ \A j \in DOMAIN streams[c] : IsData(streams[c][j]) => streams[c][j].index # held[i][2]
  BY <1>1 DEF Taken
<1>3. c <= n
  BY <1>2, BoundsAssumption DEF CallIds
<1>4. c \notin unsent2
  BY <1>2 DEF NothingNew
<1>5. \A j \in DOMAIN streams2[c] : IsData(streams2[c][j]) => streams2[c][j].index # held[i][2]
  BY <1>2 DEF NothingNew
<1>. QED  BY <1>1, <1>3, <1>4, <1>5

\* A place has a chunk of a call, or zero.
LEMMA CellIs ==
  ASSUME NEW b \in [BOOLEAN -> [Places -> Cell]], NEW g \in BOOLEAN, NEW p \in Places
  PROVE  b[g] \in [Places -> Cell] /\ b[g][p] \in Cell /\ b[g][p][1] \in Nat
<1>1. b[g] \in [Places -> Cell] /\ b[g][p] \in Cell
  OBVIOUS
<1>2. CASE b[g][p] \in Chunk
  BY <1>1, <1>2, BoundsAssumption DEF Chunk, CallIds
<1>3. CASE b[g][p] = Zero
  BY <1>1, <1>3 DEF Zero
<1>. QED  BY <1>1, <1>2, <1>3 DEF Cell

\* A chunk that is stored lies behind those that are there, with an end one byte too far.
LEMMA PutIs ==
  ASSUME NEW places \in [Places -> Cell], NEW k \in Nat, k < DestLength, NEW x \in Chunk,
         NEW new, new = Put(places, k, x)
  PROVE  /\ new \in [Places -> Cell] /\ new[k + 1] = x
         /\ \A p \in Places : p <= k => new[p] = places[p]
         /\ k + 1 < DestLength => new[k + 1 + 2] = Zero
         /\ \A p \in Places : new[p] = places[p] \/ new[p] = Zero \/ p = k + 1
<1>1. /\ Places = 1 .. DestLength + 1 /\ DestLength \in Nat
      /\ k + 1 \in Places /\ (k + 1 < DestLength => k + 3 \in Places)
  BY BoundsAssumption DEF Places
<1>2. new = [p \in Places |-> IF p = k + 1 THEN x ELSE IF p = k + 3 THEN Zero ELSE places[p]]
  BY DEF Put
<1>3. new \in [Places -> Cell]
  BY <1>2 DEF Cell
<1>4. new[k + 1] = x /\ (k + 1 < DestLength => new[k + 3] = Zero)
  BY <1>1, <1>2
<1>5. \A p \in Places : p <= k => p # k + 1 /\ p # k + 3
  BY <1>1
<1>6. k + 1 + 2 = k + 3
  OBVIOUS
<1>. QED  BY <1>2, <1>3, <1>4, <1>5, <1>6

-----------------------------------------------------------------------------
(* Every action keeps IInv                                                 *)

\* Steps of the perform loop that only move on, and the passing of time.
LEMMA QuietKeeps ==
  ASSUME IInv, SendReturns \/ RecvWouldBlock \/ Again \/ Elapse
  PROVE  IInv'
<1> USE DEF IInv
<1>1. /\ Running /\ Running' /\ pc' \in {"send", "recv", "check"}
      /\ UNCHANGED <<grpc, performs, call, pending, status, complete, dest, buffer, broken, wire,
                     size, results>>
  BY DEF SendReturns, RecvWouldBlock, Again, Elapse, Running, sessionVars, netVars
<1>2. late' \in BOOLEAN
  BY DEF SendReturns, RecvWouldBlock, Again, Elapse, TypeOK
<1>3. TypeOK'
  BY <1>1, <1>2 DEF TypeOK
<1>4. Counted' /\ Alone' /\ Streams'
  BY <1>1 DEF Counted, Alone, Streams
<1>5. Stored' /\ First' /\ Buffers'
  BY <1>1 DEF Stored, First, Buffers
<1>6. GrpcOkIsWhole' /\ FirstCallIsOwn'
  BY <1>1 DEF GrpcOkIsWhole, FirstCallIsOwn
<1>. QED  BY <1>3, <1>4, <1>5, <1>6

\* A session that is acquired has no stream of the one before.
LEMMA OpenKeeps ==
  ASSUME IInv, Open
  PROVE  IInv'
<1> USE DEF IInv
<1>1. /\ ~Running /\ ~Running' /\ pc = "closed" /\ pc' = "open" /\ performs' = 0
      /\ grpc' \in BOOLEAN /\ broken' = FALSE
      /\ UNCHANGED <<call, pending, status, complete, dest, buffer, late, wire, size, results>>
  BY DEF Open, Running, sessionVars
<1>2. broken' \in BOOLEAN
  BY <1>1, Zenon
<1>3. TypeOK'
  <2>1. performs' \in 0 .. MaxPerSession
    BY <1>1, BoundsAssumption
  <2>. QED  BY <1>1, <1>2, <2>1 DEF TypeOK
<1>4. Counted' /\ Alone' /\ Streams'
  BY <1>1 DEF Counted, Alone, Streams
<1>5. Stored' /\ First' /\ Buffers'
  BY <1>1 DEF Stored, First, Buffers
<1>6. GrpcOkIsWhole' /\ FirstCallIsOwn'
  BY <1>1 DEF GrpcOkIsWhole, FirstCallIsOwn
<1>. QED  BY <1>3, <1>4, <1>5, <1>6

\* With the session go its streams and what was not sent.
LEMMA ReleaseKeeps ==
  ASSUME IInv, Release
  PROVE  IInv'
<1> USE DEF IInv
<1>1. /\ ~Running /\ ~Running' /\ pc' = "closed"
      /\ wire' = [c \in CallIds |-> <<>>] /\ pending' = {}
      /\ UNCHANGED <<grpc, performs, call, status, complete, dest, buffer, late, broken, size,
                     results>>
  BY DEF Release, Running, sessionVars
<1>2. \A c \in CallIds : wire'[c] = <<>> /\ DOMAIN wire'[c] = {}
  BY <1>1
<1>3. wire' \in [CallIds -> Seq(Frame)]
  BY <1>1
<1>4. TypeOK'
  BY <1>1, <1>3 DEF TypeOK
<1>5. Counted' /\ Alone'
  BY <1>1, <1>2 DEF Counted, Alone
<1>6. Streams'
  BY <1>2 DEF Streams, Shaped
<1>7. Stored'
  <2>1. ASSUME NEW i \in DOMAIN results
        PROVE  Taken(results[i].dest, call, pending', wire')
    <3>1. results[i].dest \in Seq(Chunk) /\ call \in Nat
      BY BoundsAssumption DEF TypeOK
    <3>2. Taken(results[i].dest, call, pending, wire)
      BY DEF Stored
    <3>3. NothingNew(call, pending, pending', wire, wire')
      BY <1>1, <1>2 DEF NothingNew
    <3>. QED  BY <3>1, <3>2, <3>3, TakenStays
  <2>. QED  BY <1>1, <2>1 DEF Stored
<1>8. First' /\ Buffers' /\ GrpcOkIsWhole' /\ FirstCallIsOwn'
  BY <1>1 DEF First, Buffers, GrpcOkIsWhole, FirstCallIsOwn
<1>. QED  BY <1>4, <1>5, <1>6, <1>7, <1>8

\* A call begins at the start of a buffer that only has what calls before it received; the
\* first one of a session, with no other stream.
LEMMA StartKeeps ==
  ASSUME IInv, Start
  PROVE  IInv'
<1> USE DEF IInv
<1>1. /\ ~Running /\ Running' /\ pc' = "send"
      /\ call < MaxCalls /\ performs < IF grpc THEN 1 ELSE MaxPerSession
      /\ call' = call + 1 /\ performs' = performs + 1
      /\ pending' = pending \cup {call + 1} /\ late' = FALSE
      /\ status' = "unset" /\ complete' = FALSE /\ dest' = <<>>
      /\ UNCHANGED <<grpc, buffer, broken, wire, size, results>>
  BY DEF Start, Running, netVars
<1>2. /\ call \in Nat /\ call' \in Nat /\ call' \in CallIds /\ call' \in 0 .. MaxCalls
      /\ call <= call' /\ performs \in Nat /\ performs' \in 1 .. MaxPerSession
      /\ (grpc => performs' <= 1)
      /\ \A c \in CallIds : c <= call => c <= call' /\ c # call'
  BY <1>1, BoundsAssumption DEF CallIds, TypeOK
<1>3. TypeOK'
  <2>1. late' \in BOOLEAN /\ complete' \in BOOLEAN /\ status' \in Statuses
    BY <1>1 DEF Statuses
  <2>2. dest' \in Seq(Chunk) /\ Len(dest') <= DestLength
    BY <1>1, BoundsAssumption
  <2>3. pending' \subseteq CallIds /\ performs' \in 0 .. MaxPerSession
    BY <1>1, <1>2 DEF TypeOK
  <2>. QED  BY <1>1, <1>2, <2>1, <2>2, <2>3 DEF TypeOK
<1>4. Counted'
  <2>1. \A c \in pending' : c <= call'
    <3>1. \A c \in pending : c \in Nat /\ c <= call
      BY BoundsAssumption DEF Counted, TypeOK, CallIds
    <3>. QED  BY <1>1, <1>2, <3>1
  <2>2. \A c \in CallIds : wire'[c] # <<>> => c <= call' /\ c \notin pending'
    BY <1>1, <1>2 DEF Counted
  <2>. QED  BY <1>1, <1>2, <2>1, <2>2 DEF Counted
<1>5. performs' = 1 => pending = {} /\ \A c \in CallIds : wire[c] = <<>>
  BY <1>1, <1>2 DEF Alone
<1>6. Alone'
  <2>1. performs' # 0
    BY <1>2
  <2>. QED  BY <1>1, <1>5, <2>1 DEF Alone
<1>7. Streams'
  BY <1>1 DEF Streams
<1>8. Stored'
  <2>1. ASSUME NEW i \in DOMAIN results
        PROVE  Taken(results[i].dest, call', pending', wire)
    <3>1. results[i].dest \in Seq(Chunk)
      BY DEF TypeOK
    <3>2. Taken(results[i].dest, call, pending, wire)
      BY DEF Stored
    <3>3. NothingNew(call, pending, pending', wire, wire)
      BY <1>1, <1>2 DEF NothingNew
    <3>. QED  BY <1>2, <3>1, <3>2, <3>3, TakenStays
  <2>2. /\ Taken(<<>>, call', pending', wire) /\ IsInjective(<<>>)
        /\ \A i \in DOMAIN results : ToSet(results[i].dest) \cap ToSet(<<>>) = {}
    BY DEF Taken, IsInjective, ToSet
  <2>. QED  BY <1>1, <2>1, <2>2 DEF Stored
<1>9. First'
  <2>1. Len(dest') = 0 /\ size'[call'] \in Nat /\ DOMAIN dest' = {}
    BY <1>1, <1>2, BoundsAssumption DEF TypeOK
  <2>2. performs' = 1 => Follows(wire'[call'], size'[call'], Len(dest'), grpc')
    BY <1>1, <1>2, <1>5 DEF Follows
  <2>. QED  BY <1>1, <2>1, <2>2 DEF First
<1>10. GrpcOkIsWhole' /\ FirstCallIsOwn'
  BY <1>1 DEF GrpcOkIsWhole, FirstCallIsOwn
<1>11. Buffers'
  <2>1. ASSUME NEW g \in BOOLEAN, NEW p \in Places
        PROVE  buffer[g][p][1] <= call' /\ buffer[g][p][1] < call'
    <3>1. buffer[g][p][1] \in Nat /\ buffer[g][p][1] <= call
      BY CellIs DEF TypeOK, Buffers
    <3>. QED  BY <1>1, <1>2, <3>1
  <2>2. DOMAIN dest' = {} /\ Len(dest') = 0 /\ grpc \in BOOLEAN
    BY <1>1 DEF TypeOK
  <2>. QED  BY <1>1, <2>1, <2>2 DEF Buffers
<1>. QED  BY <1>3, <1>4, <1>6, <1>7, <1>8, <1>9, <1>10, <1>11

\* What a call reports is added to what the calls before it have reported.
LEMMA ResultKeeps ==
  ASSUME IInv, ~Running', NEW r \in Result, results' = Append(results, r),
         r.call = Len(results) + 1,
         r.grpc /\ r.status = "ok" => r.dest = Body(r.call, r.size) /\ InPlace(r),
         r.performs = 1 =>
             /\ IsPrefix(r.dest, Body(r.call, r.size)) /\ InPlace(r)
             /\ Found(r.buffer, Len(r.dest), r.call),
         \A i \in DOMAIN results : Taken(results[i].dest, call', pending', wire'),
         Taken(r.dest, call', pending', wire'), IsInjective(r.dest),
         \A i \in DOMAIN results : ToSet(results[i].dest) \cap ToSet(r.dest) = {}
  PROVE  /\ results' \in Seq(Result) /\ Len(results') = Len(results) + 1
         /\ \A i \in DOMAIN results' :
               /\ results'[i].call = i
               /\ results'[i].status \in Statuses
               /\ results'[i].dest \in Seq(Chunk)
               /\ results'[i].buffer \in [Places -> Cell]
         /\ Stored' /\ GrpcOkIsWhole' /\ FirstCallIsOwn'
<1> USE DEF IInv
<1>1. results \in Seq(Result)
  BY DEF Counted
<1>2. /\ results' \in Seq(Result) /\ Len(results') = Len(results) + 1
      /\ \A i \in DOMAIN results : i \in DOMAIN results' /\ results'[i] = results[i]
      /\ \A i \in DOMAIN results' :
            (i \in DOMAIN results /\ results'[i] = results[i]) \/ (i = r.call /\ results'[i] = r)
  <2>1. PICK t : t = Append(results, r)
    OBVIOUS
  <2>2. /\ t \in Seq(Result) /\ Len(t) = Len(results) + 1
        /\ t[Len(results) + 1] = r
        /\ \A i \in DOMAIN results : i \in DOMAIN t /\ t[i] = results[i]
        /\ \A i \in DOMAIN t : i \in DOMAIN results \/ i = Len(results) + 1
    BY <1>1, <2>1, AppendIs
  <2>. QED  BY <2>1, <2>2
<1>3. r.call \notin DOMAIN results
  BY <1>1, AppendIs
<1>4. ASSUME NEW i \in DOMAIN results'
      PROVE  /\ results'[i].call = i
             /\ results'[i].status \in Statuses
             /\ results'[i].dest \in Seq(Chunk)
             /\ results'[i].buffer \in [Places -> Cell]
  BY <1>2 DEF TypeOK, Result
<1>5. Stored'
  <2>1. ASSUME NEW i \in DOMAIN results'
        PROVE  Taken(results'[i].dest, call', pending', wire') /\ IsInjective(results'[i].dest)
    BY <1>2 DEF Stored
  <2>2. ASSUME NEW i \in DOMAIN results', NEW j \in DOMAIN results', i # j
        PROVE  ToSet(results'[i].dest) \cap ToSet(results'[j].dest) = {}
    <3>1. CASE i \in DOMAIN results /\ j \in DOMAIN results
      BY <1>2, <2>2, <3>1 DEF Stored
    <3>2. CASE i \notin DOMAIN results
      BY <1>2, <2>2, <3>2
    <3>3. CASE j \notin DOMAIN results
      BY <1>2, <2>2, <3>3
    <3>. QED  BY <3>1, <3>2, <3>3
  <2>. QED  BY <2>1, <2>2 DEF Stored
<1>6. GrpcOkIsWhole'
  BY <1>2 DEF GrpcOkIsWhole, InPlace
<1>7. FirstCallIsOwn'
  BY <1>2 DEF FirstCallIsOwn, InPlace, Found
<1>. QED  BY <1>2, <1>4, <1>5, <1>6, <1>7

\* A call that does not get as far as nghttp2 reports nothing.
LEMMA StartFailsKeeps ==
  ASSUME IInv, StartFails
  PROVE  IInv'
<1> USE DEF IInv
<1>1. PICK r : /\ r = [call |-> call', grpc |-> grpc, performs |-> performs',
                       status |-> "unset", dest |-> <<>>, size |-> 0, buffer |-> buffer[grpc]]
               /\ results' = Append(results, r)
  BY DEF StartFails
<1>2. /\ pc = "open" /\ pc' = "open" /\ ~Running /\ ~Running'
      /\ call < MaxCalls /\ performs < IF grpc THEN 1 ELSE MaxPerSession
      /\ call' = call + 1 /\ performs' = performs + 1
      /\ UNCHANGED <<grpc, pending, buffer, late, broken, wire, size>>
  BY DEF StartFails, Running, netVars, sessionVars
<1>3. /\ call \in Nat /\ call' \in Nat /\ call' \in CallIds /\ call' \in 0 .. MaxCalls
      /\ call <= call' /\ performs \in Nat /\ performs' \in 1 .. MaxPerSession
      /\ (grpc => performs' <= 1)
  BY <1>2, BoundsAssumption DEF CallIds, TypeOK
<1>4. status' \in Statuses /\ complete' \in BOOLEAN /\ dest' \in Seq(Chunk) /\ Len(dest') <= DestLength
  <2>1. CASE UNCHANGED sessionVars
    BY <2>1 DEF sessionVars, TypeOK
  <2>2. CASE status' = "unset" /\ complete' = FALSE /\ dest' = <<>>
    <3>1. complete' \in BOOLEAN
      BY <2>2, Zenon
    <3>. QED  BY <2>2, <3>1, BoundsAssumption DEF Statuses
  <2>. QED  BY <2>1, <2>2 DEF StartFails
<1>5. r \in Result /\ r.call = Len(results) + 1 /\ r.status # "ok" /\ r.dest = <<>> /\ r.size = 0
  <2>1. Len(results) = call
    BY <1>2 DEF Counted
  <2>2. <<>> \in Seq(Chunk) /\ 0 \in 0 .. MaxChunks /\ "unset" \in Statuses /\ grpc \in BOOLEAN
    BY BoundsAssumption DEF Statuses, TypeOK
  <2>3. performs' \in Nat
    BY <1>3
  <2>4. buffer[grpc] \in [Places -> Cell]
    BY <2>2 DEF TypeOK
  <2>. QED  BY <1>1, <1>2, <1>3, <2>1, <2>2, <2>3, <2>4 DEF Result
<1>6. IsPrefix(r.dest, Body(r.call, r.size))
  <2>1. PICK d \in Seq(Chunk) : d = <<>>
    <3>1. <<>> \in Seq(Chunk)
      OBVIOUS
    <3>. QED  BY <3>1
  <2>2. Len(d) <= 0 /\ DOMAIN d = {}
    BY <2>1
  <2>3. IsPrefix(d, Body(r.call, 0))
    BY <2>2, PrefixOfBody
  <2>. QED  BY <1>5, <2>1, <2>3
<1>7. InPlace(r) /\ Found(r.buffer, Len(r.dest), r.call)
  <2>1. ASSUME NEW p \in Places
        PROVE  buffer[grpc][p][1] < call'
    <3>1. grpc \in BOOLEAN
      BY DEF TypeOK
    <3>2. buffer[grpc][p][1] \in Nat /\ buffer[grpc][p][1] <= call
      BY <3>1, CellIs DEF TypeOK, Buffers
    <3>. QED  BY <1>2, <1>3, <3>2
  <2>2. DOMAIN r.dest = {} /\ Len(r.dest) = 0 /\ r.call = call' /\ r.buffer = buffer[grpc]
    BY <1>1, <1>5
  <2>. QED  BY <2>1, <2>2 DEF InPlace, Found
<1>8. ASSUME NEW i \in DOMAIN results
      PROVE  Taken(results[i].dest, call', pending', wire')
  <2>1. results[i].dest \in Seq(Chunk)
    BY DEF TypeOK
  <2>2. Taken(results[i].dest, call, pending, wire)
    BY DEF Stored
  <2>3. NothingNew(call, pending, pending', wire, wire')
    BY <1>2 DEF NothingNew
  <2>. QED  BY <1>3, <2>1, <2>2, <2>3, TakenStays
<1>9. /\ Taken(r.dest, call', pending', wire') /\ IsInjective(r.dest)
      /\ \A i \in DOMAIN results : ToSet(results[i].dest) \cap ToSet(r.dest) = {}
  BY <1>5 DEF Taken, IsInjective, ToSet
<1>10. /\ results' \in Seq(Result) /\ Len(results') = Len(results) + 1
      /\ \A i \in DOMAIN results' :
            /\ results'[i].call = i
            /\ results'[i].status \in Statuses
            /\ results'[i].dest \in Seq(Chunk)
            /\ results'[i].buffer \in [Places -> Cell]
      /\ Stored' /\ GrpcOkIsWhole' /\ FirstCallIsOwn'
  BY <1>1, <1>2, <1>5, <1>6, <1>8, <1>9, <1>7, ResultKeeps
<1>11. TypeOK'
  <2>1. performs' \in 0 .. MaxPerSession
    BY <1>3
  <2>. QED  BY <1>2, <1>3, <1>4, <1>10, <2>1 DEF TypeOK
<1>12. Counted'
  <2>1. Len(results') = call'
    BY <1>2, <1>10 DEF Counted
  <2>2. \A c \in pending' : c <= call'
    <3>1. \A c \in pending : c \in Nat /\ c <= call
      BY BoundsAssumption DEF Counted, TypeOK, CallIds
    <3>. QED  BY <1>2, <1>3, <3>1
  <2>3. \A c \in CallIds : wire'[c] # <<>> => c <= call' /\ c \notin pending'
    <3>1. \A c \in CallIds : c <= call => c <= call'
      BY <1>3, BoundsAssumption DEF CallIds
    <3>. QED  BY <1>2, <3>1 DEF Counted
  <2>. QED  BY <1>2, <1>3, <1>10, <2>1, <2>2, <2>3 DEF Counted
<1>13. Alone' /\ Streams' /\ First'
  BY <1>2, <1>3 DEF Alone, Streams, First
<1>14. Buffers'
  <2>1. ASSUME NEW g \in BOOLEAN, NEW p \in Places
        PROVE  buffer[g][p][1] <= call'
    <3>1. buffer[g][p][1] \in Nat /\ buffer[g][p][1] <= call
      BY CellIs DEF TypeOK, Buffers
    <3>. QED  BY <1>2, <1>3, <3>1
  <2>. QED  BY <1>2, <2>1 DEF Buffers
<1>. QED  BY <1>10, <1>11, <1>12, <1>13, <1>14

\* Buffers and results are what they were: so are their chunks.
LEMMA RecvTaken ==
  ASSUME IInv, Running, NothingNew(call, pending, pending, wire, wire')
  PROVE  /\ Taken(dest, call, pending, wire')
         /\ \A i \in DOMAIN results : Taken(results[i].dest, call, pending, wire')
<1> USE DEF IInv
<1>1. call \in Nat
  BY BoundsAssumption DEF TypeOK
<1>2. Taken(dest, call, pending, wire')
  <2>1. dest \in Seq(Chunk) /\ Taken(dest, call, pending, wire)
    BY DEF TypeOK, Stored
  <2>. QED  BY <1>1, <2>1, TakenStays
<1>3. ASSUME NEW i \in DOMAIN results
      PROVE  Taken(results[i].dest, call, pending, wire')
  <2>1. results[i].dest \in Seq(Chunk) /\ Taken(results[i].dest, call, pending, wire)
    BY DEF TypeOK, Stored
  <2>. QED  BY <1>1, <2>1, TakenStays
<1>. QED  BY <1>2, <1>3

\* However a perform ends, it reports what is in the session at that moment.
LEMMA ReturnKeeps ==
  ASSUME IInv, Running, Return, broken' \in BOOLEAN, wire' \in [CallIds -> Seq(Frame)],
         UNCHANGED <<grpc, performs, call, pending, status, complete, dest, buffer, late, size>>,
         \A c \in CallIds : wire'[c] # <<>> => wire[c] # <<>>,
         Streams', NothingNew(call, pending, pending, wire, wire')
  PROVE  IInv'
<1> USE DEF IInv
<1>1. PICK r : /\ r = [call |-> call, grpc |-> grpc, performs |-> performs,
                       status |-> status, dest |-> dest, size |-> size[call],
                       buffer |-> buffer[grpc]]
               /\ results' = Append(results, r)
  BY DEF Return
<1>2. pc' = "open" /\ ~Running'
  BY DEF Return, Running
<1>3. /\ call \in CallIds /\ call \in Nat /\ performs \in Nat /\ performs # 0
      /\ dest \in Seq(Chunk) /\ size[call] \in 0 .. MaxChunks /\ size[call] \in Nat
      /\ status \in Statuses /\ grpc \in BOOLEAN /\ buffer[grpc] \in [Places -> Cell]
  BY BoundsAssumption DEF Counted, TypeOK
<1>4. r \in Result /\ r.call = Len(results) + 1
  <2>1. Len(results) = call - 1
    BY DEF Counted
  <2>. QED  BY <1>1, <1>3, <2>1 DEF Result
<1>5. performs = 1 =>
         /\ Len(dest) <= size[call] /\ \A i \in DOMAIN dest : dest[i] = <<call, i>>
         /\ grpc /\ status # "unset" => Len(dest) = size[call]
  BY DEF First
<1>6. performs = 1 => /\ IsPrefix(dest, Body(call, size[call]))
                      /\ Len(dest) = size[call] => dest = Body(call, size[call])
  BY <1>3, <1>5, PrefixOfBody
<1>7. InPlace(r) /\ (r.performs = 1 => Found(r.buffer, Len(r.dest), r.call))
  BY <1>1 DEF InPlace, Found, Buffers
<1>8. r.performs = 1 =>
         /\ IsPrefix(r.dest, Body(r.call, r.size)) /\ InPlace(r)
         /\ Found(r.buffer, Len(r.dest), r.call)
  BY <1>1, <1>6, <1>7
<1>9. r.grpc /\ r.status = "ok" => r.dest = Body(r.call, r.size) /\ InPlace(r)
  <2>1. grpc => performs = 1
    BY <1>3 DEF Counted
  <2>. QED  BY <1>1, <1>5, <1>6, <1>7, <2>1
<1>10. /\ \A i \in DOMAIN results : Taken(results[i].dest, call', pending', wire')
      /\ Taken(r.dest, call', pending', wire') /\ IsInjective(r.dest)
      /\ \A i \in DOMAIN results : ToSet(results[i].dest) \cap ToSet(r.dest) = {}
  BY <1>1, RecvTaken DEF Stored
<1>11. /\ results' \in Seq(Result) /\ Len(results') = Len(results) + 1
       /\ \A i \in DOMAIN results' :
             /\ results'[i].call = i
             /\ results'[i].status \in Statuses
             /\ results'[i].dest \in Seq(Chunk)
             /\ results'[i].buffer \in [Places -> Cell]
       /\ Stored' /\ GrpcOkIsWhole' /\ FirstCallIsOwn'
  BY <1>1, <1>2, <1>4, <1>8, <1>9, <1>10, ResultKeeps
<1>12. TypeOK'
  BY <1>2, <1>11 DEF TypeOK
<1>13. Counted'
  <2>1. Len(results') = call'
    BY <1>3, <1>11 DEF Counted
  <2>. QED  BY <1>2, <1>11, <2>1 DEF Counted
<1>14. Alone' /\ First' /\ Buffers'
  BY <1>2, <1>3 DEF Alone, First, Buffers, Return
<1>. QED  BY <1>11, <1>12, <1>13, <1>14

\* A request that leaves starts a stream of its own, with a chunk of the first.
LEMMA SendRequestKeeps ==
  ASSUME IInv, SendRequest
  PROVE  IInv'
<1> USE DEF IInv
<1>1. PICK c \in pending, n \in 0 .. MaxChunks, st \in {"ok", "bad"} :
         /\ pending' = pending \ {c}
         /\ size' = [size EXCEPT ![c] = n]
         /\ \E frames \in {Response(n, st)} \cup CutShort(Response(n, st)) :
               wire' = [wire EXCEPT ![c] = frames]
  BY DEF SendRequest
<1>2. PICK frames \in {Response(n, st)} \cup CutShort(Response(n, st)) :
          wire' = [wire EXCEPT ![c] = frames]
  BY <1>1
<1>3. /\ Running /\ Running' /\ pc = "send" /\ pc' = "send"
      /\ UNCHANGED <<grpc, performs, call, status, complete, dest, buffer, late, broken, results>>
  BY DEF SendRequest, Running, sessionVars
<1>4. frames \in Seq(Frame) /\ Shaped(frames, n) /\ Follows(frames, n, 0, grpc)
  <2>1. grpc \in BOOLEAN
    BY DEF TypeOK
  <2>. QED  BY <2>1, ResponseShape
<1>5. /\ c \in CallIds /\ c <= call /\ wire[c] = <<>> /\ call \in Nat /\ n \in Nat
      /\ performs # 0 /\ call \in CallIds
  BY <1>3, BoundsAssumption DEF TypeOK, Counted
<1>6. /\ wire' \in [CallIds -> Seq(Frame)] /\ size' \in [CallIds -> 0 .. MaxChunks]
      /\ wire'[c] = frames /\ size'[c] = n
      /\ \A b \in CallIds \ {c} : wire'[b] = wire[b] /\ size'[b] = size[b]
  BY <1>1, <1>2, <1>4, <1>5 DEF TypeOK
<1>7. TypeOK'
  BY <1>1, <1>3, <1>6 DEF TypeOK
<1>8. Counted'
  BY <1>1, <1>3, <1>5, <1>6 DEF Counted
<1>9. Alone'
  <2>1. performs = 1 => c = call
    BY <1>3 DEF Alone
  <2>. QED  BY <1>1, <1>3, <1>5, <1>6, <2>1 DEF Alone
<1>10. Streams'
  BY <1>4, <1>6 DEF Streams
<1>11. Stored'
  <2>1. NothingNew(call, pending, pending', wire, wire')
    BY <1>1, <1>6 DEF NothingNew
  <2>2. ASSUME NEW i \in DOMAIN results
        PROVE  Taken(results[i].dest, call, pending', wire')
    <3>1. results[i].dest \in Seq(Chunk) /\ Taken(results[i].dest, call, pending, wire)
      BY DEF TypeOK, Stored
    <3>. QED  BY <1>5, <2>1, <3>1, TakenStays
  <2>3. Taken(dest, call, pending', wire')
    <3>1. dest \in Seq(Chunk) /\ Taken(dest, call, pending, wire)
      BY <1>3 DEF TypeOK, Stored
    <3>. QED  BY <1>5, <2>1, <3>1, TakenStays
  <2>. QED  BY <1>3, <2>2, <2>3 DEF Stored
<1>12. First'
  <2>1. SUFFICES ASSUME performs = 1
                 PROVE  First'
    BY <1>3 DEF First
  <2>2. c = call /\ dest = <<>> /\ status = "unset"
    BY <1>3, <2>1 DEF Alone, First
  <2>3. Len(dest) = 0 /\ Len(dest) <= size'[call] /\ DOMAIN dest = {}
    BY <1>5, <1>6, <2>2
  <2>4. Follows(wire'[call], size'[call], Len(dest), grpc)
    BY <1>4, <1>6, <2>2, <2>3
  <2>. QED  BY <1>3, <2>2, <2>3, <2>4 DEF First
<1>13. Buffers' /\ GrpcOkIsWhole' /\ FirstCallIsOwn'
  BY <1>3 DEF Buffers, GrpcOkIsWhole, FirstCallIsOwn
<1>. QED  BY <1>7, <1>8, <1>9, <1>10, <1>11, <1>12, <1>13

\* A chunk that is taken from a stream is new to every buffer, and then it is in one.
LEMMA NewChunk ==
  ASSUME IInv, Running, NEW c \in CallIds, wire[c] # <<>>, IsData(Head(wire[c])),
         NEW x, x = <<c, Head(wire[c]).index>>
  PROVE  /\ x \in Chunk
         /\ x \notin ToSet(dest) /\ \A i \in DOMAIN results : x \notin ToSet(results[i].dest)
         /\ \A j \in DOMAIN Tail(wire[c]) :
               IsData(Tail(wire[c])[j]) => Tail(wire[c])[j].index # x[2]
<1> USE DEF IInv
<1>1. PICK frames \in Seq(Frame) : frames = wire[c]
  BY DEF TypeOK
<1>2. PICK k : k = frames[1].index
  OBVIOUS
<1>3. /\ Head(frames) = frames[1] /\ 1 \in DOMAIN frames
      /\ \A i \in DOMAIN Tail(frames) :
            i \in Nat \ {0} /\ i + 1 \in DOMAIN frames /\ Tail(frames)[i] = frames[i + 1]
  BY <1>1, TailIs
<1>4. x = <<c, k>> /\ x[1] = c /\ x[2] = k /\ IsData(frames[1]) /\ Shaped(frames, size[c])
  BY <1>1, <1>2, <1>3 DEF Streams
<1>5. x \in Chunk
  <2>1. k \in 1 .. size[c] /\ size[c] \in 0 .. MaxChunks
    BY <1>2, <1>3, <1>4 DEF Shaped, TypeOK
  <2>. QED  BY <1>4, <2>1, BoundsAssumption DEF Chunk
<1>6. ASSUME NEW held, Taken(held, call, pending, wire)
      PROVE  x \notin ToSet(held)
  <2>1. ASSUME NEW i \in DOMAIN held, held[i] = x
        PROVE  FALSE
    <3>1. held[i][1] = c /\ held[i][2] = k
      BY <1>4, <2>1
    <3>. QED  BY <1>1, <1>2, <1>3, <1>4, <1>6, <3>1 DEF Taken
  <2>. QED  BY <2>1 DEF ToSet
<1>7. \A j \in DOMAIN Tail(frames) : IsData(Tail(frames)[j]) => Tail(frames)[j].index # k
  <2>1. ASSUME NEW j \in DOMAIN Tail(frames), IsData(Tail(frames)[j])
        PROVE  Tail(frames)[j].index # k
    <3>1. 1 < j + 1 /\ j + 1 \in DOMAIN frames /\ Tail(frames)[j] = frames[j + 1]
      BY <1>3
    <3>2. frames[1].index < frames[j + 1].index
      BY <1>3, <1>4, <2>1, <3>1 DEF Shaped
    <3>3. frames[1].index \in 1 .. size[c] /\ size[c] \in 0 .. MaxChunks
      BY <1>3, <1>4 DEF Shaped, TypeOK
    <3>. QED  BY <1>2, <3>1, <3>2, <3>3
  <2>. QED  BY <2>1
<1>. QED  BY <1>1, <1>4, <1>5, <1>6, <1>7 DEF Stored

\* Whatever its kind, a frame that is received leaves its stream in order, and the other
\* streams as they were.
LEMMA FrameLeaves ==
  ASSUME IInv, UNCHANGED size, NEW c \in CallIds, wire[c] # <<>>,
         wire' = [wire EXCEPT ![c] = Tail(@)]
  PROVE  /\ wire' \in [CallIds -> Seq(Frame)] /\ wire'[c] = Tail(wire[c])
         /\ \A b \in CallIds \ {c} : wire'[b] = wire[b]
         /\ \A b \in CallIds : wire'[b] # <<>> => wire[b] # <<>>
         /\ Streams' /\ NothingNew(call, pending, pending, wire, wire')
<1> USE DEF IInv
<1>1. PICK frames \in Seq(Frame) : frames = wire[c]
  BY DEF TypeOK
<1>2. PICK t : t = Tail(frames)
  OBVIOUS
<1>3. t \in Seq(Frame) /\ \A i \in DOMAIN t : i + 1 \in DOMAIN frames /\ t[i] = frames[i + 1]
  BY <1>1, <1>2, TailIs
<1>4. /\ wire' \in [CallIds -> Seq(Frame)] /\ wire'[c] = t
      /\ \A b \in CallIds \ {c} : wire'[b] = wire[b]
  BY <1>1, <1>2, <1>3 DEF TypeOK
<1>5. \A b \in CallIds : wire'[b] # <<>> => wire[b] # <<>>
  BY <1>4
<1>6. Shaped(t, size[c])
  <2>1. size[c] \in Nat /\ Shaped(frames, size[c])
    BY <1>1, BoundsAssumption DEF TypeOK, Streams
  <2>. QED  BY <1>1, <1>2, <2>1, TailShape
<1>7. Streams'
  BY <1>4, <1>6 DEF Streams
<1>8. NothingNew(call, pending, pending, wire, wire')
  <2>1. ASSUME NEW b \in CallIds, NEW j \in DOMAIN wire'[b]
        PROVE  \E i \in DOMAIN wire[b] : wire'[b][j] = wire[b][i]
    <3>1. CASE b = c
      BY <1>1, <1>3, <1>4, <3>1
    <3>2. CASE b # c
      BY <1>4, <3>2
    <3>. QED  BY <3>1, <3>2
  <2>. QED  BY <2>1 DEF NothingNew
<1>. QED  BY <1>1, <1>2, <1>4, <1>5, <1>7, <1>8

\* So does a frame of a perform in progress; in a first call it is of the call's own stream.
LEMMA RecvStreams ==
  ASSUME IInv, RecvFrame, NEW c \in CallIds, wire[c] # <<>>,
         wire' = [wire EXCEPT ![c] = Tail(@)]
  PROVE  /\ wire' \in [CallIds -> Seq(Frame)] /\ wire'[c] = Tail(wire[c])
         /\ \A b \in CallIds \ {c} : wire'[b] = wire[b]
         /\ Counted' /\ Alone' /\ Streams'
         /\ NothingNew(call, pending, pending, wire, wire')
         /\ performs = 1 => c = call
<1> USE DEF IInv
<1>1. /\ Running /\ Running' /\ pc = "recv" /\ pc' = "recv"
      /\ UNCHANGED <<grpc, performs, call, pending, late, broken, size, results>>
  BY DEF RecvFrame, Running
<1>2. /\ wire' \in [CallIds -> Seq(Frame)] /\ wire'[c] = Tail(wire[c])
      /\ \A b \in CallIds \ {c} : wire'[b] = wire[b]
      /\ \A b \in CallIds : wire'[b] # <<>> => wire[b] # <<>>
      /\ Streams' /\ NothingNew(call, pending, pending, wire, wire')
  BY <1>1, FrameLeaves
<1>3. Counted' /\ Alone'
  BY <1>1, <1>2 DEF Counted, Alone
<1>4. performs = 1 => c = call
  BY <1>1 DEF Alone
<1>. QED  BY <1>2, <1>3, <1>4

\* The status of a first call comes when its stream says; a gRPC status, behind the body.
LEMMA RecvOtherKeeps ==
  ASSUME IInv, RecvFrame, NEW c \in CallIds, wire[c] # <<>>,
         wire' = [wire EXCEPT ![c] = Tail(@)], OnHeader(c) \/ OnStreamClose(c)
  PROVE  IInv'
<1> USE DEF IInv
<1>1. /\ Running /\ Running' /\ pc' = "recv" /\ dest' = dest /\ buffer' = buffer
      /\ UNCHANGED <<grpc, performs, call, pending, late, broken, size, results>>
  BY DEF RecvFrame, Running, OnHeader, OnStreamClose
<1>2. PICK h : h = Head(wire[c])
  OBVIOUS
<1>3. ~IsData(h) /\ (status' # status => IsStatus(h)) /\ status' \in Statuses
  BY <1>2 DEF OnHeader, OnStreamClose, IsData, IsStatus, TypeOK, Statuses
<1>4. complete' \in BOOLEAN
  <2>1. complete' = complete \/ complete' = TRUE
    BY DEF OnHeader, OnStreamClose
  <2>. QED  BY <2>1 DEF TypeOK
<1>5. /\ wire' \in [CallIds -> Seq(Frame)] /\ wire'[c] = Tail(wire[c])
      /\ Counted' /\ Alone' /\ Streams'
      /\ NothingNew(call, pending, pending, wire, wire')
      /\ performs = 1 => c = call
  BY RecvStreams
<1>6. TypeOK'
  BY <1>1, <1>3, <1>4, <1>5 DEF TypeOK
<1>7. Stored'
  <2>1. /\ Taken(dest, call, pending, wire')
        /\ \A i \in DOMAIN results : Taken(results[i].dest, call, pending, wire')
    BY <1>1, <1>5, RecvTaken
  <2>. QED  BY <1>1, <2>1 DEF Stored
<1>8. First'
  <2>1. SUFFICES ASSUME performs = 1
                 PROVE  First'
    BY <1>1 DEF First
  <2>2. PICK frames \in Seq(Frame), n \in Nat, d \in Nat :
           frames = wire[c] /\ n = size[c] /\ d = Len(dest)
    <3>1. wire[c] \in Seq(Frame) /\ size[c] \in Nat /\ Len(dest) \in Nat
      BY BoundsAssumption DEF TypeOK
    <3>. QED  BY <3>1
  <2>3. c = call /\ Follows(frames, n, d, grpc) /\ Shaped(frames, n) /\ d <= n
        /\ frames # <<>> /\ grpc \in BOOLEAN /\ ~IsData(Head(frames))
    BY <1>1, <1>2, <1>3, <1>5, <2>1, <2>2 DEF First, Streams, TypeOK
  <2>4. /\ Follows(Tail(frames), n, d, grpc)
        /\ grpc /\ IsStatus(Head(frames)) => d = n
    BY <2>3, TailFollows
  <2>5. call \notin pending
    BY <2>2, <2>3 DEF Counted
  <2>6. grpc /\ status' # "unset" => d = n
    <3>1. grpc /\ status # "unset" => d = n
      BY <1>1, <2>1, <2>2, <2>3 DEF First
    <3>. QED  BY <1>2, <1>3, <2>2, <2>4, <3>1
  <2>7. \A i \in DOMAIN dest : dest[i] = <<call, i>>
    BY <1>1, <2>1 DEF First
  <2>. QED  BY <1>1, <1>5, <2>2, <2>3, <2>4, <2>5, <2>6, <2>7 DEF First
<1>9. Buffers' /\ GrpcOkIsWhole' /\ FirstCallIsOwn'
  BY <1>1 DEF Buffers, GrpcOkIsWhole, FirstCallIsOwn
<1>. QED  BY <1>5, <1>6, <1>7, <1>8, <1>9

\* A chunk goes to the buffer of the call in progress; in a first call it is the next one.
LEMMA RecvDataKeeps ==
  ASSUME IInv, RecvFrame, NEW c \in CallIds, wire[c] # <<>>,
         wire' = [wire EXCEPT ![c] = Tail(@)], OnData(c)
  PROVE  IInv'
<1> USE DEF IInv
<1>1. /\ Running /\ Running' /\ pc' = "recv"
      /\ Len(dest) < DestLength /\ status' = status /\ complete' = complete
      /\ UNCHANGED <<grpc, performs, call, pending, late, broken, size, results>>
  BY DEF RecvFrame, Running, OnData
<1>2. PICK x : /\ x = <<c, Head(wire[c]).index>> /\ dest' = Append(dest, x)
               /\ buffer' = [buffer EXCEPT ![grpc] = Put(@, Len(dest), x)]
  BY DEF OnData, Store
<1>3. IsData(Head(wire[c]))
  BY DEF OnData, IsData
<1>4. /\ wire' \in [CallIds -> Seq(Frame)] /\ wire'[c] = Tail(wire[c])
      /\ Counted' /\ Alone' /\ Streams'
      /\ NothingNew(call, pending, pending, wire, wire')
      /\ performs = 1 => c = call
  BY RecvStreams
<1>5. /\ x \in Chunk
      /\ x \notin ToSet(dest) /\ \A i \in DOMAIN results : x \notin ToSet(results[i].dest)
      /\ \A j \in DOMAIN wire'[c] : IsData(wire'[c][j]) => wire'[c][j].index # x[2]
  BY <1>1, <1>2, <1>3, <1>4, NewChunk
<1>6. x[1] = c
  BY <1>2
<1>7. dest \in Seq(Chunk) /\ c <= call /\ c \notin pending
  BY DEF TypeOK, Counted
<1>8. PICK new : new = Append(dest, x)
  OBVIOUS
<1>9. /\ new \in Seq(Chunk) /\ Len(dest) \in Nat /\ Len(new) = Len(dest) + 1
      /\ Len(dest) + 1 \in DOMAIN new /\ new[Len(dest) + 1] = x /\ Len(dest) + 1 \notin DOMAIN dest
      /\ \A i \in DOMAIN dest : i \in DOMAIN new /\ new[i] = dest[i]
      /\ \A i \in DOMAIN new : i \in DOMAIN dest \/ i = Len(dest) + 1
  BY <1>5, <1>7, <1>8, AppendIs
<1>10. dest' = new
  BY <1>2, <1>8
<1>11. PICK placed : placed = Put(buffer[grpc], Len(dest), x)
  OBVIOUS
<1>12. /\ grpc \in BOOLEAN /\ buffer \in [BOOLEAN -> [Places -> Cell]]
       /\ placed \in [Places -> Cell] /\ placed[Len(dest) + 1] = x
       /\ \A p \in Places : p <= Len(dest) => placed[p] = buffer[grpc][p]
       /\ Len(dest) + 1 < DestLength => placed[Len(dest) + 1 + 2] = Zero
       /\ \A p \in Places :
             placed[p] = buffer[grpc][p] \/ placed[p] = Zero \/ p = Len(dest) + 1
  <2>1. grpc \in BOOLEAN /\ buffer \in [BOOLEAN -> [Places -> Cell]]
    BY DEF TypeOK
  <2>2. buffer[grpc] \in [Places -> Cell]
    BY <2>1
  <2>. QED  BY <1>1, <1>5, <1>9, <1>11, <2>1, <2>2, PutIs
<1>13. /\ buffer' \in [BOOLEAN -> [Places -> Cell]] /\ buffer'[grpc] = placed
       /\ \A g \in BOOLEAN : g # grpc => buffer'[g] = buffer[g]
  BY <1>2, <1>11, <1>12
<1>14. TypeOK'
  <2>1. Len(new) <= DestLength
    BY <1>1, <1>9, BoundsAssumption
  <2>. QED  BY <1>1, <1>4, <1>9, <1>10, <1>13, <2>1 DEF TypeOK
<1>15. Stored'
  <2>1. /\ Taken(dest, call, pending, wire')
        /\ \A i \in DOMAIN results : Taken(results[i].dest, call, pending, wire')
    BY <1>1, <1>4, RecvTaken
  <2>2. Taken(new, call, pending, wire')
    <3>1. ASSUME NEW i \in DOMAIN new
          PROVE  /\ new[i][1] <= call /\ new[i][1] \notin pending
                 /\ \A j \in DOMAIN wire'[new[i][1]] :
                       IsData(wire'[new[i][1]][j]) => wire'[new[i][1]][j].index # new[i][2]
      <4>1. CASE i \in DOMAIN dest
        BY <1>9, <2>1, <4>1 DEF Taken
      <4>2. CASE i = Len(dest) + 1
        <5>1. new[i] = x
          BY <1>9, <4>2
        <5>. QED  BY <1>5, <1>6, <1>7, <5>1
      <4>. QED  BY <1>9, <4>1, <4>2
    <3>. QED  BY <3>1 DEF Taken
  <2>3. IsInjective(new)
    <3>1. \A i \in DOMAIN dest : dest[i] # x
      BY <1>5 DEF ToSet
    <3>2. IsInjective(dest)
      BY <1>1 DEF Stored
    <3>. QED  BY <1>9, <3>1, <3>2 DEF IsInjective
  <2>4. ASSUME NEW i \in DOMAIN results
        PROVE  ToSet(results[i].dest) \cap ToSet(new) = {}
    <3>1. \A y \in ToSet(new) : y \in ToSet(dest) \/ y = x
      BY <1>9 DEF ToSet
    <3>2. ToSet(results[i].dest) \cap ToSet(dest) = {} /\ x \notin ToSet(results[i].dest)
      BY <1>1, <1>5 DEF Stored
    <3>. QED  BY <3>1, <3>2
  <2>. QED  BY <1>1, <1>10, <2>1, <2>2, <2>3, <2>4 DEF Stored
<1>16. First'
  <2>1. SUFFICES ASSUME performs = 1
                 PROVE  First'
    BY <1>1 DEF First
  <2>2. PICK frames \in Seq(Frame), n \in Nat, d \in Nat :
           frames = wire[c] /\ n = size[c] /\ d = Len(dest)
    <3>1. wire[c] \in Seq(Frame) /\ size[c] \in Nat
      BY BoundsAssumption DEF TypeOK
    <3>. QED  BY <1>9, <3>1
  <2>3. c = call /\ Follows(frames, n, d, grpc) /\ Shaped(frames, n) /\ d <= n
        /\ frames # <<>> /\ grpc \in BOOLEAN /\ IsData(Head(frames))
    BY <1>1, <1>3, <1>4, <2>1, <2>2 DEF First, Streams, TypeOK
  <2>4. Head(frames).index = d + 1 /\ d + 1 <= n /\ Follows(Tail(frames), n, d + 1, grpc)
    BY <2>3, TailFollows
  <2>5. call \notin pending
    BY <2>2, <2>3 DEF Counted
  <2>6. ~(grpc /\ status' # "unset")
    <3>1. grpc /\ status # "unset" => d = n
      BY <1>1, <2>1, <2>2, <2>3 DEF First
    <3>. QED  BY <1>1, <2>4, <3>1
  <2>7. \A i \in DOMAIN new : new[i] = <<call, i>>
    <3>1. x = <<call, d + 1>>
      BY <1>2, <2>2, <2>3, <2>4
    <3>2. \A i \in DOMAIN dest : dest[i] = <<call, i>>
      BY <1>1, <2>1 DEF First
    <3>. QED  BY <1>9, <2>2, <3>1, <3>2
  <2>8. Len(new) = d + 1
    BY <1>9, <2>2
  <2>. QED  BY <1>1, <1>4, <1>10, <2>2, <2>3, <2>4, <2>5, <2>6, <2>7, <2>8 DEF First
<1>17. GrpcOkIsWhole' /\ FirstCallIsOwn'
  BY <1>1 DEF GrpcOkIsWhole, FirstCallIsOwn
<1>18. Buffers'
  <2>1. call \in Nat \ {0} /\ Len(new) = Len(dest) + 1
    BY <1>1, <1>9, BoundsAssumption DEF Counted, CallIds
  <2>2. ASSUME NEW p \in Places
        PROVE  /\ placed[p][1] <= call
               /\ performs = 1 /\ Len(new) < p => placed[p][1] < call
    <3>1. buffer[grpc][p][1] <= call /\ buffer[grpc][p][1] \in Nat
      BY <1>12, CellIs DEF Buffers
    <3>2. p \in Nat /\ (Len(new) < p => Len(dest) < p /\ p # Len(dest) + 1)
      BY <1>9, <2>1, BoundsAssumption DEF Places
    <3>3. performs = 1 /\ Len(dest) < p => buffer[grpc][p][1] < call
      BY <1>1 DEF Buffers
    <3>4. CASE placed[p] = buffer[grpc][p]
      BY <3>1, <3>2, <3>3, <3>4
    <3>5. CASE placed[p] = Zero
      BY <2>1, <3>5 DEF Zero
    <3>6. CASE p = Len(dest) + 1
      BY <1>6, <1>7, <1>12, <3>2, <3>6
    <3>. QED  BY <1>12, <3>4, <3>5, <3>6
  <2>3. ASSUME NEW p \in DOMAIN new
        PROVE  placed[p] = new[p]
    <3>1. CASE p \in DOMAIN dest
      <4>1. p \in Places /\ p <= Len(dest)
        BY <1>1, <1>7, <1>9, <3>1, BoundsAssumption DEF Places
      <4>2. buffer[grpc][p] = dest[p]
        BY <1>1, <3>1 DEF Buffers
      <4>. QED  BY <1>9, <1>12, <3>1, <4>1, <4>2
    <3>2. CASE p = Len(dest) + 1
      BY <1>9, <1>12, <3>2
    <3>. QED  BY <1>9, <3>1, <3>2
  <2>4. ASSUME NEW g \in BOOLEAN, NEW p \in Places
        PROVE  buffer'[g][p][1] <= call
    <3>1. CASE g = grpc
      BY <1>13, <2>2, <3>1
    <3>2. CASE g # grpc
      BY <1>13, <3>2 DEF Buffers
    <3>. QED  BY <3>1, <3>2
  <2>5. 0 < Len(new) /\ Len(new) < DestLength => placed[Len(new) + 2] = Zero
    BY <1>12, <2>1
  <2>. QED  BY <1>1, <1>10, <1>13, <2>2, <2>3, <2>4, <2>5 DEF Buffers
<1>. QED  BY <1>4, <1>14, <1>15, <1>16, <1>17, <1>18

-----------------------------------------------------------------------------
(* Safety                                                                  *)

\* Whatever order calls, frames, failures and time come in, IInv is kept.
THEOREM Invariance == Spec => []IInv
<1>1. Init => IInv
  <2> SUFFICES ASSUME Init
               PROVE  IInv
    OBVIOUS
  <2> USE DEF Init
  <2>1. wire \in [CallIds -> Seq(Frame)] /\ size \in [CallIds -> 0 .. MaxChunks]
    <3>1. 0 \in 0 .. MaxChunks /\ <<>> \in Seq(Frame)
      BY BoundsAssumption
    <3>. QED  BY <3>1
  <2>2. grpc \in BOOLEAN /\ complete \in BOOLEAN /\ late \in BOOLEAN /\ broken \in BOOLEAN
    BY Zenon
  <2>3. DOMAIN results = {} /\ results \in Seq(Result) /\ Len(results) = 0
    OBVIOUS
  <2>4. dest \in Seq(Chunk) /\ Len(dest) <= DestLength /\ status \in Statuses
    BY BoundsAssumption DEF Statuses
  <2>5. TypeOK
    <3>1. buffer \in [BOOLEAN -> [Places -> Cell]]
      BY DEF Cell
    <3>. QED  BY <2>1, <2>2, <2>3, <2>4, <3>1, BoundsAssumption DEF TypeOK
  <2>6. ~Running
    BY DEF Running
  <2>7. Counted /\ Alone
    BY <2>3, <2>6 DEF Counted, Alone
  <2>8. Streams
    BY DEF Streams, Shaped
  <2>9. Stored /\ First /\ GrpcOkIsWhole /\ FirstCallIsOwn
    BY <2>3, <2>6 DEF Stored, First, GrpcOkIsWhole, FirstCallIsOwn
  <2>10. Buffers
    <3>1. \A g \in BOOLEAN, p \in Places : buffer[g][p][1] = 0
      BY DEF Zero
    <3>. QED  BY <2>6, <3>1 DEF Buffers
  <2>. QED  BY <2>5, <2>7, <2>8, <2>9, <2>10 DEF IInv
<1>2. IInv /\ [Next]_vars => IInv'
  <2> SUFFICES ASSUME IInv, [Next]_vars
               PROVE  IInv'
    OBVIOUS
  <2>1. CASE ConnectionFails \/ Finish
    <3>1. /\ Running /\ Return
          /\ UNCHANGED <<grpc, performs, call, pending, status, complete, dest, buffer, late, wire,
                         size>>
      BY <2>1 DEF ConnectionFails, Finish, Running, sessionVars, netVars
    <3>2. broken' \in BOOLEAN /\ wire' \in [CallIds -> Seq(Frame)]
      <4>1. broken' = TRUE \/ broken' = broken
        BY <2>1 DEF ConnectionFails, Finish, netVars
      <4>. QED  BY <3>1, <4>1 DEF IInv, TypeOK
    <3>3. Streams' /\ NothingNew(call, pending, pending, wire, wire')
      BY <3>1 DEF IInv, Streams, NothingNew
    <3>. QED  BY <3>1, <3>2, <3>3, ReturnKeeps
  <2>4. CASE RecvTooLarge
    <3>1. PICK c \in CallIds : wire[c] # <<>> /\ wire' = [wire EXCEPT ![c] = Tail(@)]
      BY <2>4 DEF RecvTooLarge
    <3>2. /\ Running /\ Return /\ broken' \in BOOLEAN
          /\ UNCHANGED <<grpc, performs, call, pending, status, complete, dest, buffer, late, size>>
      BY <2>4 DEF RecvTooLarge, Running, sessionVars
    <3>3. /\ wire' \in [CallIds -> Seq(Frame)]
          /\ \A b \in CallIds : wire'[b] # <<>> => wire[b] # <<>>
          /\ Streams' /\ NothingNew(call, pending, pending, wire, wire')
      BY <3>1, <3>2, FrameLeaves
    <3>. QED  BY <3>2, <3>3, ReturnKeeps
  <2>2. CASE RecvFrame
    <3>1. PICK c \in CallIds : /\ wire[c] # <<>>
                               /\ OnHeader(c) \/ OnData(c) \/ OnStreamClose(c)
                               /\ wire' = [wire EXCEPT ![c] = Tail(@)]
      BY <2>2 DEF RecvFrame
    <3>. QED  BY <2>2, <3>1, RecvOtherKeeps, RecvDataKeeps
  <2>3. CASE UNCHANGED vars
    BY <2>3 DEF IInv, vars, sessionVars, netVars, TypeOK, Counted, Alone, Streams, Stored, First,
                Buffers, Running, GrpcOkIsWhole, FirstCallIsOwn
  <2>. QED  BY <2>1, <2>2, <2>3, <2>4, QuietKeeps, OpenKeeps, StartKeeps, StartFailsKeeps, ReleaseKeeps,
               SendRequestKeeps DEF Next, Loop
<1>. QED  BY <1>1, <1>2, PTL DEF Spec

\* The session's buffer is never written past its end, and what it holds are chunks of
\* responses.
THEOREM TypeCorrect == Spec => []TypeOK
<1>. QED  BY Invariance, PTL DEF IInv

\* A gRPC call that reports OK has its own response, all of it and in order.
THEOREM OkMeansWhole == Spec => []GrpcOkIsWhole
<1>. QED  BY Invariance, PTL DEF IInv

\* The first call of a session has a beginning of its own response, and behind it only what
\* earlier calls left: one byte of it if there is a body.
THEOREM FirstCallStaysOwn == Spec => []FirstCallIsOwn
<1>. QED  BY Invariance, PTL DEF IInv

\* A chunk is stored once, in the buffer of one call, late or not.
THEOREM ChunksStoredOnce == Spec => []ChunkStoredOnce
<1>1. IInv => ChunkStoredOnce
  BY DEF IInv, Stored, ChunkStoredOnce, Outputs
<1>. QED  BY <1>1, Invariance, PTL
=============================================================================

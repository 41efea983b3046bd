---------------------------- MODULE Auth_proofs ----------------------------
(***************************************************************************)
(* Theorems about module Auth, for any number of tokens, timer ticks, power *)
(* losses and network losses.                                              *)
(*                                                                         *)
(* No call clears response_buffer_, so what is stored may stem from a call *)
(* long past.  It is harmless because the latest token that reached the    *)
(* buffer is never older than the one in flash: IInv says so.              *)
(***************************************************************************)
EXTENDS Auth, TLAPS

\* What the server has issued belongs to a registration it has approved.
Issued ==
    /\ Len(issued) <= MaxTokens /\ grants <= Len(issued)
    /\ \A i \in 1 .. Len(issued) : issued[i] \in 1 .. grants

\* Stale or not, the token in the buffer is no older than the one in flash, and its
\* registration no older than the refresh token.
Buffered ==
    buffer.kind = "token" =>
        /\ buffer.access \in 1 .. Len(issued)
        /\ buffer.access >= access
        /\ issued[buffer.access] >= refresh
        /\ buffer.refresh # 0 => buffer.refresh = issued[buffer.access]

\* Nothing is called between the parser and the two writes.
Storing ==
    /\ pc \in {"refresh_store", "store_access", "store_refresh"} => parsed = buffer
    /\ pc \in {"store_access", "store_refresh"} => parsed.refresh # 0
    /\ pc = "store_refresh" => access = parsed.access

\* What an attempt has taken up is not owed any more.
TakenUp == \A r \in owed : ~Working(r)

Data == TypeOK /\ CredentialsPaired /\ Issued /\ Buffered /\ Storing

IInv == Data /\ RequestsOnRecord /\ TakenUp

-----------------------------------------------------------------------------
(* Steps that touch neither the buffer nor the flash                       *)

StoreLabels == {"refresh_store", "store_access", "store_refresh"}

\* Wherever auth_task goes without parsing or storing, its data stay consistent.
LEMMA DataUntouched ==
  ASSUME Data, UNCHANGED <<buffer, parsed, flash, server>>,
         pc' = pc \/ pc' \in Labels \ StoreLabels,
         bits' \subseteq Bits, status' \in Statuses, owed' \subseteq Requests
  PROVE  Data'
<1> USE DEF Data, flash, server
<1>1. TypeOK'
  BY DEF TypeOK, StoreLabels
<1>2. CredentialsPaired' /\ Issued' /\ Buffered'
  BY DEF CredentialsPaired, Issued, Buffered, GrantOf
<1>3. Storing'
  BY DEF Storing, StoreLabels
<1>. QED  BY <1>1, <1>2, <1>3

\* No attempt begins while its request is owed, and none ends with it.
LEMMA RequestsUntouched ==
  ASSUME RequestsOnRecord, TakenUp, UNCHANGED <<bits, owed>>,
         \A r \in owed : Working(r)' => Working(r)
  PROVE  RequestsOnRecord' /\ TakenUp'
BY DEF RequestsOnRecord, TakenUp

\* The event bits are set by the event loop, the timer and the console.
LEMMA EventsKeep ==
  ASSUME IInv, GotIp \/ LostIp \/ TimerCallback \/ RequestRegister
  PROVE  IInv'
<1> USE DEF IInv, GotIp, LostIp, TimerCallback, RequestRegister, Request
<1>1. /\ UNCHANGED <<pc, status, buffer, parsed, flash, server>>
      /\ bits' \subseteq Bits /\ owed' \subseteq Requests
  BY DEF Data, TypeOK, Bits, Requests
<1>2. Data'
  BY <1>1, DataUntouched DEF Data, TypeOK
<1>3. RequestsOnRecord'
  BY DEF RequestsOnRecord, Data, TypeOK, Requests
<1>4. TakenUp'
  BY <1>1 DEF TakenUp, Working
<1>. QED  BY <1>2, <1>3, <1>4

\* auth_task takes requests up, and gives attempts up, one at a time.
LEMMA ControlKeeps ==
  ASSUME IInv,
         RegisterHandlers \/ WaitConnected \/ WaitRequest \/ Clear \/ RefreshGivesUp
           \/ RegisterGivesUp \/ Expire
  PROVE  IInv'
<1> USE DEF IInv, RegisterHandlers, WaitConnected, WaitRequest, Clear, RefreshGivesUp,
            RegisterGivesUp, Expire, Go
<1>1. /\ UNCHANGED <<buffer, parsed, flash, server>>
      /\ pc' \in Labels \ StoreLabels
      /\ bits' \subseteq Bits /\ status' \in Statuses /\ owed' \subseteq Requests
  BY DEF Data, TypeOK, Labels, StoreLabels, Statuses
<1>2. Data'
  BY <1>1, DataUntouched
<1>3. RequestsOnRecord'
  BY DEF RequestsOnRecord, TakenUp, Working, Data, TypeOK, Requests
<1>4. TakenUp'
  BY DEF TakenUp, Working, Data, TypeOK, Requests
<1>. QED  BY <1>2, <1>3, <1>4

-----------------------------------------------------------------------------
(* Calls, parsers and writes                                               *)

\* A token the server has just issued, however much of it arrives, is newer than
\* anything the device holds.
LEMMA NewToken ==
  ASSUME Data, NEW g \in 1 .. MaxTokens, NEW r \in {0, g},
         Len(issued) < MaxTokens, issued' = Append(issued, g),
         grants' \in {grants, grants + 1}, g <= grants', g >= refresh,
         Answers(Token(Len(issued) + 1, r)),
         UNCHANGED <<parsed, flash>>, pc' \in Labels \ StoreLabels,
         bits' = bits, owed' = owed
  PROVE  Data'
<1> USE DEF Data, flash
<1>1. issued \in Seq(1 .. MaxTokens) /\ Len(issued) \in Nat /\ grants \in Nat
      /\ access \in 0 .. Len(issued) /\ refresh \in 0 .. grants /\ MaxTokens \in Nat
  BY BoundsAssumption DEF TypeOK
<1>2. /\ issued' \in Seq(1 .. MaxTokens) /\ Len(issued') = Len(issued) + 1
      /\ issued'[Len(issued) + 1] = g
      /\ \A i \in 1 .. Len(issued) : issued'[i] = issued[i]
  BY <1>1
<1>3. Token(Len(issued) + 1, r) \in Bodies /\ Other("junk") \in Bodies
  <2>1. Len(issued) + 1 \in 1 .. MaxTokens /\ r \in 0 .. MaxTokens
    BY <1>1
  <2>. QED  BY <2>1 DEF Bodies
<1>4. TypeOK'
  BY <1>1, <1>2, <1>3 DEF TypeOK, Answers, Statuses, StoreLabels, Issued
<1>5. CredentialsPaired'
  BY <1>1, <1>2 DEF CredentialsPaired, GrantOf
<1>6. Issued'
  BY <1>1, <1>2 DEF Issued
<1>7. Buffered'
  BY <1>1, <1>2 DEF Buffered, Answers, Token, Other
<1>8. Storing'
  BY DEF Storing, StoreLabels
<1>. QED  BY <1>4, <1>5, <1>6, <1>7, <1>8

\* A call that brings no token leaves at most the old one in the buffer.
LEMMA NoToken ==
  ASSUME Data, buffer' \in {buffer} \cup {Other(k) : k \in {"junk", "error", "device"}},
         UNCHANGED <<parsed, flash, server>>, pc' \in Labels \ StoreLabels,
         bits' = bits, owed' = owed, status' \in Statuses
  PROVE  Data'
<1> USE DEF Data, flash, server
<1>1. TypeOK'
  BY DEF TypeOK, Bodies, StoreLabels
<1>2. CredentialsPaired' /\ Issued' /\ Storing'
  BY DEF CredentialsPaired, GrantOf, Issued, Storing, StoreLabels
<1>3. Buffered'
  BY DEF Buffered, Other
<1>. QED  BY <1>1, <1>2, <1>3

\* The token endpoint is called: with the refresh token, or until the user approves.
LEMMA CallsKeep ==
  ASSUME IInv, RefreshPerform \/ RequestDeviceCode \/ TokenGranted \/ TokenPending
  PROVE  IInv'
<1> USE DEF IInv, Go
<1>1. /\ bits' = bits /\ owed' = owed /\ UNCHANGED <<parsed, flash>>
      /\ pc' \in Labels \ StoreLabels
      /\ \A r \in owed : Working(r)' => Working(r)
  BY DEF RefreshPerform, RequestDeviceCode, TokenGranted, TokenPending, Working, Labels,
         StoreLabels, Data, TypeOK, Requests
<1>2. RequestsOnRecord' /\ TakenUp'
  BY <1>1, RequestsUntouched
<1>3. CASE RefreshPerform /\ pc' = "refresh_failed"
  <2>1. refresh \in 1 .. MaxTokens /\ refresh <= grants
    BY <1>3, BoundsAssumption DEF Data, TypeOK, RefreshPerform
  <2>2. Data'
    BY <1>1, <1>3, <2>1, NewToken DEF RefreshPerform, Data, TypeOK
  <2>. QED  BY <1>2, <2>2
<1>4. CASE TokenGranted
  <2>1. grants + 1 \in 1 .. MaxTokens /\ grants + 1 >= refresh
    BY <1>4, BoundsAssumption DEF Data, TypeOK, Issued, TokenGranted
  <2>2. Data'
    BY <1>1, <1>4, <2>1, NewToken DEF TokenGranted, Data, TypeOK
  <2>. QED  BY <1>2, <2>2
<1>5. CASE \/ RefreshPerform /\ pc' = "refresh_parse"
           \/ RequestDeviceCode
           \/ TokenPending
  <2>1. /\ buffer' \in {buffer} \cup {Other(k) : k \in {"junk", "error", "device"}}
        /\ UNCHANGED server /\ status' \in Statuses
    BY <1>5 DEF RefreshPerform, RequestDeviceCode, TokenPending, Fails, Answers, Statuses
  <2>2. Data'
    BY <1>1, <2>1, NoToken
  <2>. QED  BY <1>2, <2>2
<1>. QED  BY <1>3, <1>4, <1>5 DEF RefreshPerform

\* What is parsed is what the buffer holds, whoever put it there.
LEMMA ParsersKeep ==
  ASSUME IInv, RefreshParse \/ RegisterParse
  PROVE  IInv'
<1> USE DEF IInv, Data, RefreshParse, RegisterParse, Go, flash, server
<1>1. TypeOK'
  BY DEF TypeOK, Labels
<1>2. CredentialsPaired' /\ Issued' /\ Buffered'
  BY DEF CredentialsPaired, GrantOf, Issued, Buffered
<1>3. Storing'
  BY DEF Storing
<1>4. RequestsOnRecord' /\ TakenUp'
  BY RequestsUntouched DEF Working, TypeOK, Requests
<1>. QED  BY <1>1, <1>2, <1>3, <1>4

\* The refresh token is written after the access token it came with.
LEMMA WritesKeep ==
  ASSUME IInv, RefreshStore \/ StoreAccess \/ StoreRefresh
  PROVE  IInv'
<1> USE DEF IInv, Data, RefreshStore, StoreAccess, StoreRefresh, Go, server
<1>1. /\ parsed = buffer /\ buffer.kind = "token"
      /\ access \in Nat /\ refresh \in Nat /\ grants \in Nat /\ Len(issued) \in Nat
      /\ buffer.access \in 1 .. Len(issued)
      /\ \A i \in 1 .. Len(issued) : issued[i] \in 1 .. grants
  BY DEF TypeOK, Storing, Issued, Buffered
<1>2. TypeOK'
  BY <1>1 DEF TypeOK, Labels, Storing, Buffered
<1>3. CredentialsPaired'
  BY <1>1 DEF CredentialsPaired, GrantOf, Storing, Buffered
<1>4. Issued'
  BY DEF Issued
<1>5. Buffered'
  BY <1>1 DEF Buffered, Storing
<1>6. Storing'
  BY <1>1 DEF Storing
<1>7. RequestsOnRecord' /\ TakenUp'
  BY RequestsUntouched DEF Working, TypeOK, Requests
<1>. QED  BY <1>2, <1>3, <1>4, <1>5, <1>6, <1>7

\* RAM is lost with the power; what is in flash is still paired.
LEMMA CrashKeeps ==
  ASSUME IInv, Crash
  PROVE  IInv'
<1> USE DEF IInv, Data, Crash, PowerOn, flash, server
<1>1. TypeOK'
  BY DEF TypeOK, Labels, Bits, Requests, Statuses, Bodies
<1>2. CredentialsPaired' /\ Issued' /\ Buffered' /\ Storing'
  BY DEF CredentialsPaired, GrantOf, Issued, Buffered, Storing, Other
<1>3. RequestsOnRecord' /\ TakenUp'
  BY DEF RequestsOnRecord, TakenUp, Working
<1>. QED  BY <1>1, <1>2, <1>3

-----------------------------------------------------------------------------
\* The inductive invariant: tokens, wherever they are, and the requests on record.
THEOREM Invariance == Spec => []IInv
<1>1. Init => IInv
  <2> SUFFICES ASSUME Init PROVE IInv
    OBVIOUS
  <2> USE DEF Init
  <2>1. TypeOK
    BY BoundsAssumption DEF TypeOK, Labels, Bits, Requests, Statuses, Bodies
  <2>2. CredentialsPaired /\ Issued /\ Buffered /\ Storing
    BY BoundsAssumption DEF CredentialsPaired, Issued, Buffered, Storing, Other
  <2>3. RequestsOnRecord /\ TakenUp
    BY DEF RequestsOnRecord, TakenUp, Working
  <2>. QED  BY <2>1, <2>2, <2>3 DEF IInv, Data
<1>2. IInv /\ [Next]_vars => IInv'
  <2> SUFFICES ASSUME IInv, [Next]_vars PROVE IInv'
    OBVIOUS
  <2>1. CASE UNCHANGED vars
    BY <2>1 DEF vars, ram, flash, server, counts, IInv, Data, TypeOK, CredentialsPaired, GrantOf,
                Issued, Buffered, Storing, RequestsOnRecord, TakenUp, Working
  <2>2. CASE AuthTask
    BY <2>2, ControlKeeps, CallsKeep, ParsersKeep, WritesKeep DEF AuthTask, Refreshing, Registering
  <2>. QED  BY <2>1, <2>2, ControlKeeps, EventsKeep, CrashKeeps DEF Next
<1>. QED  BY <1>1, <1>2, PTL DEF Spec

-----------------------------------------------------------------------------
(* What follows from it                                                    *)

\* Tokens in RAM, in flash and on the server keep their types.
THEOREM TypeCorrect == Spec => []TypeOK
BY Invariance, PTL DEF IInv, Data

\* Whichever of the two writes fails, and whenever the power does, the access token
\* is at least as new as the refresh token beside it.
THEOREM CredentialsStayPaired == Spec => []CredentialsPaired
BY Invariance, PTL DEF IInv, Data

\* No request is lost between an interrupt of one kind and an attempt of the other.
THEOREM RequestsStayOnRecord == Spec => []RequestsOnRecord
BY Invariance, PTL DEF IInv

\* A stored access token is never replaced by an older one, although refreshes parse
\* a buffer that earlier calls have left.
THEOREM AccessOnlyNewer == Spec => AccessNeverGoesBack
<1>1. IInv /\ [Next]_vars => [access' >= access]_vars
  <2> SUFFICES ASSUME IInv, Next PROVE access' >= access
    OBVIOUS
  <2>1. access \in Nat
    BY DEF IInv, Data, TypeOK
  <2>2. CASE RefreshStore \/ StoreAccess
    <3>1. parsed.access >= access
      BY <2>2 DEF IInv, Data, Storing, Buffered, TypeOK, RefreshStore, StoreAccess, Go
    <3>. QED  BY <2>1, <2>2, <3>1 DEF RefreshStore, StoreAccess
  <2>3. CASE ~(RefreshStore \/ StoreAccess)
    <3>1. access' = access
      BY <2>3 DEF Next, AuthTask, Refreshing, Registering, RegisterHandlers, WaitConnected,
         WaitRequest, Clear, RefreshGivesUp, RefreshPerform, RefreshParse, RegisterGivesUp,
         RequestDeviceCode, TokenGranted, TokenPending, RegisterParse, StoreRefresh, Expire,
         GotIp, LostIp, TimerCallback, RequestRegister, Request, Crash, flash
    <3>. QED  BY <2>1, <3>1
  <2>. QED  BY <2>2, <2>3
<1>. QED  BY <1>1, Invariance, PTL DEF Spec, AccessNeverGoesBack
=============================================================================

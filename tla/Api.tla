--------------------------------- MODULE Api ---------------------------------
(***************************************************************************)
(* api/ganymede/v2/api.c: a gRPC call, made by poll_task and by            *)
(* measurements_task over the session that SessionService promises.  Token,*)
(* payload and response are static buffers, guarded by nothing but the     *)
(* session's mutex; auth_task renews the token in flash under that mutex.  *)
(* A message is named by what it carries, and a response by the message it *)
(* answers.  Module Measurements composes this with its callers.           *)
(***************************************************************************)
EXTENDS Integers, Sequences

CONSTANTS
    Callers,    \* tasks that make gRPC calls
    Readers,    \* those of them that give a response_descriptor
    Auth,       \* auth_task
    MaxTokens,  \* access tokens auth_task obtains
    None        \* NULL, nobody, an empty buffer

\* Flash may hold a token from the start.
ASSUME MaxTokensAssumption == MaxTokens \in Nat \ {0}
ASSUME TasksAssumption ==
    /\ Readers \subseteq Callers
    /\ Auth \notin Callers /\ None \notin Callers \cup {Auth}

VARIABLES
    holder, stage, question, answer, secured,  \* the session, see SessionService
    pc,        \* [Callers -> Labels] where each call of perform_ stands
    request,   \* [Callers -> message] its argument
    status,    \* [Callers -> Statuses] rc, and what the call returned last
    reply,     \* [Callers -> message or None] *response_dest
    token,     \* token_
    payload,   \* payload_buffer_
    response,  \* response_buffer_
    access,    \* the access token in flash, 0 if there is none
    exchange,  \* how far the perform being served has come
    got        \* (history) what the server has received in it

sessionVars == <<holder, stage, question, answer, secured>>
callVars    == <<pc, request, status, reply>>
bufferVars  == <<token, payload, response>>
serverVars  == <<exchange, got>>
apiVars     == <<sessionVars, callVars, bufferVars, access, serverVars>>

Tasks   == Callers \cup {Auth}
Session == INSTANCE SessionService

Labels    == {"idle", "acquire", "unwind", "connect", "connecting", "token", "pack", "perform",
              "performing", "log", "unpack", "release", "give", "done"}
Statuses  == {"ok", "remote", "local"}   \* GRPC_STATUS_OK, the server's, LOCAL_ERROR
Exchanges == {"none", "received", "answered"}

ApiTypeOK(Message) ==
    /\ Session!TypeOK
    /\ pc \in [Callers -> Labels]
    /\ status \in [Callers -> Statuses]
    /\ \A t \in Callers : {request[t], reply[t]} \subseteq Message \cup {None}
    /\ {payload, response} \subseteq Message \cup {None}
    /\ {token, access} \subseteq 0 .. MaxTokens
    /\ exchange \in Exchanges

ApiInit ==
    /\ Session!Init
    /\ pc = [t \in Callers |-> "idle"]
    /\ request = [t \in Callers |-> None] /\ reply = [t \in Callers |-> None]
    /\ status = [t \in Callers |-> "local"]
    /\ token = 0 /\ payload = None /\ response = None
    /\ exchange = "none" /\ got = None
    /\ access \in {0, 1}

\* Of all this only flash outlives a restart.
Restart ==
    /\ holder' = None /\ secured' = FALSE
    /\ stage' = [t \in Tasks |-> "out"]
    /\ question' = [t \in Tasks |-> None] /\ answer' = [t \in Tasks |-> None]
    /\ pc' = [t \in Callers |-> "idle"]
    /\ request' = [t \in Callers |-> None] /\ reply' = [t \in Callers |-> None]
    /\ status' = [t \in Callers |-> "local"]
    /\ token' = 0 /\ payload' = None /\ response' = None
    /\ exchange' = "none" /\ got' = None
    /\ UNCHANGED access

Go(t, from, to) == pc[t] = from /\ pc' = [pc EXCEPT ![t] = to]

-----------------------------------------------------------------------------
(* ganymede_api_v2_perform_                                                *)

CallApi(t, message) ==
    /\ Go(t, "idle", "acquire")
    /\ Session!Want(t)
    /\ request' = [request EXCEPT ![t] = message]
    /\ status' = [status EXCEPT ![t] = "local"]
    /\ reply' = [reply EXCEPT ![t] = None]
    /\ UNCHANGED <<bufferVars, access, serverVars>>

\* Acquiring can fail after the mutex is taken; then it is given back at once.
Acquire(t) ==
    /\ Session!Grab(t)
    /\ Go(t, "acquire", "connect") \/ Go(t, "acquire", "unwind")
    /\ UNCHANGED <<request, status, reply, bufferVars, access, serverVars>>

Unwind(t) ==
    /\ Go(t, "unwind", "done")
    /\ Session!Drop(t)
    /\ UNCHANGED <<request, status, reply, bufferVars, access, serverVars>>

Connect(t) ==
    /\ Go(t, "connect", "connecting")
    /\ Session!Ask(t, "connect")
    /\ UNCHANGED <<request, status, reply, bufferVars, access, serverVars>>

Connected(t) ==
    /\ Go(t, "connecting", IF answer[t] = "ok" THEN "token" ELSE "release")
    /\ Session!Collect(t)
    /\ UNCHANGED <<request, status, reply, bufferVars, access, serverVars>>

\* auth_get_token fails as long as no token is stored.
CopyToken(t) ==
    /\ Go(t, "token", IF access # 0 THEN "pack" ELSE "release")
    /\ token' = IF access # 0 THEN access ELSE token
    /\ UNCHANGED <<sessionVars, request, status, reply, payload, response, access, serverVars>>

\* ganymede_api_v2_pack_protobuf_
Pack(t) ==
    /\ Go(t, "pack", "perform")
    /\ payload' = request[t]
    /\ UNCHANGED <<sessionVars, request, status, reply, token, response, access, serverVars>>

Perform(t) ==
    /\ Go(t, "perform", "performing")
    /\ Session!Ask(t, "perform")
    /\ UNCHANGED <<request, status, reply, bufferVars, access, serverVars>>

\* A status other than OK is the server's or, when none has come, -1.
Performed(t) ==
    /\ Go(t, "performing", IF answer[t] = "ok" THEN "unpack" ELSE "log")
    /\ Session!Collect(t)
    /\ \E s \in IF answer[t] = "ok" THEN {"ok"} ELSE {"remote", "local"} :
          status' = [status EXCEPT ![t] = s]
    /\ UNCHANGED <<request, reply, bufferVars, access, serverVars>>

\* grpc_status_to_str: the names start with that of -1, so -1 itself is looked up
\* before the table.  What is read there may do (Log) or not (LogPanics).
Log(t) ==
    /\ Go(t, "log", "release")
    /\ UNCHANGED <<sessionVars, request, status, reply, bufferVars, access, serverVars>>

LogPanics(t) == pc[t] = "log" /\ status[t] = "local"

\* Only who reads the response has it unpacked.  Unpacking can fail, which leaves
\* NULL behind and the status at OK.
Unpack(t) ==
    /\ Go(t, "unpack", "release")
    /\ \E r \in {response, None} :
          reply' = IF t \in Readers THEN [reply EXCEPT ![t] = r] ELSE reply
    /\ UNCHANGED <<sessionVars, request, status, bufferVars, access, serverVars>>

Release(t) ==
    /\ Go(t, "release", "give")
    /\ Session!Discard(t)
    /\ UNCHANGED <<request, status, reply, bufferVars, access, serverVars>>

Give(t) ==
    /\ Go(t, "give", "done")
    /\ Session!Drop(t)
    /\ UNCHANGED <<request, status, reply, bufferVars, access, serverVars>>

\* The caller has its status, and frees request and response.
CallEnds(t) ==
    /\ Go(t, "done", "idle")
    /\ request' = [request EXCEPT ![t] = None]
    /\ reply' = [reply EXCEPT ![t] = None]
    /\ UNCHANGED <<sessionVars, bufferVars, access, serverVars>>

-----------------------------------------------------------------------------
(* http2_task_ and the server, as SessionService and Http2Perform show them *)

Secure(t) == Session!Secure(t) /\ UNCHANGED <<callVars, bufferVars, access, serverVars>>

Serving(t) == stage[t] = "asking" /\ question[t] = "perform"

\* The whole request is sent, from the buffers as they are now.
Deliver(t) ==
    /\ Serving(t) /\ secured
    /\ exchange = "none" /\ exchange' = "received"
    /\ got' = [token |-> token, message |-> payload]
    /\ UNCHANGED <<sessionVars, callVars, bufferVars, access>>

\* The whole response is stored, trailers included, or some of it.  Assumed of the server:
\* no message is empty.  A gRPC status of OK behind an empty body would leave the response
\* of an earlier call in response_buffer_, and have it unpacked.
Respond(t) ==
    /\ Serving(t)
    /\ exchange = "received"
    /\ \/ response' = got.message /\ exchange' = "answered"
       \/ response' = None /\ UNCHANGED exchange
    /\ UNCHANGED <<sessionVars, callVars, token, payload, access, got>>

\* Variant: the status of the call before is not reset.
ReplyUnreset(t) ==
    /\ Session!Reply(t)
    /\ exchange' = "none" /\ got' = None
    /\ UNCHANGED <<callVars, bufferVars, access>>

\* A perform succeeds only with its status, which is the response's last part.
Reply(t) ==
    /\ Session!Reply(t)
    /\ question[t] = "perform" /\ answer'[t] = "ok" => exchange = "answered"
    /\ exchange' = "none" /\ got' = None
    /\ UNCHANGED <<callVars, bufferVars, access>>

-----------------------------------------------------------------------------
(* auth_task, as far as the session and the tokens go                      *)

AuthIdle == UNCHANGED <<callVars, bufferVars, serverVars>>

AuthAcquires == (Session!Want(Auth) \/ Session!Grab(Auth)) /\ AuthIdle /\ UNCHANGED access

\* auth_write_credentials_to_storage_, before the session is released
AuthStores ==
    /\ stage[Auth] = "in"
    /\ access < MaxTokens /\ access' = access + 1
    /\ AuthIdle /\ UNCHANGED sessionVars

AuthReleases == Session!Drop(Auth) /\ AuthIdle /\ UNCHANGED access

-----------------------------------------------------------------------------
CallStep(t) == Acquire(t) \/ Unwind(t) \/ Connect(t) \/ Connected(t) \/ CopyToken(t) \/ Pack(t)
               \/ Perform(t) \/ Performed(t) \/ Log(t) \/ Unpack(t) \/ Release(t) \/ Give(t)

AuthTask == AuthAcquires \/ AuthStores \/ AuthReleases

\* What the server receives is what the task that holds the session has asked
\* for, under the token that is valid then; and what a task finds in its response
\* is the answer to its own request, although all of it goes through buffers that
\* the tasks share and nobody clears.
CallsKeepApart ==
    /\ exchange # "none" =>
          got = [token |-> access, message |-> request[holder]]
    /\ \A t \in Callers : reply[t] # None => status[t] = "ok" /\ reply[t] = request[t]
=============================================================================

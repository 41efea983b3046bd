-------------------------------- MODULE Auth --------------------------------
(***************************************************************************)
(* net/auth/auth.c: auth_task obtains OAuth tokens by an interactive       *)
(* registration, refreshes the access token when the timer asks for it,    *)
(* and keeps both tokens in flash.  Requests and connectivity reach it as  *)
(* event bits set by other tasks; responses reach it through one static    *)
(* buffer that no call clears.                                             *)
(*                                                                         *)
(* The authorization server numbers the access tokens it issues; a grant   *)
(* is one approved registration and names the refresh token that comes     *)
(* with it.  The HTTP/2 calls are those of module Http2Perform: a status,  *)
(* and whatever of the body made it into the buffer.                       *)
(***************************************************************************)
EXTENDS Naturals, Sequences

CONSTANTS
    MaxTokens,   \* access tokens the server issues
    MaxTicks,    \* times the refresh timer fires
    MaxCrashes,  \* power losses
    MaxDrops     \* times the network is lost

ASSUME BoundsAssumption == {MaxTokens, MaxTicks, MaxCrashes, MaxDrops} \subseteq Nat

VARIABLES
    pc,       \* where auth_task stands
    bits,     \* auth_event_group_
    status,   \* the status of the latest call of the refresh or registration
    buffer,   \* response_buffer_, as the JSON parser would see it
    parsed,   \* the tokens parsed out of it, about to be stored
    access,   \* "access-token" in flash: its number, 0 if absent
    refresh,  \* "refresh-token" in flash: its grant, 0 if absent
    issued,   \* the grant of every access token the server has issued
    grants,   \* registrations the server has approved
    owed,     \* (history) requests made since the task last took one up
    ticks, crashes, drops

ram   == <<pc, bits, status, buffer, parsed>>
flash == <<access, refresh>>
server == <<issued, grants>>
counts == <<ticks, crashes, drops>>
vars == <<ram, flash, server, owed, counts>>

Requests == {"refresh", "register"}
Bits     == Requests \cup {"connected"}
Statuses == {"none", "200", "error"}
Labels   == {"boot", "wait_connected", "wait_request",
             "refresh", "refresh_parse", "refresh_store", "refresh_failed", "refresh_done",
             "register", "polling", "register_parse", "store_access", "store_refresh",
             "register_done"}

\* The refresh token in a response to a refresh call is not looked at.
Token(a, r) == [kind |-> "token", access |-> a, refresh |-> r]
Other(kind) == [kind |-> kind, access |-> 0, refresh |-> 0]
Bodies == {Other(k) : k \in {"junk", "error", "device"}}
              \cup {Token(a, r) : a \in 1 .. MaxTokens, r \in 0 .. MaxTokens}

GrantOf(a) == IF a = 0 THEN 0 ELSE issued[a]

TypeOK ==
    /\ pc \in Labels /\ bits \subseteq Bits /\ status \in Statuses
    /\ buffer \in Bodies /\ parsed \in Bodies
    /\ access \in 0 .. Len(issued) /\ refresh \in 0 .. grants
    /\ issued \in Seq(1 .. MaxTokens) /\ grants \in 0 .. MaxTokens
    /\ owed \subseteq Requests
    /\ pc \in {"refresh_store", "store_access", "store_refresh"} => parsed.kind = "token"

\* Static storage after reset; auth_init sets the REFRESH bit.
PowerOn ==
    /\ pc' = "boot" /\ bits' = {"refresh"} /\ owed' = {"refresh"}
    /\ status' = "none" /\ buffer' = Other("junk") /\ parsed' = Other("junk")

Init ==
    /\ pc = "boot" /\ bits = {"refresh"} /\ owed = {"refresh"}
    /\ status = "none" /\ buffer = Other("junk") /\ parsed = Other("junk")
    /\ access = 0 /\ refresh = 0
    /\ issued = <<>> /\ grants = 0
    /\ ticks = 0 /\ crashes = 0 /\ drops = 0

Go(from, to) == pc = from /\ pc' = to

Working(r) == pc \in IF r = "refresh"
                     THEN {"refresh", "refresh_parse", "refresh_store", "refresh_failed", "refresh_done"}
                     ELSE {"register", "polling", "register_parse", "store_access",
                           "store_refresh", "register_done"}

-----------------------------------------------------------------------------
(* Other tasks: the event loop, esp_timer, the console, the power supply   *)

\* IP_EVENT_STA_GOT_IP; before the handler is registered nobody hears it.
GotIp ==
    /\ bits' = IF pc = "boot" THEN bits ELSE bits \cup {"connected"}
    /\ UNCHANGED <<pc, status, buffer, parsed, flash, server, owed, counts>>

\* WIFI_EVENT_STA_DISCONNECTED or IP_EVENT_STA_LOST_IP
LostIp ==
    /\ drops < MaxDrops
    /\ drops' = drops + 1
    /\ pc # "boot"
    /\ bits' = bits \ {"connected"}
    /\ UNCHANGED <<pc, status, buffer, parsed, flash, server, owed, ticks, crashes>>

\* A request that arrives while one of its kind is being served is merged into
\* it; any other is owed an attempt of its own.
Request(r) ==
    /\ bits' = bits \cup {r}
    /\ owed' = IF Working(r) THEN owed ELSE owed \cup {r}
    /\ UNCHANGED <<pc, status, buffer, parsed, flash, server>>

\* auth_timer_callback_
TimerCallback ==
    /\ ticks < MaxTicks
    /\ ticks' = ticks + 1
    /\ Request("refresh")
    /\ UNCHANGED <<crashes, drops>>

\* auth_request_register, from the console
RequestRegister ==
    /\ Request("register")
    /\ UNCHANGED counts

Crash ==
    /\ crashes < MaxCrashes
    /\ crashes' = crashes + 1
    /\ PowerOn
    /\ UNCHANGED <<flash, server, ticks, drops>>

-----------------------------------------------------------------------------
(* auth_task_                                                              *)

RegisterHandlers ==
    /\ Go("boot", "wait_connected")
    /\ UNCHANGED <<bits, status, buffer, parsed, flash, server, owed, counts>>

WaitConnected ==
    /\ "connected" \in bits
    /\ Go("wait_connected", "wait_request")
    /\ UNCHANGED <<bits, status, buffer, parsed, flash, server, owed, counts>>

\* Variant: the task only looks for refresh requests.
WaitRefreshOnly ==
    /\ "refresh" \in bits
    /\ \/ /\ "connected" \notin bits
          /\ Go("wait_request", "wait_connected")
          /\ UNCHANGED owed
       \/ /\ "connected" \in bits
          /\ Go("wait_request", "refresh")
          /\ owed' = owed \ {"refresh"}
    /\ status' = "none"
    /\ UNCHANGED <<bits, buffer, parsed, flash, server, counts>>

\* A refresh goes before a registration; without network, back to the top.
WaitRequest ==
    /\ bits \cap Requests # {}
    /\ \/ /\ "connected" \notin bits
          /\ Go("wait_request", "wait_connected")
          /\ UNCHANGED owed
       \/ /\ {"connected", "refresh"} \subseteq bits
          /\ Go("wait_request", "refresh")
          /\ owed' = owed \ {"refresh"}
       \/ /\ "connected" \in bits /\ "refresh" \notin bits
          /\ Go("wait_request", "register")
          /\ owed' = owed \ {"register"}
    /\ status' = "none"
    /\ UNCHANGED <<bits, buffer, parsed, flash, server, counts>>

\* Variant: both request bits are cleared after either kind of work.
ClearBoth ==
    /\ Go("refresh_failed", "wait_connected") \/ Go("refresh_done", "wait_connected")
          \/ Go("register_done", "wait_connected")
    /\ bits' = bits \ Requests
    /\ UNCHANGED <<status, buffer, parsed, flash, server, owed, counts>>

\* The request bit is cleared when the work is over, whatever came of it.
Clear ==
    /\ \/ /\ Go("refresh_failed", "wait_connected") \/ Go("refresh_done", "wait_connected")
          /\ bits' = bits \ {"refresh"}
       \/ /\ Go("register_done", "wait_connected")
          /\ bits' = bits \ {"register"}
    /\ UNCHANGED <<status, buffer, parsed, flash, server, owed, counts>>

-----------------------------------------------------------------------------
(* http2_perform, as auth.c sees it                                        *)

\* A call without a body leaves the buffer as it was.
Fails ==
    /\ status' \in {"none", "error"}
    /\ buffer' \in {buffer, Other("error"), Other("junk")}
    /\ UNCHANGED server

\* The server answers with `body'; all of it, part of it or none arrives.
Answers(body) ==
    /\ status' = "200"
    /\ buffer' \in {body, Other("junk"), buffer}

-----------------------------------------------------------------------------
(* auth_perform_refresh_                                                   *)

\* No session, no refresh token in flash, or no connection.
RefreshGivesUp ==
    /\ Go("refresh", "refresh_failed")
    /\ UNCHANGED <<bits, status, buffer, parsed, flash, server, owed, counts>>

\* The test on the status is inverted: 200 ends the refresh with ESP_FAIL, and
\* after any other outcome response_buffer_ is parsed.
RefreshPerform ==
    /\ refresh # 0
    /\ \/ /\ Go("refresh", "refresh_failed")
          /\ Len(issued) < MaxTokens
          /\ issued' = Append(issued, refresh)
          /\ UNCHANGED grants
          /\ Answers(Token(Len(issued) + 1, 0))
       \/ /\ Go("refresh", "refresh_parse")
          /\ Fails
    /\ UNCHANGED <<bits, parsed, flash, owed, counts>>

\* Variant: the result of the parser is not checked.
RefreshParseUnchecked ==
    /\ Go("refresh_parse", "refresh_store")
    /\ parsed' = IF buffer.kind = "token" THEN buffer ELSE parsed
    /\ UNCHANGED <<bits, status, buffer, flash, server, owed, counts>>

RefreshParse ==
    /\ \/ /\ buffer.kind = "token"
          /\ Go("refresh_parse", "refresh_store")
          /\ parsed' = buffer
       \/ /\ buffer.kind # "token"
          /\ Go("refresh_parse", "refresh_failed")
          /\ UNCHANGED parsed
    /\ UNCHANGED <<bits, status, buffer, flash, server, owed, counts>>

\* nvs_set_str can fail; nobody looks.
RefreshStore ==
    /\ Go("refresh_store", "refresh_done")
    /\ access' \in {access, parsed.access}
    /\ UNCHANGED <<bits, status, buffer, parsed, refresh, server, owed, counts>>

-----------------------------------------------------------------------------
(* auth_perform_interactive_register_ and auth_perform_wait_for_token_     *)

\* No session or no connection.
RegisterGivesUp ==
    /\ Go("register", "register_done")
    /\ UNCHANGED <<bits, status, buffer, parsed, flash, server, owed, counts>>

\* The device code is parsed from the buffer after a 2xx.
RequestDeviceCode ==
    /\ \/ Answers(Other("device")) /\ UNCHANGED server
       \/ Fails
    /\ Go("register", IF status' = "200" /\ buffer'.kind = "device" THEN "polling"
                      ELSE "register_done")
    /\ UNCHANGED <<bits, parsed, flash, owed, counts>>

\* The user has approved the device: a new grant, with both tokens.
TokenGranted ==
    /\ Len(issued) < MaxTokens
    /\ Go("polling", "register_parse")
    /\ grants' = grants + 1
    /\ issued' = Append(issued, grants + 1)
    /\ Answers(Token(Len(issued) + 1, grants + 1))
    /\ UNCHANGED <<bits, parsed, flash, owed, counts>>

TokenPending ==
    /\ pc = "polling"
    /\ Fails
    /\ UNCHANGED <<pc, bits, parsed, flash, owed, counts>>

\* Variant: polling stops when the server says so, not by the clock.
ExpireOnError ==
    /\ status = "error"
    /\ Go("polling", "register_done")
    /\ UNCHANGED <<bits, status, buffer, parsed, flash, server, owed, counts>>

\* The device code has expired: the loop ends on the status of its last call.
Expire ==
    /\ Go("polling", "register_done")
    /\ UNCHANGED <<bits, status, buffer, parsed, flash, server, owed, counts>>

\* Both tokens must be in the response.
RegisterParse ==
    /\ \/ /\ buffer.kind = "token" /\ buffer.refresh # 0
          /\ Go("register_parse", "store_access")
          /\ parsed' = buffer
       \/ /\ ~(buffer.kind = "token" /\ buffer.refresh # 0)
          /\ Go("register_parse", "register_done")
          /\ UNCHANGED parsed
    /\ UNCHANGED <<bits, status, buffer, flash, server, owed, counts>>

\* Variant: an error of the first write does not stop the second.
StoreAccessRegardless ==
    /\ Go("store_access", "store_refresh")
    /\ access' \in {access, parsed.access}
    /\ UNCHANGED <<bits, status, buffer, parsed, refresh, server, owed, counts>>

\* auth_write_credentials_to_storage_: access token first, and no refresh token
\* if that fails.
StoreAccess ==
    /\ \/ Go("store_access", "store_refresh") /\ access' = parsed.access
       \/ Go("store_access", "register_done") /\ UNCHANGED access
    /\ UNCHANGED <<bits, status, buffer, parsed, refresh, server, owed, counts>>

StoreRefresh ==
    /\ Go("store_refresh", "register_done")
    /\ refresh' \in {refresh, parsed.refresh}
    /\ UNCHANGED <<bits, status, buffer, parsed, access, server, owed, counts>>

-----------------------------------------------------------------------------
Refreshing  == RefreshGivesUp \/ RefreshPerform \/ RefreshParse \/ RefreshStore
Registering == RegisterGivesUp \/ RequestDeviceCode \/ TokenGranted \/ TokenPending
               \/ RegisterParse \/ StoreAccess \/ StoreRefresh
AuthTask == RegisterHandlers \/ WaitConnected \/ WaitRequest \/ Clear \/ Refreshing \/ Registering

Next ==
    \/ AuthTask \/ Expire
    \/ GotIp \/ LostIp \/ TimerCallback \/ RequestRegister \/ Crash

Spec == Init /\ [][Next]_vars

\* auth_task runs whenever it is ready, and a device code expires in the end.
FairSpec == Spec /\ WF_vars(AuthTask) /\ WF_vars(Expire)

-----------------------------------------------------------------------------
(* What must hold                                                          *)

\* The access token in flash never comes from an older registration than the
\* refresh token beside it, although the two are written one after the other
\* and a write, or the power, can fail in between: the next refresh is made
\* with a grant that the device has already begun to use.
CredentialsPaired == refresh # 0 => GrantOf(access) >= refresh

\* A stored access token is only ever replaced by one issued later, and never
\* by what an unparsable response left behind.
AccessNeverGoesBack == [][access' >= access]_vars

\* A request made while no attempt of its kind is in progress is still on
\* record in the event group until auth_task takes it up.
RequestsOnRecord == owed \subseteq bits

\* On a connection that stays up, every such request is taken up, whichever
\* order refreshes and registrations are asked for in.
RequestsServed ==
    <>[]("connected" \in bits) =>
        \A r \in Requests : r \in owed ~> r \notin owed

\* No attempt occupies auth_task (and with it the HTTP/2 session) for ever.
AttemptsEnd == \A r \in Requests : Working(r) ~> ~Working(r)

\* auth.c:47: "EventBit: a refresh of the access token is requested".  A refresh
\* that the server answered with 200 and the token it has just issued is not
\* given up on.
RefreshTakesEffect ==
    pc = "refresh_failed" =>
        ~(status = "200" /\ buffer.kind = "token" /\ buffer.access = Len(issued))
=============================================================================

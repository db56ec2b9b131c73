------------------------------ MODULE ApiGateway ------------------------------
(***************************************************************************)
(* The API gateway: the rate limiter's counters in Redis, the check of the *)
(* token, the routing table and the proxied call, which may time out after *)
(* the service has acted.  A client repeats a request it got no answer to. *)
(***************************************************************************)
EXTENDS Naturals, FiniteSets

CONSTANTS
    Clients,      \* requests in flight, of one address and route group
    Limit,        \* the group's requests per minute plus the burst
    MaxMinutes,   \* bound: minutes
    MaxRequests   \* bound: attempts of each client

ASSUME GatewayAssumption ==
    Limit \in Nat \ {0} /\ MaxMinutes \in Nat /\ MaxRequests \in Nat

VARIABLES
    minute,    \* int(time.time() // 60)
    count,     \* rl:{ip}:{group}:{minute} in Redis, 0 while the key is not there
    ttl,       \* whether the key has its expiry
    counted,   \* requests counted and let through in the minute they were counted for
    call,      \* each client's request
    executed   \* how often the service has acted on it

gatewayVars == <<minute, count, ttl, counted, call, executed>>

-----------------------------------------------------------------------------
(* The routing table: what each service is asked for.  A path stands for    *)
(* its /v1 twin as well.                                                    *)

Calls(method, paths) == {<<method, p>> : p \in paths}

AuthProxy ==
    Calls("POST", {"/auth/signup", "/auth/login", "/auth/refresh",
        "/auth/device/code", "/auth/device/token", "/auth/logout",
        "/auth/device/verify", "/auth/phone/send-otp", "/auth/phone/verify-otp"})
    \cup Calls("GET", {"/auth/cli/version", "/auth/me"})

HostProxy ==
    Calls("POST", {"/hosts/register", "/hosts/heartbeat", "/hosts/{}/benchmarks",
        "/hosts/{}/benchmarks/rerun"})
    \cup Calls("GET", {"/hosts/{}", "/hosts/{}/benchmarks",
        "/hosts/agent/releases/latest", "/hosts/{}/health"})

MarketplaceProxy ==
    Calls("POST", {"/listings"})
    \cup Calls("GET", {"/listings", "/search/listings", "/listings/{}"})
    \cup Calls("PATCH", {"/listings/{}"}) \cup Calls("DELETE", {"/listings/{}"})

WalletProxy ==
    Calls("GET", {"/wallet/balance", "/wallet/transactions", "/billing/invoices",
        "/billing/invoices/{}"})
    \cup Calls("POST", {"/wallet/topup", "/billing/webhooks/stripe",
        "/wallet/topup/upi", "/billing/webhooks/razorpay"})

InstanceProxy ==
    Calls("POST", {"/v1/instances", "/v1/instances/{}/stop",
        "/v1/instances/{}/start", "/v1/instances/{}/terminate"})
    \cup Calls("GET", {"/v1/instances", "/v1/instances/{}",
        "/v1/instances/{}/connection", "/v1/instances/{}/deletion-receipt"})

TemplateProxy ==
    Calls("GET", {"/v1/templates", "/v1/templates/{}", "/v1/instances/{}/web-ui"})
    \cup Calls("POST", {"/v1/templates"})

SecurityProxy ==
    Calls("POST", {"/v1/admin/kill-switch", "/v1/identity/verify/id-document",
        "/v1/security/fingerprint"})
    \cup Calls("GET", {"/v1/admin/security-events", "/v1/users/{}/trust-tier"})
    \cup Calls("PUT", {"/v1/admin/users/{}/trust-tier"})

\* The last one is the copilot's WebSocket, asked for as a plain GET.
CopilotProxy ==
    Calls("POST", {"/v1/router/recommend", "/v1/copilot/chat"})
    \cup Calls("GET", {"/v1/copilot/sessions/{}/history", "/v1/copilot/ws/{}"})

ReputationProxy ==
    Calls("GET", {"/v1/hosts/{}/dashboard", "/v1/hosts/{}/reputation",
        "/v1/pricing/suggest"})

NotificationProxy ==
    Calls("GET", {"/notifications", "/notifications/preferences", "/support/tickets"})
    \cup Calls("POST", {"/notifications/{}/read", "/notifications/mark-all-read",
        "/support/tickets"})
    \cup Calls("PUT", {"/notifications/preferences"})

\* Without Depends(require_auth).
Public ==
    Calls("POST", {"/auth/signup", "/auth/login", "/auth/refresh",
        "/auth/device/code", "/auth/device/token", "/hosts/heartbeat",
        "/billing/webhooks/stripe", "/billing/webhooks/razorpay",
        "/v1/router/recommend"})
    \cup Calls("GET", {"/auth/cli/version", "/hosts/agent/releases/latest",
        "/listings", "/search/listings", "/listings/{}", "/v1/templates",
        "/v1/templates/{}", "/v1/hosts/{}/reputation"})

Routes == AuthProxy \cup HostProxy \cup MarketplaceProxy \cup WalletProxy
    \cup InstanceProxy \cup TemplateProxy \cup SecurityProxy \cup CopilotProxy
    \cup ReputationProxy \cup NotificationProxy

\* All that a client's behaviour depends on is whether its route is public.
SampleRoutes == {CHOOSE r \in Routes \cap Public : TRUE, CHOOSE r \in Routes \ Public : TRUE}

-----------------------------------------------------------------------------

Call   == [at: {"idle", "keyed", "passed", "forwarded", "acted"},
           minute: 0..MaxMinutes, route: SampleRoutes, token: BOOLEAN,
           tries: 0..MaxRequests, answer: {"none", "429", "401", "502", "ok"}]
Quiet  == [at |-> "idle", minute |-> 0, route |-> CHOOSE r \in SampleRoutes : TRUE,
           token |-> FALSE, tries |-> 0, answer |-> "none"]

GatewayInit ==
    /\ minute = 0
    /\ count = [m \in 0..MaxMinutes |-> 0] /\ ttl = [m \in 0..MaxMinutes |-> FALSE]
    /\ counted = [m \in 0..MaxMinutes |-> 0]
    /\ call = [c \in Clients |-> Quiet]
    /\ executed = [c \in Clients |-> 0]

NextMinute ==
    /\ minute < MaxMinutes
    /\ minute' = minute + 1
    /\ UNCHANGED <<count, ttl, counted, call, executed>>

\* 65 seconds after its first request a key is gone: its minute is over by then.
KeyExpires(m) ==
    /\ ttl[m] /\ m < minute
    /\ count' = [count EXCEPT ![m] = 0] /\ ttl' = [ttl EXCEPT ![m] = FALSE]
    /\ UNCHANGED <<minute, counted, call, executed>>

\* dispatch forms the key; the answer to the last attempt was none, or a failure.
Arrive(c, route, token) ==
    /\ call[c].at = "idle" /\ call[c].answer # "ok" /\ call[c].tries < MaxRequests
    /\ call' = [call EXCEPT ![c] = [at |-> "keyed", minute |-> minute, route |-> route,
                   token |-> token, tries |-> @.tries + 1, answer |-> "none"]]
    /\ executed' = [executed EXCEPT ![c] = 0]
    /\ UNCHANGED <<minute, count, ttl, counted>>

Answer(c, a) == call' = [call EXCEPT ![c].at = "idle", ![c].answer = a]

MUT_CountRequest(c) ==
    LET m == call[c].minute
        n == count[m]
    IN
    /\ call[c].at = "keyed"
    /\ IF n > Limit
       THEN Answer(c, "429") /\ UNCHANGED <<counted, count>>
       ELSE /\ call' = [call EXCEPT ![c].at = "passed"]
            /\ count' = [count EXCEPT ![m] = n + 1]
            /\ counted' = [counted EXCEPT ![m] = IF m = minute THEN @ + 1 ELSE @]
    /\ UNCHANGED <<minute, executed, ttl>>

\* INCR, and EXPIRE after the first one: a failure of EXPIRE is let pass.
CountRequest(c) ==
    LET m == call[c].minute
        n == count[m] + 1
    IN
    /\ call[c].at = "keyed"
    /\ count' = [count EXCEPT ![m] = n]
    /\ \/ n = 1 /\ ttl' = [ttl EXCEPT ![m] = TRUE]
       \/ UNCHANGED ttl
    /\ IF n > Limit
       THEN Answer(c, "429") /\ UNCHANGED counted
       ELSE /\ call' = [call EXCEPT ![c].at = "passed"]
            /\ counted' = [counted EXCEPT ![m] = IF m = minute THEN @ + 1 ELSE @]
    /\ UNCHANGED <<minute, executed>>

\* Redis does not answer: the limiter fails open.
RedisAway(c) ==
    /\ call[c].at = "keyed"
    /\ call' = [call EXCEPT ![c].at = "passed"]
    /\ UNCHANGED <<minute, count, ttl, counted, executed>>

MUT_Authorize(c) ==
    /\ call[c].at = "passed"
    /\ call' = [call EXCEPT ![c].at = "forwarded"]
    /\ UNCHANGED <<minute, count, ttl, counted, executed>>

Authorize(c) ==
    /\ call[c].at = "passed"
    /\ IF call[c].route \in Public \/ call[c].token
       THEN call' = [call EXCEPT ![c].at = "forwarded"]
       ELSE Answer(c, "401")
    /\ UNCHANGED <<minute, count, ttl, counted, executed>>

ServiceActs(c) ==
    /\ call[c].at = "forwarded"
    /\ call' = [call EXCEPT ![c].at = "acted"]
    /\ executed' = [executed EXCEPT ![c] = @ + 1]
    /\ UNCHANGED <<minute, count, ttl, counted>>

ProxyAnswers(c) ==
    /\ call[c].at = "acted"
    /\ Answer(c, "ok")
    /\ UNCHANGED <<minute, count, ttl, counted, executed>>

\* The service is away, or 30 seconds pass before or after it has acted: 502.
ProxyFails(c) ==
    /\ call[c].at \in {"forwarded", "acted"}
    /\ Answer(c, "502")
    /\ UNCHANGED <<minute, count, ttl, counted, executed>>

-----------------------------------------------------------------------------

GatewayNext ==
    \/ NextMinute
    \/ \E m \in 0..MaxMinutes : KeyExpires(m)
    \/ \E c \in Clients :
          \/ \E r \in SampleRoutes, t \in BOOLEAN : Arrive(c, r, t)
          \/ CountRequest(c) \/ RedisAway(c) \/ Authorize(c)
          \/ ServiceActs(c) \/ ProxyAnswers(c) \/ ProxyFails(c)

GatewaySpec == GatewayInit /\ [][GatewayNext]_gatewayVars

-----------------------------------------------------------------------------
(* Properties that hold *)

\* Every variable keeps its type.
GatewayTypeOK ==
    /\ minute \in 0..MaxMinutes
    /\ count \in [0..MaxMinutes -> Nat] /\ ttl \in [0..MaxMinutes -> BOOLEAN]
    /\ counted \in [0..MaxMinutes -> Nat]
    /\ call \in [Clients -> Call] /\ executed \in [Clients -> Nat]

\* While Redis counts, no minute lets through more than its limit: keys outlive
\* their minute and requests in parallel get different counts.
MinuteIsLimited == \A m \in 0..MaxMinutes : counted[m] <= Limit

\* A service acts at most once on an attempt, after the token was checked; whoever
\* is answered "ok" had it act, and a refused request never reached it.
ActsOnceIfAllowed ==
    \A c \in Clients :
        /\ executed[c] <= 1
        /\ executed[c] = 1 => call[c].route \in Public \/ call[c].token
        /\ call[c].answer = "ok" => executed[c] = 1
        /\ call[c].answer \in {"401", "429"} => executed[c] = 0
=============================================================================

--------------------------- MODULE RequestPipeline ---------------------------
(***************************************************************************)
(* The way of a request through the layers create_app puts around the      *)
(* routers (main.py): the framework's catch-all outside, then              *)
(* RequestContextMiddleware (observability.py), then the handlers that     *)
(* turn exceptions into responses (error_handlers.py, exceptions.py).      *)
(*                                                                         *)
(* A handler can answer, raise before or after its response has started    *)
(* (streams), or be cancelled because the caller has gone.                 *)
(***************************************************************************)
EXTENDS Integers, Sequences, Selection

\* The bases of the gateway's exceptions, as far as a handler is registered for them.
Parent == [
    AgntSparkError |-> "Exception", AuthenticationError |-> "AgntSparkError",
    AuthorisationError |-> "AgntSparkError", EmailAlreadyRegisteredError |-> "AgntSparkError",
    NotFoundError |-> "AgntSparkError", ApiKeyNotFoundError |-> "NotFoundError",
    AgentNotFoundError |-> "NotFoundError", AccessKeyNotFoundError |-> "NotFoundError",
    NotImplementedStubError |-> "AgntSparkError", BuildNotSupportedError |-> "AgntSparkError",
    RateLimitExceededError |-> "AgntSparkError", QuotaExceededError |-> "AgntSparkError",
    BillingNotConfiguredError |-> "AgntSparkError", BillingConflictError |-> "AgntSparkError",
    InvalidWebhookError |-> "AgntSparkError", UserNotFoundError |-> "NotFoundError",
    RegistrationClosedError |-> "AgntSparkError", InvalidInviteError |-> "AgntSparkError",
    InviteNotFoundError |-> "NotFoundError", DeploymentFailedError |-> "AgntSparkError",
    SecretDecryptionError |-> "AgntSparkError", RequestValidationError |-> "Exception"]

_STATUS_MAP == <<
    <<"AuthenticationError", 401>>, <<"AuthorisationError", 403>>, <<"InvalidInviteError", 403>>,
    <<"QuotaExceededError", 403>>, <<"InvalidWebhookError", 400>>, <<"BillingConflictError", 409>>,
    <<"BillingNotConfiguredError", 503>>, <<"RegistrationClosedError", 403>>,
    <<"NotFoundError", 404>>, <<"ApiKeyNotFoundError", 404>>, <<"EmailAlreadyRegisteredError", 409>>,
    <<"RateLimitExceededError", 429>>, <<"NotImplementedStubError", 501>>,
    <<"BuildNotSupportedError", 501>>, <<"DeploymentFailedError", 502>> >>

\* The class and its bases, the nearest first; no class is further than three away.
Bases(e) ==
    LET up(c) == IF c \in DOMAIN Parent THEN Parent[c] ELSE "Exception"
    IN  <<e, up(e), up(up(e)), "Exception">>
isinstance(e, class) == \E i \in 1 .. 4 : Bases(e)[i] = class

\* Mutant of _status_for: the exact class is looked up.
_status_for_exactly(e) ==
    LET hits == {i \in DOMAIN _STATUS_MAP : e = _STATUS_MAP[i][1]}
    IN  IF hits = {} THEN 500 ELSE _STATUS_MAP[CHOOSE i \in hits : \A j \in hits : i <= j][2]

\* The first entry that matches; an error without one is an internal failure.
_status_for(e) ==
    LET hits == {i \in DOMAIN _STATUS_MAP : isinstance(e, _STATUS_MAP[i][1])}
    IN  IF hits = {} THEN 500 ELSE _STATUS_MAP[CHOOSE i \in hits : \A j \in hits : i <= j][2]

-----------------------------------------------------------------------------
VARIABLES
    stage,      \* "new", "handling", "raised" (past the inner layers) or "over"
    id,         \* the request id assigned
    quiet,      \* the path is one of _QUIET_PATHS
    status,     \* the status of the response that was started, or 0
    headers,    \* its headers, as names with values
    statusCode, \* the middleware's status_code
    logged,     \* the status on the access log line, or 0
    error       \* history: the exception the handler raised, or "none"

pipeVars == <<stage, id, quiet, status, headers, statusCode, logged, error>>

\* Mutant of PipeInit: the middleware expects success.
PipeInitHopeful ==
    /\ stage = "new" /\ id = "none" /\ quiet \in BOOLEAN /\ status = 0 /\ headers = <<>>
    /\ statusCode = 200 /\ logged = 0 /\ error = "none"

PipeInit ==
    /\ stage = "new" /\ id = "none" /\ quiet \in BOOLEAN /\ status = 0 /\ headers = <<>>
    /\ statusCode = 500 /\ logged = 0 /\ error = "none"

\* request_id_for: the caller's id if it is well-formed, otherwise a new one.
ReceiveRequest(wellFormed) ==
    /\ stage = "new" /\ stage' = "handling"
    /\ id' = IF wellFormed THEN "callers" ELSE "generated"
    /\ UNCHANGED <<quiet, status, headers, statusCode, logged, error>>

\* A response starts on its way out: an id header of its own is replaced.
send_with_id(code, own) ==
    /\ status' = code /\ statusCode' = code
    /\ headers' = Append(Keep(own, {i \in DOMAIN own : own[i][1] # "x-request-id"}), <<"x-request-id", id>>)

\* The access log line, in the middleware's `finally'; probes and scrapes have none.
WriteLog == logged' = IF quiet THEN logged ELSE statusCode

\* The handler starts its response, with 200 for any status it chooses itself.
StartResponse(own) ==
    /\ stage = "handling" /\ status = 0
    /\ send_with_id(200, own)
    /\ UNCHANGED <<stage, id, quiet, logged, error>>

EndResponse ==
    /\ stage = "handling" /\ status # 0
    /\ stage' = "over" /\ WriteLog
    /\ UNCHANGED <<id, quiet, status, headers, statusCode, error>>

\* The header that agntspark_error_handler adds to errors with a retry_after.
RetryAfter == <<"retry-after", "seconds">>

\* A registered handler answers, unless the response has started; any other
\* exception, and one that comes too late, goes through the middleware.
HandlerRaises(e) ==
    /\ stage = "handling" /\ error = "none" /\ error' = e
    /\ IF e \in DOMAIN Parent /\ status = 0
       THEN /\ send_with_id(IF e = "RequestValidationError" THEN 422 ELSE _status_for(e),
                            IF e = "RateLimitExceededError" THEN <<RetryAfter>> ELSE <<>>)
            /\ UNCHANGED <<stage, logged>>
       ELSE /\ stage' = "raised" /\ WriteLog
            /\ UNCHANGED <<status, headers, statusCode>>
    /\ UNCHANGED <<id, quiet>>

\* Mutant of unhandled_error_handler: the id is left to the middleware.
unhandled_without_id ==
    /\ stage = "raised" /\ stage' = "over"
    /\ IF status = 0 THEN status' = 500 /\ headers' = <<>> ELSE UNCHANGED <<status, headers>>
    /\ UNCHANGED <<id, quiet, statusCode, logged, error>>

\* The catch-all, outside the middleware, answers if nothing was sent yet.
unhandled_error_handler ==
    /\ stage = "raised" /\ stage' = "over"
    /\ IF status = 0 THEN status' = 500 /\ headers' = << <<"x-request-id", id>> >>
                     ELSE UNCHANGED <<status, headers>>
    /\ UNCHANGED <<id, quiet, statusCode, logged, error>>

\* The caller goes away and the handler is cancelled.
CallerLeaves ==
    /\ stage = "handling" /\ stage' = "over"
    /\ WriteLog
    /\ UNCHANGED <<id, quiet, status, headers, statusCode, error>>

PipeNext ==
    \/ \E wellFormed \in BOOLEAN : ReceiveRequest(wellFormed)
    \/ \E own \in {<<>>, << <<"x-request-id", "own">> >>, <<RetryAfter>>} : StartResponse(own)
    \/ \E e \in DOMAIN Parent \cup {"Exception"} : HandlerRaises(e)
    \/ EndResponse \/ unhandled_error_handler \/ CallerLeaves

PipeSpec == PipeInit /\ [][PipeNext]_pipeVars

-----------------------------------------------------------------------------
\* main.py: the request id covers error responses too.  Whatever answers, from
\* whichever layer, its headers name the request's id, once.
EveryAnswerHasItsId ==
    status # 0 =>
        \E i \in DOMAIN headers :
            /\ headers[i] = <<"x-request-id", id>>
            /\ \A j \in DOMAIN headers : headers[j][1] = "x-request-id" => j = i

\* The access log tells what the caller got: its one line has the status of the
\* response, for errors answered outside the middleware and for streams that break.
LogTellsTheStatus == stage = "over" /\ status # 0 /\ logged # 0 => logged = status

\* exceptions.py and error_handlers.py: an error without a code of its own is answered
\* with that of its nearest base that has one, wherever that stands in the map.
CodeOfNearestBase ==
    status # 0 /\ error \in DOMAIN Parent \ {"RequestValidationError"} /\ status # 200 =>
        LET coded == {i \in 1 .. 4 : \E m \in DOMAIN _STATUS_MAP : _STATUS_MAP[m][1] = Bases(error)[i]}
            nearest == CHOOSE i \in coded : \A j \in coded : i <= j
        IN  IF coded = {} THEN status = 500
            ELSE \E m \in DOMAIN _STATUS_MAP : _STATUS_MAP[m] = <<Bases(error)[nearest], status>>
=============================================================================

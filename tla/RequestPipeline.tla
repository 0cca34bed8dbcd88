---------------------------- MODULE RequestPipeline ----------------------------
(***************************************************************************)
(* What happens to every HTTP request around its route, as main.py wires   *)
(* it: CORS, RequestID, AuthContext, SlowAPI, AccessLog, then the route,   *)
(* whose exceptions become answers in exception_handlers.py; and the       *)
(* counters of the rate limiter, which live in the process.                *)
(*                                                                         *)
(* The limiter counts in fixed windows that open at the first hit, one per *)
(* caller and path.  A route with its own limit is counted inside the      *)
(* route, once its body is valid; the others in the middleware, except an  *)
(* exempt one.  A route itself is reduced to how it may end.               *)
(***************************************************************************)
EXTENDS Naturals, Sequences, FiniteSets, Settings

CONSTANTS Requests,
          Users, Ips,     \* who a bearer token names, where requests come from
          None,
          Environments,   \* what the process may be started with
          Limit,          \* by route, per Window: rate_limit_default, or its own
          Window,         \* the ticks of a window
          MaxTime         \* bound on the clock

VARIABLES
    conf,      \* the settings of the running process, None if it is down
    clock,     \* the time, in ticks
    window,    \* window[k]: the counter of the limiter for k, None if there is none
    req,       \* req[r]: a request
    answer,    \* the answer the last step has sent, None if it sent none
    admitted   \* the hits the limiter has let through (history)

vars == <<conf, clock, window, req, answer, admitted>>

Routes == {"plain", "limited", "exempt"}
Keys == (Users \cup Ips) \X DOMAIN Limit

NoRequest == [at |-> "unused", route |-> "none", user |-> None, ip |-> None,
              code |-> "none", lines |-> <<>>]
Done == [NoRequest EXCEPT !.at = "answered"]

Silent == answer' = None

Init ==
    /\ conf = None /\ clock = 0
    /\ window = [k \in Keys |-> None]
    /\ req = [r \in Requests |-> NoRequest] /\ answer = None
    /\ admitted = {}

-----------------------------------------------------------------------------
(* The process *)

Start(e) ==
    /\ conf = None
    /\ Starts(e)
    /\ conf' = Load(e)
    /\ Silent /\ UNCHANGED <<clock, window, req, admitted>>

\* The process ends: the counters and the requests in flight are gone.
Stop ==
    /\ conf # None
    /\ conf' = None
    /\ window' = [k \in Keys |-> None]
    /\ req' = [r \in Requests |-> IF req[r].at = "unused" THEN NoRequest ELSE Done]
    /\ admitted' = {}
    /\ Silent /\ UNCHANGED clock

Tick ==
    /\ clock < MaxTime
    /\ clock' = clock + 1
    /\ Silent /\ UNCHANGED <<conf, window, req, admitted>>

-----------------------------------------------------------------------------
(* The limiter *)

\* get_rate_limit_key, and the path it is counted for.
KeyOf(q) == <<IF q.user # None THEN q.user ELSE q.ip, q.route>>

\* Slip: a hit moves the end of the window.
CountedElastic(k) ==
    IF window[k] = None \/ clock >= window[k].start + Window
    THEN [start |-> clock, n |-> 1]
    ELSE [start |-> clock, n |-> window[k].n + 1]

\* Slip: the hit that opens a window is not counted.
CountedFromZero(k) ==
    IF window[k] = None \/ clock >= window[k].start + Window
    THEN [start |-> clock, n |-> 0]
    ELSE [start |-> window[k].start, n |-> window[k].n + 1]

\* The window of k after one more hit, an expired one having been dropped.
Counted(k) ==
    IF window[k] = None \/ clock >= window[k].start + Window
    THEN [start |-> clock, n |-> 1]
    ELSE [start |-> window[k].start, n |-> window[k].n + 1]

Fits(k) == Counted(k).n <= Limit[k[2]]

Hit(k) ==
    /\ window' = [window EXCEPT ![k] = Counted(k)]
    /\ admitted' = IF Fits(k)
                   THEN admitted \cup {[key |-> k, time |-> clock, nth |-> Counted(k).n]}
                   ELSE admitted

-----------------------------------------------------------------------------
(* The middlewares, from the outside in *)

\* The answer is sent, with what is said in the log about it.
Answered(r, marked, said) ==
    /\ req' = [req EXCEPT ![r] = Done]
    /\ answer' = [from |-> req[r].at, code |-> req[r].code,
                  marked |-> marked, lines |-> req[r].lines \o said]

\* The response to r is on its way out.
Leaves(r, at, code, said) ==
    req' = [req EXCEPT ![r] = [NoRequest EXCEPT !.at = at, !.code = code, !.lines = said]]

\* CORSMiddleware is outermost: it answers a browser's preflight itself, whether it
\* allows what is asked for or not, before anything is named, counted or logged.
Preflight(r) ==
    /\ conf # None
    /\ req[r].at = "unused"
    /\ req' = [req EXCEPT ![r] = Done]
    /\ \E code \in {"2xx", "4xx"} :
         answer' = [from |-> "preflight", code |-> code, marked |-> FALSE, lines |-> <<>>]
    /\ UNCHANGED <<conf, clock, window, admitted>>

\* RequestID names the request, by its X-Request-ID or by a new one; AuthContext
\* reads the user of a bearer token, if it can be read.
Arrive(r, route, user, ip) ==
    /\ conf # None
    /\ req[r].at = "unused"
    /\ req' = [req EXCEPT ![r] = [NoRequest EXCEPT
                 !.at = "identified", !.route = route, !.user = user, !.ip = ip]]
    /\ Silent /\ UNCHANGED <<conf, clock, window, admitted>>

\* SlowAPI, if it is installed, counts the routes that have no limit of their own.
CountsHere(r) == conf.rate_limit_enabled /\ req[r].route = "plain"

Pass(r) ==
    /\ req[r].at = "identified"
    /\ IF CountsHere(r) THEN Fits(KeyOf(req[r])) /\ Hit(KeyOf(req[r]))
                        ELSE UNCHANGED <<window, admitted>>
    /\ req' = [req EXCEPT ![r].at = "routing"]
    /\ Silent /\ UNCHANGED <<conf, clock>>

\* 429 from the middleware: AccessLog and the route are not reached. Which handler
\* words the answer, and whether it logs, is the library's choice.
RefuseEarly(r) ==
    /\ req[r].at = "identified"
    /\ CountsHere(r) /\ ~Fits(KeyOf(req[r])) /\ Hit(KeyOf(req[r]))
    /\ \E said \in {<<>>, <<"rate_limit_exceeded">>} :
         Leaves(r, "refused", "429", said)
    /\ Silent /\ UNCHANGED <<conf, clock>>

-----------------------------------------------------------------------------
(* The route and the exception handlers *)

Errors == [HTTPException |-> "http_exception", RequestValidationError |-> "validation_error",
           NotesLimitExceeded |-> "notes_limit_exceeded",
           RateLimitExceeded |-> "rate_limit_exceeded"]
CodeOf == [HTTPException |-> "4xx", RequestValidationError |-> "422",
           NotesLimitExceeded |-> "422", RateLimitExceeded |-> "429"]

\* The handler of a known exception logs it and answers, inside AccessLog.
Handled(r, exc) == Leaves(r, "returning", CodeOf[exc], <<Errors[exc]>>)

\* FastAPI rejects the body before it calls the route, and so before its limit.
InvalidBody(r) ==
    /\ req[r].at = "routing" /\ req[r].route # "exempt"
    /\ Handled(r, "RequestValidationError")
    /\ Silent /\ UNCHANGED <<conf, clock, window, admitted>>

\* The decorator of a route with a limit is not asked whether limits are enabled.
RefuseLate(r) ==
    /\ req[r].at = "routing" /\ req[r].route = "limited"
    /\ ~Fits(KeyOf(req[r])) /\ Hit(KeyOf(req[r]))
    /\ Handled(r, "RateLimitExceeded")
    /\ Silent /\ UNCHANGED <<conf, clock>>

RouteEnds(r) ==
    \/ Leaves(r, "returning", "2xx", <<>>)
    \/ /\ req[r].route # "exempt"
       /\ \/ Handled(r, "HTTPException")
          \/ req[r].route = "plain" /\ Handled(r, "NotesLimitExceeded")
          \/ Leaves(r, "raising", "500", <<>>)

RunRoute(r) ==
    /\ req[r].at = "routing"
    /\ IF req[r].route = "limited" THEN Fits(KeyOf(req[r])) /\ Hit(KeyOf(req[r]))
                                   ELSE UNCHANGED <<window, admitted>>
    /\ RouteEnds(r)
    /\ Silent /\ UNCHANGED <<conf, clock>>

-----------------------------------------------------------------------------
(* The way out *)

\* Slip: AccessLog logs the exceptions of the known handlers as failures, too.
ReturnTwice(r) ==
    /\ req[r].at = "returning"
    /\ Answered(r, TRUE, IF req[r].code = "2xx" THEN <<"request_completed">>
                          ELSE <<"request_failed", "request_completed">>)
    /\ UNCHANGED <<conf, clock, window, admitted>>

\* AccessLog writes its line; RequestID marks the response that comes back.
Return(r) ==
    /\ req[r].at = "returning"
    /\ Answered(r, TRUE, <<"request_completed">>)
    /\ UNCHANGED <<conf, clock, window, admitted>>

\* RequestID marks a refusal of SlowAPI as well.
ReturnRefusal(r) ==
    /\ req[r].at = "refused"
    /\ Answered(r, TRUE, <<>>)
    /\ UNCHANGED <<conf, clock, window, admitted>>

\* AccessLog writes its line and raises again; the exception passes RequestID by,
\* so the handler of Exception, outside of every middleware, marks the response.
Raise(r) ==
    /\ req[r].at = "raising"
    /\ Answered(r, TRUE, <<"request_failed", "unhandled_exception">>)
    /\ UNCHANGED <<conf, clock, window, admitted>>

Next ==
    \/ Stop \/ Tick \/ \E e \in Environments : Start(e)
    \/ \E r \in Requests :
         \/ \E route \in Routes, user \in Users \cup {None}, ip \in Ips :
              Arrive(r, route, user, ip)
         \/ Pass(r) \/ RefuseEarly(r) \/ InvalidBody(r) \/ RefuseLate(r) \/ RunRoute(r)
         \/ Return(r) \/ ReturnRefusal(r) \/ Raise(r) \/ Preflight(r)

Spec == Init /\ [][Next]_vars

-----------------------------------------------------------------------------
(* Properties *)

Admitted(k, from, to) ==
    {a \in admitted : a.key = k /\ from <= a.time /\ a.time < to}

\* A fixed window that opens with a hit bounds the hits of a caller on a path to
\* the limit from its start on, and in any interval of its length to fewer than
\* twice the limit.
FewerThanTwice ==
    \A k \in Keys, t \in 0 .. MaxTime :
       /\ Cardinality(Admitted(k, t, t + Window)) < 2 * Limit[k[2]]
       /\ window[k] # None =>
            Cardinality(Admitted(k, window[k].start, window[k].start + Window)) <= Limit[k[2]]

\* No one is refused for the requests of another, nor for those to another path,
\* nor for what was refused before: a 429 means that the caller has used up the
\* limit of the route in the window that is still open.
RefusedOnlyWhenFull ==
    [][\A r \in Requests : (req[r].code # "429" /\ req'[r].code = "429") =>
          \E t \in 0 .. clock :
             clock < t + Window /\ Cardinality(Admitted(KeyOf(req[r]), t, t + Window))
                                     >= Limit[req[r].route]
      ]_vars

\* Whichever way a request that CORS lets through ends, its answer carries
\* X-Request-ID; if it got past the limiter it left one access line, and an error
\* line iff it failed.  (A preflight has neither: see Preflight.)
AnsweredIsTraced ==
    answer # None /\ answer.from # "preflight" =>
       LET access == {"request_completed", "request_failed"}
           Many(events) == Cardinality({i \in DOMAIN answer.lines : answer.lines[i] \in events}) IN
       /\ answer.marked
       /\ Many(access) = (IF answer.from = "refused" THEN 0 ELSE 1)
       /\ answer.from # "refused" =>
             Len(answer.lines) - 1 = (IF answer.code = "2xx" THEN 0 ELSE 1)
       /\ Many({"unhandled_exception"}) = 1 <=> answer.code = "500"
=============================================================================

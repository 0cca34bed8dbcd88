-------------------------------- MODULE Settings --------------------------------
(***************************************************************************)
(* core/config.py: what the environment the process is started with makes  *)
(* of the settings, and whether the application starts at all.             *)
(*                                                                         *)
(* A text is a member of a small set, named for what the code tells apart: *)
(* "padded production" is `production` with blanks around it.              *)
(***************************************************************************)
EXTENDS Sequences

Unset == "unset"

\* A deployment of which only the variables of `e` are set: an environment is what
\* each variable holds that the application's own code looks at.
Deployed(e) ==
    [v \in {"environment", "log_level", "log_json", "rate_limit_enabled", "jwt_secret",
            "database_url", "sample_rate", "allowed_origins"} |->
        IF v \in DOMAIN e THEN e[v]
        ELSE CASE v = "jwt_secret" -> "random"
               [] v = "database_url" -> "dsn"
               [] v = "allowed_origins" -> <<"*">>
               [] OTHER -> Unset]

\* env_dependent_defaults: the environment the defaults are chosen for.
DefaultsFor(text) ==
    CASE text \in {Unset, "blank"} -> "development"
      [] text = "padded production" -> "production"
      [] OTHER -> text

\* coerce_bool_env; a variable that is not set leaves the default of its field.
Bool(text, default) == IF text = Unset THEN default ELSE text = "yes"

\* reject_placeholder_secret looks for its markers in lower case.
RejectPlaceholder(secret) == secret \in {"change-me", "Change-Me"}

Valid(e) ==
    /\ e.database_url # Unset
    /\ e.jwt_secret \notin {Unset, "short"}
    /\ ~RejectPlaceholder(e.jwt_secret)
    /\ e.sample_rate # "2.0"

\* allowed_origins, and the CORS middleware's arguments in main.py.
Origins(csv) == SelectSeq(csv, LAMBDA o : o # "blank")
Credentials(origins) == origins # <<"*">>

Load(e) ==
    LET production == DefaultsFor(e.environment) = "production" IN
    [environment |-> IF e.environment = Unset THEN "development" ELSE e.environment,
     debug |-> e.environment # "production",
     log_level |-> IF e.log_level \in {Unset, "empty"}
                   THEN IF production THEN "info" ELSE "debug" ELSE e.log_level,
     log_json |-> Bool(e.log_json, production),
     rate_limit_enabled |-> Bool(e.rate_limit_enabled, TRUE),
     secret |-> e.jwt_secret,
     origins |-> Origins(e.allowed_origins),
     credentials |-> Credentials(Origins(e.allowed_origins))]

\* setup_logging asks the logging module for a constant named by log_level.
LevelExists(s) == s.log_level \in {"debug", "info"}

\* Importing main.py succeeds.
Starts(e) == Valid(e) /\ LevelExists(Load(e))
=============================================================================

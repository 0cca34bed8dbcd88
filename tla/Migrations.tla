------------------------------- MODULE Migrations -------------------------------
(***************************************************************************)
(* The Alembic migrations of the backend: env.py runs those that are due   *)
(* in one transaction, statement by statement, and PostgreSQL rolls back   *)
(* the definitions it has changed with the rest.                           *)
(*                                                                         *)
(* A run is `alembic upgrade` or `alembic downgrade` to some revision.  It *)
(* may be killed at any statement, and two runs may overlap: every         *)
(* revision changes tables the others change, so the first statement of a  *)
(* run waits for the transaction of the other, and then sees what it has   *)
(* committed, but carries out the revisions it had decided on.             *)
(***************************************************************************)
EXTENDS Naturals, Sequences, FiniteSets

CONSTANTS Runs,
          None

Revisions == 0 .. 3   \* 0 is `base`, an empty database

VARIABLES
    version,  \* alembic_version, as committed
    schema,   \* the definitions, as committed
    run       \* run[r]: the revisions to go through, and its transaction

mvars == <<version, schema, run>>

-----------------------------------------------------------------------------
(* Definitions: a kind, a name, the table and what it is made of *)

Table(t) == [kind |-> "table", name |-> t, table |-> t, of |-> "users"]
Child(t) == [kind |-> "table", name |-> t, table |-> t, of |-> "references users"]
Column(t, c, null) == [kind |-> "column", name |-> c, table |-> t, of |-> null]
Index(name, t, c, unique) == [kind |-> "index", name |-> name, table |-> t, of |-> <<c, unique>>]
Unique(name, t, c) == [kind |-> "constraint", name |-> name, table |-> t, of |-> <<c, TRUE>>]
Columns(t, required, optional) ==
    {Column(t, c, "not null") : c \in required} \cup {Column(t, c, "null") : c \in optional}

Create(objects) == [op |-> "create", objects |-> objects]
Drop(kind, name) == [op |-> "drop", kind |-> kind, name |-> name]

\* 001: the tables with their columns and inline constraints, then the indexes.
Upgrade001 ==
    <<Create({Table("users"), Unique("users_email_key", "users", "email")}
        \cup Columns("users", {"id", "email", "hashed_password", "is_active", "created_at"}, {})),
      Create({Index("users_email_idx", "users", "email", FALSE)}),
      Create({Child("profiles")}
        \cup Columns("profiles", {"id", "created_at"}, {"display_name", "avatar_url"})),
      Create({Child("notes")}
        \cup Columns("notes", {"id", "user_id", "title", "created_at", "updated_at"}, {"body"})),
      Create({Index("notes_user_id_idx", "notes", "user_id", FALSE)}),
      Create({Child("refresh_tokens"),
              Unique("refresh_tokens_token_hash_key", "refresh_tokens", "token_hash")}
        \cup Columns("refresh_tokens",
                     {"id", "user_id", "token_hash", "created_at", "expires_at"}, {})),
      Create({Index("refresh_tokens_user_id_idx", "refresh_tokens", "user_id", FALSE)})>>

Downgrade001 ==
    <<Drop("index", "refresh_tokens_user_id_idx"), Drop("table", "refresh_tokens"),
      Drop("index", "notes_user_id_idx"), Drop("table", "notes"), Drop("table", "profiles"),
      Drop("index", "users_email_idx"), Drop("table", "users")>>

Upgrade002 == <<Create({Column("profiles", "is_pro", "not null")})>>
Downgrade002 == <<Drop("column", "is_pro")>>

\* 003: the names SQLAlchemy gives, and a single unique index on the e-mail.
Upgrade003 ==
    <<Drop("index", "users_email_idx"), Drop("constraint", "users_email_key"),
      Create({Index("ix_users_email", "users", "email", TRUE)}),
      Drop("index", "notes_user_id_idx"),
      Create({Index("ix_notes_user_id", "notes", "user_id", FALSE)}),
      Drop("index", "refresh_tokens_user_id_idx"),
      Create({Index("ix_refresh_tokens_user_id", "refresh_tokens", "user_id", FALSE)})>>

Downgrade003 ==
    <<Drop("index", "ix_users_email"),
      Create({Index("users_email_idx", "users", "email", FALSE)}),
      Create({Unique("users_email_key", "users", "email")}),
      Drop("index", "ix_notes_user_id"),
      Create({Index("notes_user_id_idx", "notes", "user_id", FALSE)}),
      Drop("index", "ix_refresh_tokens_user_id"),
      Create({Index("refresh_tokens_user_id_idx", "refresh_tokens", "user_id", FALSE)})>>

\* One statement: what it makes of the definitions, None if PostgreSQL rejects it.
Named(s, kind, name) == {o \in s : o.kind = kind /\ o.name = name}

Apply(s, stmt) ==
    IF stmt.op = "create"
    THEN IF \/ \E o \in stmt.objects : \/ o \in s
                                       \/ o.kind \in {"table", "index", "constraint"}
                                            /\ Named(s, o.kind, o.name) # {}
            \/ \E o \in stmt.objects : o.kind # "table"
                 /\ Named(s \cup stmt.objects, "table", o.table) = {}
            \/ (\E o \in stmt.objects : o.of = "references users") /\ Named(s, "table", "users") = {}
         THEN None ELSE s \cup stmt.objects
    ELSE IF \/ Named(s, stmt.kind, stmt.name) = {}
            \/ stmt.kind = "table" /\ stmt.name = "users"
                 /\ \E o \in s : o.of = "references users"
         THEN None
         ELSE IF stmt.kind = "table" THEN {o \in s : o.table # stmt.name}
              ELSE s \ Named(s, stmt.kind, stmt.name)

Upgrade == <<Upgrade001, Upgrade002, Upgrade003>>
Downgrade == <<Downgrade001, Downgrade002, Downgrade003>>

-----------------------------------------------------------------------------
(* The runs *)

Idle == [at |-> "idle", plan |-> <<>>, on |-> 0, done |-> 0, saw |-> None, row |-> 0]

Init ==
    /\ version = 0 /\ schema = {}
    /\ run = [r \in Runs |-> Idle]

\* The versions a run to `target` goes through, decided on when it begins.
Plan(target) == IF target > version THEN [i \in 1 .. target - version |-> version + i]
                ELSE [i \in 1 .. version - target |-> version - i]

Begin(r, target) ==
    /\ run[r].at = "idle"
    /\ target # version
    /\ run' = [run EXCEPT ![r] = [at |-> "waiting", plan |-> Plan(target), on |-> version,
                                  done |-> 0, saw |-> None, row |-> version]]
    /\ UNCHANGED <<version, schema>>

\* The first statement has the locks: the transaction sees what is committed now.
Locked(r) ==
    /\ run[r].at = "waiting"
    /\ \A o \in Runs : run[o].at # "changing"
    /\ run' = [run EXCEPT ![r].at = "changing", ![r].saw = schema, ![r].row = version]
    /\ UNCHANGED <<version, schema>>

Script(r) == IF Head(run[r].plan) > run[r].on THEN Upgrade[Head(run[r].plan)]
             ELSE Downgrade[run[r].on]

Statement(r) ==
    /\ run[r].at = "changing" /\ run[r].plan # <<>>
    /\ run[r].done < Len(Script(r))
    /\ LET next == Apply(run[r].saw, Script(r)[run[r].done + 1]) IN
         /\ next # None
         /\ run' = [run EXCEPT ![r].saw = next, ![r].done = @ + 1]
    /\ UNCHANGED <<version, schema>>

\* Slip: the version is overwritten, whatever it was.
RevisionDoneBlindly(r) ==
    /\ run[r].at = "changing" /\ run[r].plan # <<>>
    /\ run[r].done = Len(Script(r))
    /\ LET v == Head(run[r].plan) IN
         run' = [run EXCEPT ![r].plan = Tail(@), ![r].on = v, ![r].row = v, ![r].done = 0]
    /\ UNCHANGED <<version, schema>>

\* The version is updated in the same transaction, where it is the one the plan
\* is for; then the next revision follows.
RevisionDone(r) ==
    /\ run[r].at = "changing" /\ run[r].plan # <<>>
    /\ run[r].done = Len(Script(r))
    /\ run[r].row = run[r].on
    /\ LET v == Head(run[r].plan) IN
         run' = [run EXCEPT ![r].plan = Tail(@), ![r].on = v, ![r].row = v, ![r].done = 0]
    /\ UNCHANGED <<version, schema>>

Commit(r) ==
    /\ run[r].at = "changing" /\ run[r].plan = <<>>
    /\ version' = run[r].row /\ schema' = run[r].saw
    /\ run' = [run EXCEPT ![r] = Idle]

\* A statement is rejected, or Alembic finds another version than it expects, or
\* the run is killed: the transaction is rolled back.
Rejected(r) ==
    /\ run[r].at = "changing" /\ run[r].plan # <<>>
    /\ IF run[r].done < Len(Script(r))
       THEN Apply(run[r].saw, Script(r)[run[r].done + 1]) = None
       ELSE run[r].row # run[r].on
    /\ run' = [run EXCEPT ![r] = Idle]
    /\ UNCHANGED <<version, schema>>

Killed(r) ==
    /\ run[r].at # "idle"
    /\ run' = [run EXCEPT ![r] = Idle]
    /\ UNCHANGED <<version, schema>>

Next ==
    \E r \in Runs :
       \/ \E target \in Revisions : Begin(r, target)
       \/ Locked(r) \/ Statement(r) \/ RevisionDone(r) \/ Commit(r) \/ Rejected(r) \/ Killed(r)

Spec == Init /\ [][Next]_mvars

-----------------------------------------------------------------------------
(* Properties *)

\* What models.py declares, with the names SQLAlchemy gives.
Metadata ==
    {Table("users"), Child("profiles"), Child("notes"), Child("refresh_tokens"),
     Index("ix_users_email", "users", "email", TRUE),
     Index("ix_notes_user_id", "notes", "user_id", FALSE),
     Index("ix_refresh_tokens_user_id", "refresh_tokens", "user_id", FALSE),
     Unique("refresh_tokens_token_hash_key", "refresh_tokens", "token_hash")}
    \cup Columns("users", {"id", "email", "hashed_password", "is_active", "created_at"}, {})
    \cup Columns("profiles", {"id", "is_pro", "created_at"}, {"display_name", "avatar_url"})
    \cup Columns("notes", {"id", "user_id", "title", "created_at", "updated_at"}, {"body"})
    \cup Columns("refresh_tokens", {"id", "user_id", "token_hash", "created_at", "expires_at"}, {})

\* Whichever way the database got there - up from nothing, down and up again, past
\* kills, rejected statements and other runs - its schema is that of its version: at
\* the head what the models declare, without drift; at base nothing; and at no
\* version may two users have one e-mail.
SchemaIsOfItsVersion ==
    /\ version = 3 => schema = Metadata
    /\ version = 0 <=> schema = {}
    /\ version > 0 => \E o \in schema : o.kind \in {"index", "constraint"} /\ o.table = "users"
                                        /\ o.of = <<"email", TRUE>>
=============================================================================

---------------------------- MODULE MigrationsProofs ----------------------------
(* Theorems about Migrations, for any number of runs of Alembic.  What a     *)
(* statement leaves is known when it is not rejected: whether it is, the     *)
(* proof need not decide.                                                    *)
EXTENDS MCPlatform, SequenceTheorems, TLAPS

-----------------------------------------------------------------------------
(* The schemas of the four versions *)

UsersPart ==
    {Alembic!Table("users")}
    \cup Alembic!Columns("users", {"id", "email", "hashed_password", "is_active", "created_at"}, {})
ProfilesPart ==
    {Alembic!Child("profiles")}
    \cup Alembic!Columns("profiles", {"id", "created_at"}, {"display_name", "avatar_url"})
NotesPart ==
    {Alembic!Child("notes")}
    \cup Alembic!Columns("notes", {"id", "user_id", "title", "created_at", "updated_at"}, {"body"})
TokensPart ==
    {Alembic!Child("refresh_tokens"),
     Alembic!Unique("refresh_tokens_token_hash_key", "refresh_tokens", "token_hash")}
    \cup Alembic!Columns("refresh_tokens",
                         {"id", "user_id", "token_hash", "created_at", "expires_at"}, {})
IsPro == Alembic!Column("profiles", "is_pro", "not null")

\* The names of 001, and those of 003.
EmailKey == Alembic!Unique("users_email_key", "users", "email")
EmailIdx == Alembic!Index("users_email_idx", "users", "email", FALSE)
NotesIdx == Alembic!Index("notes_user_id_idx", "notes", "user_id", FALSE)
TokensIdx == Alembic!Index("refresh_tokens_user_id_idx", "refresh_tokens", "user_id", FALSE)
IxEmail == Alembic!Index("ix_users_email", "users", "email", TRUE)
IxNotes == Alembic!Index("ix_notes_user_id", "notes", "user_id", FALSE)
IxTokens == Alembic!Index("ix_refresh_tokens_user_id", "refresh_tokens", "user_id", FALSE)

Tables == UsersPart \cup ProfilesPart \cup NotesPart \cup TokensPart
Schema1 == Tables \cup {EmailKey, EmailIdx, NotesIdx, TokensIdx}
Schema2 == Schema1 \cup {IsPro}
Schema3 == Tables \cup {IsPro, IxEmail, IxNotes, IxTokens}

SchemaOf(v) == CASE v = 0 -> {} [] v = 1 -> Schema1 [] v = 2 -> Schema2 [] OTHER -> Schema3

\* What a revision goes through, statement by statement: Up(v)[k] and Down(v)[k] are
\* the definitions when k - 1 statements of it are done.
Up(v) ==
    CASE v = 1 -> <<{}, UsersPart \cup {EmailKey},
                    UsersPart \cup {EmailKey, EmailIdx},
                    UsersPart \cup ProfilesPart \cup {EmailKey, EmailIdx},
                    UsersPart \cup ProfilesPart \cup NotesPart \cup {EmailKey, EmailIdx},
                    UsersPart \cup ProfilesPart \cup NotesPart \cup {EmailKey, EmailIdx, NotesIdx},
                    Tables \cup {EmailKey, EmailIdx, NotesIdx}, Schema1>>
      [] v = 2 -> <<Schema1, Schema2>>
      [] OTHER -> <<Schema2, Tables \cup {IsPro, EmailKey, NotesIdx, TokensIdx},
                    Tables \cup {IsPro, NotesIdx, TokensIdx},
                    Tables \cup {IsPro, IxEmail, NotesIdx, TokensIdx},
                    Tables \cup {IsPro, IxEmail, TokensIdx},
                    Tables \cup {IsPro, IxEmail, IxNotes, TokensIdx},
                    Tables \cup {IsPro, IxEmail, IxNotes}, Schema3>>

Down(v) ==
    CASE v = 1 -> <<Schema1, Tables \cup {EmailKey, EmailIdx, NotesIdx},
                    UsersPart \cup ProfilesPart \cup NotesPart \cup {EmailKey, EmailIdx, NotesIdx},
                    UsersPart \cup ProfilesPart \cup NotesPart \cup {EmailKey, EmailIdx},
                    UsersPart \cup ProfilesPart \cup {EmailKey, EmailIdx},
                    UsersPart \cup {EmailKey, EmailIdx},
                    UsersPart \cup {EmailKey}, {}>>
      [] v = 2 -> <<Schema2, Schema1>>
      [] OTHER -> <<Schema3, Tables \cup {IsPro, IxNotes, IxTokens},
                    Tables \cup {IsPro, EmailIdx, IxNotes, IxTokens},
                    Tables \cup {IsPro, EmailKey, EmailIdx, IxNotes, IxTokens},
                    Tables \cup {IsPro, EmailKey, EmailIdx, IxTokens},
                    Tables \cup {IsPro, EmailKey, EmailIdx, NotesIdx, IxTokens},
                    Tables \cup {IsPro, EmailKey, EmailIdx, NotesIdx}, Schema2>>

-----------------------------------------------------------------------------
(* The inductive invariant *)

Versions == 0 .. 3

\* One revision after the other, up or down.
Climbs(q) == Len(q.plan) <= 3 - q.on /\ \A i \in 1 .. Len(q.plan) : q.plan[i] = q.on + i
Descends(q) == Len(q.plan) <= q.on /\ \A i \in 1 .. Len(q.plan) : q.plan[i] = q.on - i

RunFields == {"at", "plan", "on", "done", "saw", "row"}

RunTypes ==
    /\ migration = [r \in MigrationRuns |-> migration[r]]
    /\ \A r \in MigrationRuns :
         /\ DOMAIN migration[r] = RunFields
         /\ migration[r].at \in {"idle", "waiting", "changing"}
         /\ migration[r].plan \in Seq(Versions)
         /\ migration[r].on \in Versions /\ migration[r].row \in Versions
         /\ migration[r].done \in Nat

\* The definitions along the revision that is under way.
Trail(q) == IF Head(q.plan) > q.on THEN Up(Head(q.plan)) ELSE Down(q.on)

\* A run that found the version it was planned for is on the trail; one that found
\* another never gets to the end of its first revision.
OnItsTrail(q) ==
    /\ Climbs(q) \/ Descends(q)
    /\ q.at = "waiting" => q.plan # <<>> /\ q.done = 0
    /\ q.at = "changing" =>
         IF q.row # q.on THEN q.plan # <<>>
         ELSE IF q.plan = <<>> THEN q.saw = SchemaOf(q.on)
         ELSE q.done < Len(Trail(q)) /\ q.saw = Trail(q)[q.done + 1]

MigrationsInv ==
    /\ RunTypes
    /\ version \in Versions /\ schema = SchemaOf(version)
    /\ \A r \in MigrationRuns : OnItsTrail(migration[r])

-----------------------------------------------------------------------------
(* What the parts are made of *)

LEMMA PartsAre ==
    /\ \A o \in UsersPart : o.table = "users" /\ o.kind \in {"table", "column"} /\ o.name # "is_pro"
    /\ \A o \in ProfilesPart :
         o.table = "profiles" /\ o.kind \in {"table", "column"} /\ o.name # "is_pro"
    /\ \A o \in NotesPart : o.table = "notes" /\ o.kind \in {"table", "column"} /\ o.name # "is_pro"
    /\ \A o \in TokensPart :
         /\ o.table = "refresh_tokens" /\ o.kind \in {"table", "column", "constraint"}
         /\ o.name \notin {"is_pro", "users_email_key"}
<1>1. ASSUME NEW t, NEW required, NEW optional, NEW o \in Alembic!Columns(t, required, optional)
      PROVE  o.table = t /\ o.kind = "column" /\ o.name \in required \cup optional
  <2>1. PICK c \in required \cup optional, null \in {"not null", "null"} :
          o = Alembic!Column(t, c, null)
      BY <1>1 DEF Alembic!Columns
  <2> QED
      BY <2>1 DEF Alembic!Column
<1>2. \A t : /\ Alembic!Table(t).kind = "table" /\ Alembic!Table(t).table = t
             /\ Alembic!Table(t).name = t
             /\ Alembic!Child(t).kind = "table" /\ Alembic!Child(t).table = t
             /\ Alembic!Child(t).name = t
    BY DEF Alembic!Table, Alembic!Child
<1>3. \A o \in UsersPart : o.table = "users" /\ o.kind \in {"table", "column"} /\ o.name # "is_pro"
    BY <1>1, <1>2 DEF UsersPart
<1>4. \A o \in ProfilesPart :
         o.table = "profiles" /\ o.kind \in {"table", "column"} /\ o.name # "is_pro"
    BY <1>1, <1>2 DEF ProfilesPart
<1>5. \A o \in NotesPart : o.table = "notes" /\ o.kind \in {"table", "column"} /\ o.name # "is_pro"
    BY <1>1, <1>2 DEF NotesPart
<1>6. \A o \in TokensPart :
         /\ o.table = "refresh_tokens" /\ o.kind \in {"table", "column", "constraint"}
         /\ o.name \notin {"is_pro", "users_email_key"}
  <2> DEFINE key == Alembic!Unique("refresh_tokens_token_hash_key", "refresh_tokens", "token_hash")
  <2>1. key.kind = "constraint" /\ key.table = "refresh_tokens"
        /\ key.name = "refresh_tokens_token_hash_key"
      BY DEF Alembic!Unique
  <2> QED
      BY <2>1, <1>1, <1>2 DEF TokensPart
<1> QED
    BY <1>3, <1>4, <1>5, <1>6

LEMMA ObjectsAre ==
    /\ IsPro.kind = "column" /\ IsPro.name = "is_pro" /\ IsPro.table = "profiles"
    /\ EmailKey.kind = "constraint" /\ EmailKey.name = "users_email_key" /\ EmailKey.table = "users"
    /\ EmailIdx.kind = "index" /\ EmailIdx.name = "users_email_idx" /\ EmailIdx.table = "users"
    /\ NotesIdx.kind = "index" /\ NotesIdx.name = "notes_user_id_idx" /\ NotesIdx.table = "notes"
    /\ TokensIdx.kind = "index" /\ TokensIdx.name = "refresh_tokens_user_id_idx"
    /\ TokensIdx.table = "refresh_tokens"
    /\ IxEmail.kind = "index" /\ IxEmail.name = "ix_users_email" /\ IxEmail.table = "users"
    /\ IxNotes.kind = "index" /\ IxNotes.name = "ix_notes_user_id" /\ IxNotes.table = "notes"
    /\ IxTokens.kind = "index" /\ IxTokens.name = "ix_refresh_tokens_user_id"
    /\ IxTokens.table = "refresh_tokens"
BY DEF IsPro, EmailKey, EmailIdx, NotesIdx, TokensIdx, IxEmail, IxNotes, IxTokens,
       Alembic!Column, Alembic!Unique, Alembic!Index

-----------------------------------------------------------------------------
(* What a statement leaves *)

LEMMA CreateAdds ==
    ASSUME NEW s, NEW objects,
           Alembic!Apply(s, Alembic!Create(objects)) # None
    PROVE  Alembic!Apply(s, Alembic!Create(objects)) = s \cup objects
<1>1. Alembic!Create(objects).op = "create" /\ Alembic!Create(objects).objects = objects
    BY DEF Alembic!Create
<1> QED
    BY <1>1 DEF Alembic!Apply

\* A dropped table takes all that is of it along.
Remaining(s, kind, name) ==
    IF kind = "table" THEN {o \in s : o.table # name}
    ELSE {o \in s : ~(o.kind = kind /\ o.name = name)}

LEMMA DropRemoves ==
    ASSUME NEW s, NEW kind, NEW name,
           Alembic!Apply(s, Alembic!Drop(kind, name)) # None
    PROVE  Alembic!Apply(s, Alembic!Drop(kind, name)) = Remaining(s, kind, name)
<1>1. /\ Alembic!Drop(kind, name).op = "drop" /\ Alembic!Drop(kind, name).kind = kind
      /\ Alembic!Drop(kind, name).name = name
    BY DEF Alembic!Drop
<1>2. Remaining(s, kind, name) = IF kind = "table" THEN {o \in s : o.table # name}
                               ELSE s \ Alembic!Named(s, kind, name)
    BY DEF Remaining, Alembic!Named
<1> QED
    BY <1>1, <1>2 DEF Alembic!Apply

\* The k-th statement, when it is not rejected, takes the definitions on.
Follows(script, trail, k) ==
    Alembic!Apply(trail[k], script[k]) # None =>
       Alembic!Apply(trail[k], script[k]) = trail[k + 1]

Adds(script, trail, k, objects) ==
    script[k] = Alembic!Create(objects) /\ trail[k + 1] = trail[k] \cup objects
Drops(script, trail, k, kind, name) ==
    script[k] = Alembic!Drop(kind, name) /\ trail[k + 1] = Remaining(trail[k], kind, name)

LEMMA AddsFollows ==
    ASSUME NEW script, NEW trail, NEW k, NEW objects, Adds(script, trail, k, objects)
    PROVE  Follows(script, trail, k)
BY CreateAdds DEF Follows, Adds

LEMMA DropsFollows ==
    ASSUME NEW script, NEW trail, NEW k, NEW kind, NEW name, Drops(script, trail, k, kind, name)
    PROVE  Follows(script, trail, k)
BY DropRemoves DEF Follows, Drops

-----------------------------------------------------------------------------
(* The statements of each revision *)

LEMMA Upgrade001Follows == \A k \in 1 .. 7 : Follows(Alembic!Upgrade001, Up(1), k)
<1> DEFINE script == Alembic!Upgrade001
           trail == Up(1)
<1>1. Adds(script, trail, 1, UsersPart \cup {EmailKey})
  <2>1. {Alembic!Table("users"), EmailKey}
          \cup Alembic!Columns("users",
                   {"id", "email", "hashed_password", "is_active", "created_at"}, {}) =
        UsersPart \cup {EmailKey}
      BY Zenon DEF UsersPart
  <2> QED
      BY <2>1 DEF Adds, Up, Alembic!Upgrade001, EmailKey
<1>2. Adds(script, trail, 2, {EmailIdx})
    BY DEF Adds, Up, Alembic!Upgrade001, Schema3, Schema2, Schema1, Tables, EmailIdx
<1>3. Adds(script, trail, 3, ProfilesPart)
    BY DEF Adds, Up, Alembic!Upgrade001, Schema1, Tables, ProfilesPart
<1>4. Adds(script, trail, 4, NotesPart)
    BY DEF Adds, Up, Alembic!Upgrade001, Schema1, Tables, NotesPart
<1>5. Adds(script, trail, 5, {NotesIdx})
    BY DEF Adds, Up, Alembic!Upgrade001, Schema3, Schema2, Schema1, Tables, NotesIdx
<1>6. Adds(script, trail, 6, TokensPart)
    BY DEF Adds, Up, Alembic!Upgrade001, Schema1, Tables, TokensPart
<1>7. Adds(script, trail, 7, {TokensIdx})
    BY DEF Adds, Up, Alembic!Upgrade001, Schema3, Schema2, Schema1, Tables, TokensIdx
<1> QED
    BY <1>1, <1>2, <1>3, <1>4, <1>5, <1>6, <1>7, AddsFollows

LEMMA Upgrade002Follows == \A k \in 1 .. 1 : Follows(Alembic!Upgrade002, Up(2), k)
<1> DEFINE script == Alembic!Upgrade002
           trail == Up(2)
<1>1. Adds(script, trail, 1, {IsPro})
    BY DEF Adds, Up, Alembic!Upgrade002, Schema3, Schema2, Schema1, Tables, IsPro
<1> QED
    BY <1>1, AddsFollows

LEMMA Upgrade003Follows == \A k \in 1 .. 7 : Follows(Alembic!Upgrade003, Up(3), k)
<1> DEFINE script == Alembic!Upgrade003
           trail == Up(3)
<1>1. Drops(script, trail, 1, "index", "users_email_idx")
  <2>1. script[1] = Alembic!Drop("index", "users_email_idx")
      BY DEF Alembic!Upgrade003
  <2>2. trail[2] = Remaining(trail[1], "index", "users_email_idx")
      BY PartsAre, ObjectsAre DEF Remaining, Up, Schema3, Schema2, Schema1, Tables
  <2> QED
      BY <2>1, <2>2 DEF Drops
<1>2. Drops(script, trail, 2, "constraint", "users_email_key")
  <2>1. script[2] = Alembic!Drop("constraint", "users_email_key")
      BY DEF Alembic!Upgrade003
  <2>2. trail[3] = Remaining(trail[2], "constraint", "users_email_key")
      BY PartsAre, ObjectsAre DEF Remaining, Up, Schema3, Schema2, Schema1, Tables
  <2> QED
      BY <2>1, <2>2 DEF Drops
<1>3. Adds(script, trail, 3, {IxEmail})
  <2>1. script[3] = Alembic!Create({IxEmail})
      BY DEF Alembic!Upgrade003, IxEmail
  <2>2. trail[4] = trail[3] \cup {IxEmail}
      BY DEF Up, Schema3, Schema2, Schema1
  <2> QED
      BY <2>1, <2>2 DEF Adds
<1>4. Drops(script, trail, 4, "index", "notes_user_id_idx")
  <2>1. script[4] = Alembic!Drop("index", "notes_user_id_idx")
      BY DEF Alembic!Upgrade003
  <2>2. trail[5] = Remaining(trail[4], "index", "notes_user_id_idx")
      BY PartsAre, ObjectsAre DEF Remaining, Up, Schema3, Schema2, Schema1, Tables
  <2> QED
      BY <2>1, <2>2 DEF Drops
<1>5. Adds(script, trail, 5, {IxNotes})
  <2>1. script[5] = Alembic!Create({IxNotes})
      BY DEF Alembic!Upgrade003, IxNotes
  <2>2. trail[6] = trail[5] \cup {IxNotes}
      BY DEF Up, Schema3, Schema2, Schema1
  <2> QED
      BY <2>1, <2>2 DEF Adds
<1>6. Drops(script, trail, 6, "index", "refresh_tokens_user_id_idx")
  <2>1. script[6] = Alembic!Drop("index", "refresh_tokens_user_id_idx")
      BY DEF Alembic!Upgrade003
  <2>2. trail[7] = Remaining(trail[6], "index", "refresh_tokens_user_id_idx")
      BY PartsAre, ObjectsAre DEF Remaining, Up, Schema3, Schema2, Schema1, Tables
  <2> QED
      BY <2>1, <2>2 DEF Drops
<1>7. Adds(script, trail, 7, {IxTokens})
  <2>1. script[7] = Alembic!Create({IxTokens})
      BY DEF Alembic!Upgrade003, IxTokens
  <2>2. trail[8] = trail[7] \cup {IxTokens}
      BY DEF Up, Schema3, Schema2, Schema1
  <2> QED
      BY <2>1, <2>2 DEF Adds
<1> QED
    BY <1>1, <1>2, <1>3, <1>4, <1>5, <1>6, <1>7, AddsFollows, DropsFollows

LEMMA Downgrade001Follows == \A k \in 1 .. 7 : Follows(Alembic!Downgrade001, Down(1), k)
<1> DEFINE script == Alembic!Downgrade001
           trail == Down(1)
<1>1. Drops(script, trail, 1, "index", "refresh_tokens_user_id_idx")
    BY PartsAre, ObjectsAre
    DEF Drops, Remaining, Down, Alembic!Downgrade001, Schema3, Schema2, Schema1, Tables
<1>2. Drops(script, trail, 2, "table", "refresh_tokens")
    BY PartsAre, ObjectsAre
    DEF Drops, Remaining, Down, Alembic!Downgrade001, Schema3, Schema2, Schema1, Tables
<1>3. Drops(script, trail, 3, "index", "notes_user_id_idx")
    BY PartsAre, ObjectsAre
    DEF Drops, Remaining, Down, Alembic!Downgrade001, Schema3, Schema2, Schema1, Tables
<1>4. Drops(script, trail, 4, "table", "notes")
    BY PartsAre, ObjectsAre
    DEF Drops, Remaining, Down, Alembic!Downgrade001, Schema3, Schema2, Schema1, Tables
<1>5. Drops(script, trail, 5, "table", "profiles")
    BY PartsAre, ObjectsAre
    DEF Drops, Remaining, Down, Alembic!Downgrade001, Schema3, Schema2, Schema1, Tables
<1>6. Drops(script, trail, 6, "index", "users_email_idx")
    BY PartsAre, ObjectsAre
    DEF Drops, Remaining, Down, Alembic!Downgrade001, Schema3, Schema2, Schema1, Tables
<1>7. Drops(script, trail, 7, "table", "users")
    BY PartsAre, ObjectsAre
    DEF Drops, Remaining, Down, Alembic!Downgrade001, Schema3, Schema2, Schema1, Tables
<1> QED
    BY <1>1, <1>2, <1>3, <1>4, <1>5, <1>6, <1>7, DropsFollows

LEMMA Downgrade002Follows == \A k \in 1 .. 1 : Follows(Alembic!Downgrade002, Down(2), k)
<1> DEFINE script == Alembic!Downgrade002
           trail == Down(2)
<1>1. Drops(script, trail, 1, "column", "is_pro")
    BY PartsAre, ObjectsAre
    DEF Drops, Remaining, Down, Alembic!Downgrade002, Schema3, Schema2, Schema1, Tables
<1> QED
    BY <1>1, DropsFollows

LEMMA Downgrade003Follows == \A k \in 1 .. 7 : Follows(Alembic!Downgrade003, Down(3), k)
<1> DEFINE script == Alembic!Downgrade003
           trail == Down(3)
<1>1. Drops(script, trail, 1, "index", "ix_users_email")
  <2>1. script[1] = Alembic!Drop("index", "ix_users_email")
      BY DEF Alembic!Downgrade003
  <2>2. trail[2] = Remaining(trail[1], "index", "ix_users_email")
      BY PartsAre, ObjectsAre DEF Remaining, Down, Schema3, Schema2, Schema1, Tables
  <2> QED
      BY <2>1, <2>2 DEF Drops
<1>2. Adds(script, trail, 2, {EmailIdx})
  <2>1. script[2] = Alembic!Create({EmailIdx})
      BY DEF Alembic!Downgrade003, EmailIdx
  <2>2. trail[3] = trail[2] \cup {EmailIdx}
      BY DEF Down, Schema3, Schema2, Schema1
  <2> QED
      BY <2>1, <2>2 DEF Adds
<1>3. Adds(script, trail, 3, {EmailKey})
  <2>1. script[3] = Alembic!Create({EmailKey})
      BY DEF Alembic!Downgrade003, EmailKey
  <2>2. trail[4] = trail[3] \cup {EmailKey}
      BY DEF Down, Schema3, Schema2, Schema1
  <2> QED
      BY <2>1, <2>2 DEF Adds
<1>4. Drops(script, trail, 4, "index", "ix_notes_user_id")
  <2>1. script[4] = Alembic!Drop("index", "ix_notes_user_id")
      BY DEF Alembic!Downgrade003
  <2>2. trail[5] = Remaining(trail[4], "index", "ix_notes_user_id")
      BY PartsAre, ObjectsAre DEF Remaining, Down, Schema3, Schema2, Schema1, Tables
  <2> QED
      BY <2>1, <2>2 DEF Drops
<1>5. Adds(script, trail, 5, {NotesIdx})
  <2>1. script[5] = Alembic!Create({NotesIdx})
      BY DEF Alembic!Downgrade003, NotesIdx
  <2>2. trail[6] = trail[5] \cup {NotesIdx}
      BY DEF Down, Schema3, Schema2, Schema1
  <2> QED
      BY <2>1, <2>2 DEF Adds
<1>6. Drops(script, trail, 6, "index", "ix_refresh_tokens_user_id")
  <2>1. script[6] = Alembic!Drop("index", "ix_refresh_tokens_user_id")
      BY DEF Alembic!Downgrade003
  <2>2. trail[7] = Remaining(trail[6], "index", "ix_refresh_tokens_user_id")
      BY PartsAre, ObjectsAre DEF Remaining, Down, Schema3, Schema2, Schema1, Tables
  <2> QED
      BY <2>1, <2>2 DEF Drops
<1>7. Adds(script, trail, 7, {TokensIdx})
  <2>1. script[7] = Alembic!Create({TokensIdx})
      BY DEF Alembic!Downgrade003, TokensIdx
  <2>2. trail[8] = trail[7] \cup {TokensIdx}
      BY DEF Down, Schema3, Schema2, Schema1
  <2> QED
      BY <2>1, <2>2 DEF Adds
<1> QED
    BY <1>1, <1>2, <1>3, <1>4, <1>5, <1>6, <1>7, AddsFollows, DropsFollows

-----------------------------------------------------------------------------
(* The revision under way *)

\* A trail leads from one schema to another, by the statements of its script.
Leads(script, trail, from, to) ==
    /\ Len(script) \in Nat /\ Len(trail) = Len(script) + 1
    /\ trail[1] = SchemaOf(from) /\ trail[Len(trail)] = SchemaOf(to)
    /\ \A k \in 1 .. Len(script) : Follows(script, trail, k)

LEMMA UpLeads == \A v \in 1 .. 3 : Leads(Alembic!Upgrade[v], Up(v), v - 1, v)
<1>1. Leads(Alembic!Upgrade[1], Up(1), 0, 1)
  <2>1. Alembic!Upgrade[1] = Alembic!Upgrade001 /\ Len(Alembic!Upgrade001) = 7
      BY DEF Alembic!Upgrade, Alembic!Upgrade001
  <2>2. Len(Up(1)) = 8 /\ Up(1)[1] = SchemaOf(0) /\ Up(1)[8] = SchemaOf(1)
      BY DEF Up, SchemaOf
  <2> QED
      BY <2>1, <2>2, Upgrade001Follows DEF Leads
<1>2. Leads(Alembic!Upgrade[2], Up(2), 1, 2)
  <2>1. Alembic!Upgrade[2] = Alembic!Upgrade002 /\ Len(Alembic!Upgrade002) = 1
      BY DEF Alembic!Upgrade, Alembic!Upgrade002
  <2>2. Len(Up(2)) = 2 /\ Up(2)[1] = SchemaOf(1) /\ Up(2)[2] = SchemaOf(2)
      BY DEF Up, SchemaOf
  <2> QED
      BY <2>1, <2>2, Upgrade002Follows DEF Leads
<1>3. Leads(Alembic!Upgrade[3], Up(3), 2, 3)
  <2>1. Alembic!Upgrade[3] = Alembic!Upgrade003 /\ Len(Alembic!Upgrade003) = 7
      BY DEF Alembic!Upgrade, Alembic!Upgrade003
  <2>2. Len(Up(3)) = 8 /\ Up(3)[1] = SchemaOf(2) /\ Up(3)[8] = SchemaOf(3)
      BY DEF Up, SchemaOf
  <2> QED
      BY <2>1, <2>2, Upgrade003Follows DEF Leads
<1> QED
    BY <1>1, <1>2, <1>3

LEMMA DownLeads == \A v \in 1 .. 3 : Leads(Alembic!Downgrade[v], Down(v), v, v - 1)
<1>1. Leads(Alembic!Downgrade[1], Down(1), 1, 0)
  <2>1. Alembic!Downgrade[1] = Alembic!Downgrade001 /\ Len(Alembic!Downgrade001) = 7
      BY DEF Alembic!Downgrade, Alembic!Downgrade001
  <2>2. Len(Down(1)) = 8 /\ Down(1)[1] = SchemaOf(1) /\ Down(1)[8] = SchemaOf(0)
      BY DEF Down, SchemaOf
  <2> QED
      BY <2>1, <2>2, Downgrade001Follows DEF Leads
<1>2. Leads(Alembic!Downgrade[2], Down(2), 2, 1)
  <2>1. Alembic!Downgrade[2] = Alembic!Downgrade002 /\ Len(Alembic!Downgrade002) = 1
      BY DEF Alembic!Downgrade, Alembic!Downgrade002
  <2>2. Len(Down(2)) = 2 /\ Down(2)[1] = SchemaOf(2) /\ Down(2)[2] = SchemaOf(1)
      BY DEF Down, SchemaOf
  <2> QED
      BY <2>1, <2>2, Downgrade002Follows DEF Leads
<1>3. Leads(Alembic!Downgrade[3], Down(3), 3, 2)
  <2>1. Alembic!Downgrade[3] = Alembic!Downgrade003 /\ Len(Alembic!Downgrade003) = 7
      BY DEF Alembic!Downgrade, Alembic!Downgrade003
  <2>2. Len(Down(3)) = 8 /\ Down(3)[1] = SchemaOf(3) /\ Down(3)[8] = SchemaOf(2)
      BY DEF Down, SchemaOf
  <2> QED
      BY <2>1, <2>2, Downgrade003Follows DEF Leads
<1> QED
    BY <1>1, <1>2, <1>3

ScriptOf(q) ==
    IF Head(q.plan) > q.on THEN Alembic!Upgrade[Head(q.plan)] ELSE Alembic!Downgrade[q.on]

\* The next version is one above or below, and its script leads there.
LEMMA ScriptLeads ==
    ASSUME NEW q, q.plan \in Seq(Versions), q.on \in Versions, q.plan # <<>>,
           Climbs(q) \/ Descends(q)
    PROVE  /\ Head(q.plan) \in Versions /\ Head(q.plan) \in {q.on + 1, q.on - 1}
           /\ Leads(ScriptOf(q), Trail(q), q.on, Head(q.plan))
<1>1. /\ Len(q.plan) \in Nat /\ Len(q.plan) >= 1 /\ Head(q.plan) = q.plan[1]
      /\ q.plan[1] \in Versions
    BY EmptySeq, LenProperties, HeadTailProperties
<1>2. CASE Climbs(q)
  <2>1. q.plan[1] = q.on + 1 /\ q.on <= 2
      BY <1>1, <1>2 DEF Climbs, Versions
  <2>2. ScriptOf(q) = Alembic!Upgrade[q.on + 1] /\ Trail(q) = Up(q.on + 1)
      BY <1>1, <2>1 DEF ScriptOf, Trail, Versions
  <2>3. q.on + 1 \in 1 .. 3 /\ (q.on + 1) - 1 = q.on
      BY <1>1, <2>1 DEF Versions
  <2> QED
      BY <1>1, <2>1, <2>2, <2>3, UpLeads
<1>3. CASE Descends(q)
  <2>1. q.plan[1] = q.on - 1 /\ q.on >= 1
      BY <1>1, <1>3 DEF Descends, Versions
  <2>2. ScriptOf(q) = Alembic!Downgrade[q.on] /\ Trail(q) = Down(q.on)
      BY <1>1, <2>1 DEF ScriptOf, Trail, Versions
  <2>3. q.on \in 1 .. 3
      BY <1>1, <2>1 DEF Versions
  <2> QED
      BY <1>1, <2>1, <2>2, <2>3, DownLeads
<1> QED
    BY <1>2, <1>3

LEMMA RunLeads ==
    ASSUME MigrationsInv, NEW r \in MigrationRuns, migration[r].plan # <<>>
    PROVE  /\ Head(migration[r].plan) \in Versions
           /\ Head(migration[r].plan) \in {migration[r].on + 1, migration[r].on - 1}
           /\ Leads(Alembic!Script(r), Trail(migration[r]), migration[r].on,
                    Head(migration[r].plan))
<1>1. Alembic!Script(r) = ScriptOf(migration[r])
    BY DEF Alembic!Script, ScriptOf
<1> QED
    BY <1>1, ScriptLeads DEF MigrationsInv, RunTypes, OnItsTrail

\* When a revision is done, the rest of the plan goes on from its version.
LEMMA RestOfPlan ==
    ASSUME NEW q, NEW p, q.plan \in Seq(Versions), q.on \in Versions, q.plan # <<>>,
           Climbs(q) \/ Descends(q), p.plan = Tail(q.plan), p.on = Head(q.plan)
    PROVE  p.plan \in Seq(Versions) /\ (Climbs(p) \/ Descends(p))
<1> DEFINE n == Len(q.plan)
           from == q.on
<1>1. /\ p.plan \in Seq(Versions) /\ Len(p.plan) = n - 1
      /\ p.on = q.plan[1] /\ n \in Nat /\ n >= 1 /\ q.plan[1] \in Versions
      /\ \A i \in 1 .. n - 1 : p.plan[i] = q.plan[i + 1] /\ i + 1 \in 1 .. n
    BY EmptySeq, LenProperties, HeadTailProperties
<1>2. from \in Nat /\ from <= 3
    BY DEF Versions
<1> HIDE DEF n, from
<1>3. CASE Climbs(q)
  <2>1. n <= 3 - from /\ \A i \in 1 .. n : q.plan[i] = from + i
      BY <1>3 DEF Climbs, n, from
  <2>2. p.on = from + 1 /\ n - 1 <= 3 - p.on
    <3>1. 1 \in 1 .. n
        BY <1>1
    <3>2. p.on = from + 1
        BY <1>1, <2>1, <3>1
    <3> QED
        BY <1>1, <1>2, <2>1, <3>2
  <2>3. ASSUME NEW i \in 1 .. n - 1 PROVE p.plan[i] = p.on + i
    <3>1. p.plan[i] = q.plan[i + 1] /\ i + 1 \in 1 .. n
        BY <1>1
    <3>2. q.plan[i + 1] = from + (i + 1)
        BY <3>1, <2>1
    <3>3. i \in Nat /\ from + (i + 1) = (from + 1) + i
        BY <1>1, <1>2
    <3> QED
        BY <3>1, <3>2, <3>3, <2>2
  <2> QED
      BY <1>1, <2>2, <2>3 DEF Climbs
<1>4. CASE Descends(q)
  <2>1. n <= from /\ \A i \in 1 .. n : q.plan[i] = from - i
      BY <1>4 DEF Descends, n, from
  <2>2. p.on = from - 1 /\ n - 1 <= p.on
      BY <1>1, <1>2, <2>1
  <2>3. ASSUME NEW i \in 1 .. n - 1 PROVE p.plan[i] = p.on - i
      BY <1>1, <1>2, <2>1, <2>2
  <2> QED
      BY <1>1, <2>2, <2>3 DEF Descends
<1> QED
    BY <1>3, <1>4

-----------------------------------------------------------------------------
(* The steps *)

LEMMA BeginKeeps ==
    ASSUME MigrationsInv, NEW r \in MigrationRuns, NEW target \in Alembic!Revisions,
           Alembic!Begin(r, target)
    PROVE  MigrationsInv'
<1> DEFINE new == [at |-> "waiting", plan |-> Alembic!Plan(target), on |-> version,
                   done |-> 0, saw |-> None, row |-> version]
<1>1. version \in Versions /\ target \in Versions /\ target # version
    BY DEF MigrationsInv, Alembic!Begin, Alembic!Revisions, Versions
<1>2. /\ Alembic!Plan(target) \in Seq(Versions) /\ Alembic!Plan(target) # <<>>
      /\ Climbs(new) \/ Descends(new)
  <2>1. CASE target > version
    <3>1. Alembic!Plan(target) = [i \in 1 .. target - version |-> version + i]
        BY <2>1 DEF Alembic!Plan
    <3>2. target - version \in Nat /\ target - version >= 1 /\ target - version <= 3 - version
        BY <1>1, <2>1 DEF Versions
    <3>3. Alembic!Plan(target) \in Seq(Versions) /\ Len(Alembic!Plan(target)) = target - version
        BY <1>1, <3>1, <3>2 DEF Versions
    <3> QED
        BY <3>1, <3>2, <3>3, EmptySeq DEF Climbs
  <2>2. CASE target < version
    <3>1. Alembic!Plan(target) = [i \in 1 .. version - target |-> version - i]
        BY <1>1, <2>2 DEF Alembic!Plan, Versions
    <3>2. version - target \in Nat /\ version - target >= 1 /\ version - target <= version
        BY <1>1, <2>2 DEF Versions
    <3>3. Alembic!Plan(target) \in Seq(Versions) /\ Len(Alembic!Plan(target)) = version - target
        BY <1>1, <3>1, <3>2 DEF Versions
    <3> QED
        BY <3>1, <3>2, <3>3, EmptySeq DEF Descends
  <2> QED
      BY <1>1, <2>1, <2>2 DEF Versions
<1>3. /\ migration' = [migration EXCEPT ![r] = new]
      /\ version' = version /\ schema' = schema
    BY DEF Alembic!Begin
<1>4. OnItsTrail(new) /\ DOMAIN new = RunFields
    BY <1>2 DEF OnItsTrail, RunFields, Climbs, Descends
<1> QED
    BY <1>1, <1>2, <1>3, <1>4 DEF MigrationsInv, RunTypes

LEMMA LockedKeeps ==
    ASSUME MigrationsInv, NEW r \in MigrationRuns, Alembic!Locked(r)
    PROVE  MigrationsInv'
<1> DEFINE q == migration[r]
           p == migration'[r]
<1>1. /\ q.at = "waiting" /\ version' = version /\ schema' = schema
      /\ migration' = [migration EXCEPT ![r].at = "changing", ![r].saw = schema,
                                        ![r].row = version]
    BY DEF Alembic!Locked
<1>2. /\ DOMAIN p = RunFields /\ p.at = "changing" /\ p.saw = schema /\ p.row = version
      /\ p.plan = q.plan /\ p.on = q.on /\ p.done = q.done
      /\ \A o \in MigrationRuns : o # r => migration'[o] = migration[o]
      /\ migration' = [o \in MigrationRuns |-> migration'[o]]
    BY <1>1 DEF MigrationsInv, RunTypes, RunFields
<1>3. RunTypes'
    BY <1>1, <1>2 DEF MigrationsInv, RunTypes
<1>4. OnItsTrail(q) /\ q.plan # <<>> /\ q.done = 0 /\ schema = SchemaOf(version)
    BY <1>1 DEF MigrationsInv, OnItsTrail
<1>5. Trail(p) = Trail(q) /\ Leads(Alembic!Script(r), Trail(q), q.on, Head(q.plan))
    BY <1>2, <1>4, RunLeads DEF Trail
<1>6. OnItsTrail(p)
  <2>1. Climbs(p) \/ Descends(p)
      BY <1>2, <1>4 DEF OnItsTrail, Climbs, Descends
  <2>2. p.row = p.on => p.done < Len(Trail(p)) /\ p.saw = Trail(p)[p.done + 1]
      BY <1>2, <1>4, <1>5 DEF Leads
  <2> QED
      BY <2>1, <2>2, <1>2, <1>4 DEF OnItsTrail
<1> QED
    BY <1>1, <1>2, <1>3, <1>6 DEF MigrationsInv

LEMMA StatementKeeps ==
    ASSUME MigrationsInv, NEW r \in MigrationRuns, Alembic!Statement(r)
    PROVE  MigrationsInv'
<1> DEFINE q == migration[r]
           p == migration'[r]
           script == Alembic!Script(r)
           next == Alembic!Apply(q.saw, script[q.done + 1])
<1>1. /\ q.at = "changing" /\ q.plan # <<>> /\ q.done < Len(script)
      /\ version' = version /\ schema' = schema /\ next # None
      /\ migration' = [migration EXCEPT ![r].saw = next, ![r].done = @ + 1]
    BY DEF Alembic!Statement
<1> HIDE DEF next
<1>2. /\ DOMAIN p = RunFields /\ p.at = q.at /\ p.saw = next /\ p.row = q.row
      /\ p.plan = q.plan /\ p.on = q.on /\ p.done = q.done + 1
      /\ \A o \in MigrationRuns : o # r => migration'[o] = migration[o]
      /\ migration' = [o \in MigrationRuns |-> migration'[o]]
    BY <1>1 DEF MigrationsInv, RunTypes, RunFields
<1>3. RunTypes'
    BY <1>1, <1>2 DEF MigrationsInv, RunTypes
<1>4. OnItsTrail(q) /\ q.done \in Nat
    BY DEF MigrationsInv, RunTypes
<1>5. Trail(p) = Trail(q) /\ Leads(script, Trail(q), q.on, Head(q.plan))
    BY <1>1, <1>2, <1>4, RunLeads DEF Trail
<1>6. p.row = p.on => p.done < Len(Trail(p)) /\ p.saw = Trail(p)[p.done + 1]
  <2> SUFFICES ASSUME p.row = p.on PROVE p.done < Len(Trail(p)) /\ p.saw = Trail(p)[p.done + 1]
      OBVIOUS
  <2> DEFINE k == q.done + 1
  <2>1. q.saw = Trail(q)[k]
      BY <1>1, <1>2, <1>4 DEF OnItsTrail
  <2>2. k \in 1 .. Len(script) /\ Len(Trail(q)) = Len(script) + 1
      BY <1>1, <1>4, <1>5 DEF Leads
  <2>3. Follows(script, Trail(q), k)
      BY <2>2, <1>5 DEF Leads
  <2>4. next = Trail(q)[k + 1]
      BY <2>1, <2>3, <1>1 DEF Follows, next
  <2> QED
      BY <2>2, <2>4, <1>2, <1>5
<1>7. OnItsTrail(p)
  <2>1. Climbs(p) \/ Descends(p)
      BY <1>2, <1>4 DEF OnItsTrail, Climbs, Descends
  <2> QED
      BY <2>1, <1>1, <1>2, <1>6 DEF OnItsTrail
<1> QED
    BY <1>1, <1>2, <1>3, <1>7 DEF MigrationsInv

LEMMA RevisionDoneKeeps ==
    ASSUME MigrationsInv, NEW r \in MigrationRuns, Alembic!RevisionDone(r)
    PROVE  MigrationsInv'
<1> DEFINE q == migration[r]
           p == migration'[r]
           script == Alembic!Script(r)
<1>1. /\ q.at = "changing" /\ q.plan # <<>> /\ q.done = Len(script) /\ q.row = q.on
      /\ version' = version /\ schema' = schema
      /\ migration' = [migration EXCEPT ![r].plan = Tail(@), ![r].on = Head(q.plan),
                                        ![r].row = Head(q.plan), ![r].done = 0]
    BY DEF Alembic!RevisionDone
<1>2. /\ DOMAIN p = RunFields /\ p.at = q.at /\ p.saw = q.saw /\ p.row = Head(q.plan)
      /\ p.plan = Tail(q.plan) /\ p.on = Head(q.plan) /\ p.done = 0
      /\ \A o \in MigrationRuns : o # r => migration'[o] = migration[o]
      /\ migration' = [o \in MigrationRuns |-> migration'[o]]
    BY <1>1 DEF MigrationsInv, RunTypes, RunFields
<1>3. /\ OnItsTrail(q) /\ q.plan \in Seq(Versions) /\ q.on \in Versions /\ q.done \in Nat
    BY DEF MigrationsInv, RunTypes
<1>4. Head(q.plan) \in Versions /\ Leads(script, Trail(q), q.on, Head(q.plan))
    BY <1>1, RunLeads
<1>5. p.plan \in Seq(Versions) /\ (Climbs(p) \/ Descends(p))
    BY <1>1, <1>2, <1>3, RestOfPlan DEF OnItsTrail
<1>6. RunTypes'
  <2>1. DOMAIN p = RunFields /\ p.at \in {"idle", "waiting", "changing"}
      BY <1>1, <1>2
  <2>2. p.plan \in Seq(Versions)
      BY <1>5
  <2>3. p.on \in Versions /\ p.row \in Versions
      BY <1>2, <1>4
  <2>4. p.done \in Nat
      BY <1>2
  <2> QED
      BY <2>1, <2>2, <2>3, <2>4, <1>2 DEF MigrationsInv, RunTypes
<1>7. p.saw = SchemaOf(p.on)
  <2>1. q.saw = Trail(q)[q.done + 1]
      BY <1>1, <1>3 DEF OnItsTrail
  <2>2. p.saw = q.saw /\ p.on = Head(q.plan)
      BY <1>2
  <2>3. q.done + 1 = Len(Trail(q)) /\ Trail(q)[Len(Trail(q))] = SchemaOf(Head(q.plan))
    <3>1. Len(Trail(q)) = Len(script) + 1
        BY <1>4 DEF Leads
    <3>2. q.done = Len(script)
        BY <1>1
    <3>3. Trail(q)[Len(Trail(q))] = SchemaOf(Head(q.plan))
        BY <1>4 DEF Leads
    <3> QED
        BY <3>1, <3>2, <3>3
  <2> HIDE DEF q, p
  <2> QED
      BY <2>1, <2>2, <2>3
<1>8. OnItsTrail(p)
  <2>1. CASE p.plan = <<>>
      BY <2>1, <1>1, <1>2, <1>5, <1>7 DEF OnItsTrail
  <2>2. CASE p.plan # <<>>
    <3>1. p.on \in Versions
        BY <1>2, <1>4
    <3>2. Leads(ScriptOf(p), Trail(p), p.on, Head(p.plan))
        BY <2>2, <3>1, <1>5, ScriptLeads
    <3>3. p.done < Len(Trail(p)) /\ p.saw = Trail(p)[p.done + 1]
        BY <3>2, <1>2, <1>7 DEF Leads
    <3> QED
        BY <2>2, <3>3, <1>1, <1>2, <1>5 DEF OnItsTrail
  <2> QED
      BY <2>1, <2>2
<1> QED
    BY <1>1, <1>2, <1>6, <1>8 DEF MigrationsInv

\* A run that is over is as it was before it began.
LEMMA IdleKeeps ==
    ASSUME MigrationsInv, NEW r \in MigrationRuns,
           migration' = [migration EXCEPT ![r] = Alembic!Idle],
           version' \in Versions, schema' = SchemaOf(version')
    PROVE  MigrationsInv'
<1> DEFINE p == Alembic!Idle
<1>1. /\ DOMAIN p = RunFields /\ p.at = "idle" /\ p.plan = <<>> /\ p.on = 0 /\ p.done = 0
      /\ p.row = 0
    BY DEF Alembic!Idle, RunFields
<1>2. p.plan \in Seq(Versions) /\ Len(p.plan) = 0 /\ 0 \in Versions
    BY <1>1, EmptySeq DEF Versions
<1>3. OnItsTrail(p)
    BY <1>1, <1>2 DEF OnItsTrail, Climbs
<1> HIDE DEF p
<1>4. /\ migration' = [o \in MigrationRuns |-> migration'[o]] /\ migration'[r] = p
      /\ \A o \in MigrationRuns : o # r => migration'[o] = migration[o]
    BY DEF p, MigrationsInv, RunTypes
<1>5. RunTypes'
  <2>1. /\ DOMAIN p = RunFields /\ p.at \in {"idle", "waiting", "changing"}
        /\ p.plan \in Seq(Versions) /\ p.on \in Versions /\ p.row \in Versions /\ p.done \in Nat
      BY <1>1, <1>2
  <2> QED
      BY <2>1, <1>4 DEF MigrationsInv, RunTypes
<1> QED
    BY <1>3, <1>4, <1>5 DEF MigrationsInv

LEMMA CommitKeeps ==
    ASSUME MigrationsInv, NEW r \in MigrationRuns, Alembic!Commit(r)
    PROVE  MigrationsInv'
<1>1. /\ migration[r].at = "changing" /\ migration[r].plan = <<>>
      /\ version' = migration[r].row /\ schema' = migration[r].saw
      /\ migration' = [migration EXCEPT ![r] = Alembic!Idle]
    BY DEF Alembic!Commit
<1>2. migration[r].row \in Versions /\ migration[r].saw = SchemaOf(migration[r].row)
    BY <1>1 DEF MigrationsInv, RunTypes, OnItsTrail
<1> QED
    BY <1>1, <1>2, IdleKeeps

LEMMA RolledBackKeeps ==
    ASSUME MigrationsInv, NEW r \in MigrationRuns, Alembic!Rejected(r) \/ Alembic!Killed(r)
    PROVE  MigrationsInv'
<1>1. /\ migration' = [migration EXCEPT ![r] = Alembic!Idle]
      /\ version' = version /\ schema' = schema
    BY DEF Alembic!Rejected, Alembic!Killed
<1> QED
    BY <1>1, IdleKeeps DEF MigrationsInv

-----------------------------------------------------------------------------
(* The theorem *)

LEMMA MigrationsPart == PlatformSpec => Alembic!Init /\ [][Alembic!Next]_alembic_vars
<1>1. PlatformInit => Alembic!Init
    BY DEF PlatformInit
<1>2. [PlatformNext]_<<part, vars, alembic_vars, sync_vars, eval_vars, tuning_vars, mcp_vars,
                       viewer_vars>> => [Alembic!Next]_alembic_vars
    BY DEF PlatformNext
<1> QED
    BY <1>1, <1>2, PTL DEF PlatformSpec

LEMMA MigrationsInitial == Alembic!Init => MigrationsInv
<1> SUFFICES ASSUME Alembic!Init PROVE MigrationsInv
    OBVIOUS
<1> DEFINE p == Alembic!Idle
<1>1. /\ DOMAIN p = RunFields /\ p.at = "idle" /\ p.plan = <<>> /\ p.on = 0 /\ p.done = 0
      /\ p.row = 0
    BY DEF Alembic!Idle, RunFields
<1>2. p.plan \in Seq(Versions) /\ Len(p.plan) = 0 /\ 0 \in Versions
    BY <1>1, EmptySeq DEF Versions
<1>3. OnItsTrail(p)
    BY <1>1, <1>2 DEF OnItsTrail, Climbs
<1> HIDE DEF p
<1>4. migration = [r \in MigrationRuns |-> p] /\ version = 0 /\ schema = SchemaOf(0)
    BY DEF p, Alembic!Init, SchemaOf
<1>5. RunTypes
  <2>1. /\ DOMAIN p = RunFields /\ p.at \in {"idle", "waiting", "changing"}
        /\ p.plan \in Seq(Versions) /\ p.on \in Versions /\ p.row \in Versions /\ p.done \in Nat
      BY <1>1, <1>2
  <2> QED
      BY <2>1, <1>4 DEF RunTypes
<1> QED
    BY <1>2, <1>3, <1>4, <1>5 DEF MigrationsInv

LEMMA MigrationsStep == MigrationsInv /\ [Alembic!Next]_alembic_vars => MigrationsInv'
<1> SUFFICES ASSUME MigrationsInv, [Alembic!Next]_alembic_vars PROVE MigrationsInv'
    OBVIOUS
<1>1. CASE UNCHANGED alembic_vars
    BY <1>1 DEF MigrationsInv, RunTypes, alembic_vars
<1>2. CASE Alembic!Next
    BY <1>2, BeginKeeps, LockedKeeps, StatementKeeps, RevisionDoneKeeps, CommitKeeps,
       RolledBackKeeps
    DEF Alembic!Next
<1> QED
    BY <1>1, <1>2

\* The invariant holds in every state.
THEOREM MigrationsInductive == PlatformSpec => []MigrationsInv
<1> QED
    BY MigrationsPart, MigrationsInitial, MigrationsStep, PTL

\* What the models declare is the schema at the head.
LEMMA HeadIsMetadata == Schema3 = Alembic!Metadata
<1>1. Alembic!Columns("profiles", {"id", "is_pro", "created_at"}, {"display_name", "avatar_url"}) =
      Alembic!Columns("profiles", {"id", "created_at"}, {"display_name", "avatar_url"})
        \cup {IsPro}
    BY DEF Alembic!Columns, IsPro
<1> QED
    BY <1>1 DEF Schema3, Tables, UsersPart, ProfilesPart, NotesPart, TokensPart, IxEmail, IxNotes,
                IxTokens, Alembic!Metadata

\* Whatever runs came, overlapped, were rejected or killed, and in whichever order,
\* the committed definitions are those of the committed version: a run that finds
\* another version than it was planned for cannot finish its first revision, and one
\* that finds its own goes from schema to schema.
THEOREM PlatformSchemaIsOfItsVersion == PlatformSpec => []SchemaIsOfItsVersion
<1>1. MigrationsInv => SchemaIsOfItsVersion
  <2> SUFFICES ASSUME MigrationsInv PROVE SchemaIsOfItsVersion
      OBVIOUS
  <2>1. /\ version \in {0, 1, 2, 3} /\ schema = SchemaOf(version)
        /\ SchemaOf(0) = {} /\ SchemaOf(1) = Schema1 /\ SchemaOf(2) = Schema2
        /\ SchemaOf(3) = Schema3
      BY DEF MigrationsInv, Versions, SchemaOf
  <2>2. EmailKey.of = <<"email", TRUE>> /\ IxEmail.of = <<"email", TRUE>>
      BY DEF EmailKey, IxEmail, Alembic!Unique, Alembic!Index
  <2>3. EmailKey \in Schema1 /\ EmailKey \in Schema2 /\ IxEmail \in Schema3
      BY DEF Schema1, Schema2, Schema3
  <2>4. /\ version = 3 => schema = Alembic!Metadata
        /\ version = 0 <=> schema = {}
      BY <2>1, <2>3, HeadIsMetadata
  <2>5. ASSUME version > 0
        PROVE  \E o \in schema : /\ o.kind \in {"index", "constraint"} /\ o.table = "users"
                                 /\ o.of = <<"email", TRUE>>
    <3>1. EmailKey \in schema \/ IxEmail \in schema
        BY <2>5, <2>1, <2>3
    <3> QED
        BY <3>1, <2>2, ObjectsAre
  <2> QED
      BY <2>4, <2>5 DEF SchemaIsOfItsVersion, Alembic!SchemaIsOfItsVersion
<1> QED
    BY <1>1, MigrationsInductive, PTL

=============================================================================

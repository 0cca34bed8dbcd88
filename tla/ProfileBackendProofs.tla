------------------------- MODULE ProfileBackendProofs -------------------------
(* Theorems about ProfileBackend, for any number of requests and            *)
(* connections.                                                             *)
EXTENDS ProfileBackend, TLAPS

-----------------------------------------------------------------------------
(* Facts about the operators *)

\* A new version of a profile differs in the fields supplied.
LEMMA RewrittenProfile ==
    ASSUME NEW p \in Profile, NEW v,
           \/ DOMAIN v = {"is_pro"} /\ v["is_pro"] \in BOOLEAN
           \/ DOMAIN v \subseteq ProfileFields /\ \A f \in DOMAIN v : v[f] \in Values
    PROVE  /\ Rewritten(p, v) \in Profile
           /\ Rewritten(p, v).id = p.id
           /\ DOMAIN Rewritten(p, v) = DOMAIN p
           /\ \A f \in DOMAIN p : Rewritten(p, v)[f] =
                 IF f \in DOMAIN v THEN v[f] ELSE p[f]
<1>1. DOMAIN p = {"id", "display_name", "avatar_url", "is_pro"}
    BY DEF Profile
<1>2. /\ Rewritten(p, v) = [f \in DOMAIN p |-> IF f \in DOMAIN v THEN v[f] ELSE p[f]]
      /\ DOMAIN Rewritten(p, v) = DOMAIN p
      /\ \A f \in DOMAIN p : Rewritten(p, v)[f] = IF f \in DOMAIN v THEN v[f] ELSE p[f]
    BY DEF Rewritten
<1>3. "id" \notin DOMAIN v
    BY DEF ProfileFields
<1>4. Rewritten(p, v).id = p.id
    BY <1>1, <1>2, <1>3
<1>5. /\ p.id \in Requests /\ p.display_name \in Values
      /\ p.avatar_url \in Values /\ p.is_pro \in BOOLEAN
    BY DEF Profile
<1>6. /\ Rewritten(p, v).display_name \in Values
      /\ Rewritten(p, v).avatar_url \in Values
    BY <1>1, <1>2, <1>5 DEF ProfileFields
<1>7. Rewritten(p, v).is_pro \in BOOLEAN
    <2>1. "is_pro" \in DOMAIN v => DOMAIN v = {"is_pro"} /\ v["is_pro"] \in BOOLEAN
        BY DEF ProfileFields
    <2> QED
        BY <1>1, <1>2, <1>5, <2>1
<1>8. Rewritten(p, v) = [id |-> Rewritten(p, v).id,
                         display_name |-> Rewritten(p, v).display_name,
                         avatar_url |-> Rewritten(p, v).avatar_url,
                         is_pro |-> Rewritten(p, v).is_pro]
    BY <1>1, <1>2
<1>9. Rewritten(p, v) \in Profile
    BY <1>4, <1>5, <1>6, <1>7, <1>8 DEF Profile
<1> QED
    BY <1>2, <1>4, <1>9

\* What an update of a committed profile stages is a profile.
LEMMA StagedIsProfile ==
    ASSUME IInv, NEW r \in Requests, req[r].kind \in {"event", "patch"},
           NEW p \in profiles
    PROVE  /\ Rewritten(p, req[r].values) \in Profile
           /\ Rewritten(p, req[r].values).id = p.id
           /\ DOMAIN Rewritten(p, req[r].values) = DOMAIN p
           /\ \A f \in DOMAIN p : Rewritten(p, req[r].values)[f] =
                 IF f \in DOMAIN req[r].values THEN req[r].values[f] ELSE p[f]
<1> USE DEF IInv, TypeOK
<1> DEFINE v == req[r].values
<1>1. p \in Profile
    OBVIOUS
<1>2. \/ DOMAIN v = {"is_pro"} /\ v["is_pro"] \in BOOLEAN
      \/ /\ DOMAIN v \subseteq ProfileFields
         /\ \A f \in DOMAIN v : v[f] \in Values
    BY DEF RequestsByKind
<1> HIDE DEF v
<1>3. /\ Rewritten(p, v) \in Profile
      /\ Rewritten(p, v).id = p.id
      /\ DOMAIN Rewritten(p, v) = DOMAIN p
      /\ \A f \in DOMAIN p : Rewritten(p, v)[f] = IF f \in DOMAIN v THEN v[f] ELSE p[f]
    BY <1>1, <1>2, RewrittenProfile
<1> QED
    BY <1>3 DEF v

-----------------------------------------------------------------------------
(* Steps that leave the rows alone *)

\* The history does not move while nothing is committed.
LEMMA FieldsStand ==
    ASSUME IInv, profiles' = profiles, wrote' = wrote,
           \A w \in wrote : req'[w] = req[w] /\ before'[w] = before[w]
    PROVE  LatestAnsweredWins'
<1>1. ASSUME NEW u, NEW f PROVE Writers(u, f)' = Writers(u, f)
    BY DEF Writers
<1> SUFFICES ASSUME NEW p \in profiles, NEW f \in DOMAIN p
             PROVE  \E e \in Writers(p.id, f)' :
                       /\ p[f] = req'[e].values[f]
                       /\ \A w \in Writers(p.id, f)' : e \notin before'[w]
    BY DEF LatestAnsweredWins
<1>2. PICK e \in Writers(p.id, f) : /\ p[f] = req[e].values[f]
                                    /\ \A w \in Writers(p.id, f) : e \notin before[w]
    BY DEF IInv, LatestAnsweredWins
<1>3. \A w \in Writers(p.id, f) : w \in wrote
    BY DEF Writers
<1> QED
    BY <1>1, <1>2, <1>3

\* A step that moves one request on, and perhaps answers it.
LEMMA MoveStep ==
    ASSUME IInv, NEW r \in Requests, NEW step \in Steps, NEW code \in Codes,
           Goto(r, step), resp' = [resp EXCEPT ![r] = code],
           UNCHANGED <<req, tx, profiles, before, wrote>>,
           pc[r] \notin {"idle", "committed"}, step # "idle",
           step = "insert" => req[r].kind = "register",
           step = "update" => req[r].kind \in {"event", "patch"},
           step = "select" => req[r].kind \in {"patch", "read"},
           Answered(r) => code = resp[r],
           code \in {200, 201} => step \in {"commit"} \cup Finished,
           code = 201 => req[r].kind = "register",
           tx[r] # {} => step \in {"select", "answer", "commit"},
           (req[r].kind = "register" /\ step \in {"answer", "commit"}) =>
               tx[r] = {req[r].values}
    PROVE  IInv'
<1> USE DEF IInv, Goto
<1>1. /\ pc' \in [Requests -> Steps] /\ pc'[r] = step
      /\ resp' \in [Requests -> Codes] /\ resp'[r] = code
      /\ \A s \in Requests \ {r} : pc'[s] = pc[s] /\ resp'[s] = resp[s]
    BY DEF TypeOK
<1>2. TypeOK'
    BY <1>1 DEF TypeOK
<1>3. RequestsByKind'
    BY <1>1 DEF RequestsByKind
<1>4. AnswersInOrder'
    BY <1>1 DEF AnswersInOrder, Answered
<1>5. \A s \in Requests : Updating(s)' = Updating(s)
    BY DEF Updating
<1>6. StagedRows'
    BY <1>1, <1>5 DEF StagedRows
<1>7. RowsLocked' /\ NotOvertaken'
    BY <1>5 DEF RowsLocked, NotOvertaken
<1>8. CommittedRows'
    BY <1>1 DEF CommittedRows
<1>9. LatestAnsweredWins'
    BY FieldsStand
<1> QED
    BY <1>2, <1>3, <1>4, <1>6, <1>7, <1>8, <1>9

LEMMA AbortStep ==
    ASSUME IInv, NEW r \in Requests, NEW code \in Codes, Abort(r, code),
           pc[r] \notin {"idle", "committed"},
           code \notin {200, 201} \/ code = resp[r],
           Answered(r) => code = resp[r]
    PROVE  IInv'
<1> USE DEF IInv, Abort, Goto
<1>1. /\ pc' \in [Requests -> Steps] /\ pc'[r] = "aborted"
      /\ resp' \in [Requests -> Codes] /\ resp'[r] = code
      /\ tx' \in [Requests -> SUBSET Profile] /\ tx'[r] = {}
      /\ \A s \in Requests \ {r} : pc'[s] = pc[s] /\ resp'[s] = resp[s] /\ tx'[s] = tx[s]
    BY DEF TypeOK, Steps, Finished
<1>2. TypeOK'
    BY <1>1 DEF TypeOK
<1>3. RequestsByKind'
    BY <1>1 DEF RequestsByKind
<1>4. AnswersInOrder'
    BY <1>1 DEF AnswersInOrder, Answered, Finished
<1>5. /\ ~Updating(r)'
      /\ \A s \in Requests \ {r} : Updating(s)' = Updating(s)
    BY <1>1 DEF Updating
<1>6. StagedRows'
    BY <1>1, <1>5 DEF StagedRows
<1>7. RowsLocked' /\ NotOvertaken'
    BY <1>5 DEF RowsLocked, NotOvertaken
<1>8. CommittedRows'
    BY <1>1 DEF CommittedRows
<1>9. LatestAnsweredWins'
    BY FieldsStand
<1> QED
    BY <1>2, <1>3, <1>4, <1>6, <1>7, <1>8, <1>9

-----------------------------------------------------------------------------
(* Steps of one request *)

\* What a request that arrives may ask for.
Fits(r, kind, u, v) ==
    /\ kind = "register" => u = r /\ v \in Profile /\ v.id = r /\ ~v.is_pro
    /\ kind \in {"event", "patch", "read"} => u \in Requests /\ resp[u] = 201
    /\ kind = "event" => DOMAIN v = {"is_pro"} /\ v["is_pro"] \in BOOLEAN
    /\ kind = "patch" => /\ DOMAIN v \subseteq ProfileFields
                         /\ \A f \in DOMAIN v : v[f] \in Values
Asks(r, kind, u, v) ==
    req' = [req EXCEPT ![r] = [kind |-> kind, user |-> u, values |-> v]]

LEMMA ArriveStep == ASSUME IInv, NEW r \in Requests, Arrive(r) PROVE IInv'
<1> USE DEF IInv
<1>1. PICK kind \in Kinds, u \in Values, v \in Supplied :
          Asks(r, kind, u, v) /\ Fits(r, kind, u, v)
    <2>1. Nothing \in Supplied
        <3>1. Nothing \in [{} -> Values]
            BY DEF Nothing
        <3> QED
            BY <3>1 DEF Supplied
    <2>2. CASE \E name \in {r, None} : Asks(r, "register", r, NewProfile(r, name))
        <3>1. PICK name \in {r, None} : Asks(r, "register", r, NewProfile(r, name))
            BY <2>2
        <3>2. NewProfile(r, name) \in Profile /\ NewProfile(r, name).id = r
                 /\ ~NewProfile(r, name).is_pro
            BY DEF NewProfile, Profile, Values
        <3>3. Fits(r, "register", r, NewProfile(r, name))
            BY <3>2 DEF Fits
        <3>4. "register" \in Kinds /\ r \in Values /\ NewProfile(r, name) \in Supplied
            BY <3>2 DEF Kinds, Values, Supplied
        <3> QED
            BY <3>1, <3>3, <3>4
    <2>3. CASE \E kind \in Events \ {"event"} : Asks(r, kind, None, Nothing)
        <3>1. PICK kind \in Events \ {"event"} : Asks(r, kind, None, Nothing)
            BY <2>3
        <3>2. Fits(r, kind, None, Nothing) /\ kind \in Kinds /\ None \in Values
            BY <3>1 DEF Fits, Kinds, Events, Values
        <3> QED
            BY <2>1, <3>1, <3>2
    <2>4. CASE \E u \in {c \in Requests : resp[c] = 201} : Asks(r, "read", u, Nothing)
        <3>1. PICK u \in {c \in Requests : resp[c] = 201} : Asks(r, "read", u, Nothing)
            BY <2>4
        <3>2. Fits(r, "read", u, Nothing) /\ "read" \in Kinds /\ u \in Values
            BY DEF Fits, Kinds, Values
        <3> QED
            BY <2>1, <3>1, <3>2
    <2>5. CASE \E u \in {c \in Requests : resp[c] = 201} :
                 \E S \in SUBSET ProfileFields : \E v \in [S -> {r, None}] :
                   Asks(r, "patch", u, v)
        <3>1. PICK u \in {c \in Requests : resp[c] = 201}, S \in SUBSET ProfileFields :
                 \E v \in [S -> {r, None}] : Asks(r, "patch", u, v)
            BY <2>5
        <3>2. PICK v \in [S -> {r, None}] : Asks(r, "patch", u, v)
            BY <3>1
        <3>3. v \in [S -> Values] /\ DOMAIN v = S /\ \A f \in S : v[f] \in Values
            BY DEF Values
        <3>4. Fits(r, "patch", u, v) /\ "patch" \in Kinds /\ u \in Values
            BY <3>3 DEF Fits, Kinds, Values
        <3>5. v \in Supplied
            BY <3>3 DEF Supplied
        <3> QED
            BY <3>2, <3>4, <3>5
    <2>6. CASE \E u \in {c \in Requests : resp[c] = 201} : \E is_pro \in BOOLEAN :
                   Asks(r, "event", u, [is_pro |-> is_pro])
        <3>1. PICK u \in {c \in Requests : resp[c] = 201}, is_pro \in BOOLEAN :
                   Asks(r, "event", u, [is_pro |-> is_pro])
            BY <2>6
        <3>2. /\ DOMAIN [is_pro |-> is_pro] = {"is_pro"}
              /\ [is_pro |-> is_pro]["is_pro"] \in BOOLEAN
              /\ [is_pro |-> is_pro] \in [{"is_pro"} -> BOOLEAN]
            OBVIOUS
        <3>3. Fits(r, "event", u, [is_pro |-> is_pro])
            BY <3>2 DEF Fits
        <3>4. "event" \in Kinds /\ u \in Values /\ [is_pro |-> is_pro] \in Supplied
            BY <3>2 DEF Kinds, Events, Values, Supplied
        <3> QED
            BY <3>1, <3>3, <3>4
    <2> QED
        BY <2>2, <2>3, <2>4, <2>5, <2>6 DEF Arrive, Asks
<1>2. /\ req' \in [Requests -> Request]
      /\ req'[r].kind = kind /\ req'[r].user = u /\ req'[r].values = v
      /\ \A s \in Requests \ {r} : req'[s] = req[s]
    BY <1>1 DEF TypeOK, Request, Values, Asks
<1>3. /\ UNCHANGED <<resp, tx, profiles, wrote>>
      /\ pc[r] = "idle" /\ pc' \in [Requests -> Steps] /\ pc'[r] = "connect"
      /\ before' \in [Requests -> SUBSET Requests]
      /\ before'[r] = {a \in Requests : resp[a] \in {200, 201}}
      /\ \A s \in Requests \ {r} : pc'[s] = pc[s] /\ before'[s] = before[s]
    BY DEF TypeOK, Steps, Arrive, Goto
<1>4. /\ req[r].kind = "none" /\ tx[r] = {} /\ resp[r] \notin {200, 201} /\ r \notin wrote
    BY <1>3 DEF AnswersInOrder, StagedRows, CommittedRows, Answered, Finished
<1>5. TypeOK'
    BY <1>2, <1>3 DEF TypeOK
<1>6. RequestsByKind'
    BY <1>1, <1>2, <1>3, <1>4 DEF RequestsByKind, AnswersInOrder, Fits
<1>7. AnswersInOrder'
    BY <1>2, <1>3, <1>4 DEF AnswersInOrder, Answered
<1>8. /\ ~Updating(r)'
      /\ \A s \in Requests \ {r} : Updating(s)' = Updating(s)
    BY <1>2, <1>3, <1>4 DEF Updating
<1>9. StagedRows'
    BY <1>2, <1>3, <1>4, <1>8 DEF StagedRows
<1>10. RowsLocked' /\ NotOvertaken'
    BY <1>2, <1>3, <1>4, <1>8 DEF RowsLocked, NotOvertaken
<1>11. CommittedRows'
    BY <1>2, <1>3, <1>4 DEF CommittedRows, TypeOK, Profile
<1>12. LatestAnsweredWins'
    BY <1>2, <1>3, <1>4, FieldsStand DEF TypeOK
<1> QED
    BY <1>5, <1>6, <1>7, <1>9, <1>10, <1>11, <1>12

LEMMA InsertStep == ASSUME IInv, NEW r \in Requests, InsertProfile(r) PROVE IInv'
<1> USE DEF IInv, InsertProfile, Goto
<1>1. /\ req[r].kind = "register" /\ req[r].values \in Profile
      /\ ~Answered(r) /\ pc[r] = "insert"
    BY DEF RequestsByKind, AnswersInOrder, Finished
<1>2. /\ pc' \in [Requests -> Steps] /\ pc'[r] = "answer"
      /\ tx' \in [Requests -> SUBSET Profile] /\ tx'[r] = {req[r].values}
      /\ \A s \in Requests \ {r} : pc'[s] = pc[s] /\ tx'[s] = tx[s]
    BY <1>1 DEF TypeOK, Steps, Working
<1>3. TypeOK'
    BY <1>2 DEF TypeOK
<1>4. RequestsByKind' /\ AnswersInOrder'
    BY <1>1, <1>2 DEF RequestsByKind, AnswersInOrder, Answered
<1>5. \A s \in Requests : Updating(s)' = Updating(s)
    BY <1>1, <1>2 DEF Updating
<1>6. StagedRows'
    BY <1>1, <1>2, <1>5 DEF StagedRows
<1>7. RowsLocked' /\ NotOvertaken'
    BY <1>5 DEF RowsLocked, NotOvertaken
<1>8. CommittedRows'
    BY <1>1, <1>2 DEF CommittedRows
<1>9. LatestAnsweredWins'
    BY FieldsStand
<1> QED
    BY <1>3, <1>4, <1>6, <1>7, <1>8, <1>9

\* An UPDATE stages a new version of the committed row, or nothing.
LEMMA UpdateEffect ==
    ASSUME IInv, NEW r \in Requests, UpdateProfile(r)
    PROVE  \/ /\ tx' = [tx EXCEPT ![r] = {}]
              /\ \A p \in profiles : p.id # req[r].user
           \/ \E p \in profiles :
                /\ p.id = req[r].user
                /\ tx' = [tx EXCEPT ![r] = {Rewritten(p, req[r].values)}]
<1> USE DEF IInv, UpdateProfile
<1>1. tx[r] = {}
    BY DEF StagedRows
<1>2. Selected(r) = {p \in profiles : p.id = req[r].user}
    BY <1>1 DEF Selected, View
<1>3. CASE Selected(r) = {}
    BY <1>2, <1>3
<1>4. CASE Selected(r) # {}
    <2>1. PICK p \in profiles : p.id = req[r].user /\ Selected(r) = {p}
        BY <1>2, <1>4 DEF TypeOK
    <2>2. {Rewritten(q, req[r].values) : q \in Selected(r)} = {Rewritten(p, req[r].values)}
        BY <2>1
    <2> QED
        BY <2>1, <2>2
<1> QED
    BY <1>3, <1>4

LEMMA UpdateStep == ASSUME IInv, NEW r \in Requests, UpdateProfile(r) PROVE IInv'
<1> USE DEF IInv
<1>1. /\ req[r].kind \in {"event", "patch"} /\ pc[r] = "update" /\ ~Answered(r)
      /\ UNCHANGED <<req, resp, profiles, before, wrote>>
      /\ tx[r] = {} /\ r \notin wrote
    BY DEF RequestsByKind, AnswersInOrder, Finished, UpdateProfile, StagedRows,
       CommittedRows
<1>2. /\ pc' \in [Requests -> Steps]
      /\ pc'[r] = IF req[r].kind = "event" THEN "answer" ELSE "select"
      /\ \A s \in Requests \ {r} : pc'[s] = pc[s]
    BY DEF TypeOK, Steps, Working, UpdateProfile, Goto
<1>3. /\ tx' \in [Requests -> SUBSET Profile]
      /\ tx'[r] # {} => \E p \in profiles : /\ p.id = req[r].user
                                            /\ tx'[r] = {Rewritten(p, req[r].values)}
      /\ \A s \in Requests \ {r} : tx'[s] = tx[s]
    <2>1. \A p \in profiles : Rewritten(p, req[r].values) \in Profile
        BY <1>1, StagedIsProfile
    <2> QED
        BY <2>1, UpdateEffect DEF TypeOK
<1>4. TypeOK'
    BY <1>1, <1>2, <1>3 DEF TypeOK
<1>5. RequestsByKind' /\ AnswersInOrder'
    BY <1>1, <1>2 DEF RequestsByKind, AnswersInOrder, Answered
<1>6. \A s \in Requests \ {r} : Updating(s)' = Updating(s)
    BY <1>1, <1>3 DEF Updating
<1>7. StagedRows'
    BY <1>1, <1>2, <1>3, <1>6 DEF StagedRows, Updating
<1>8. \A s \in Requests \ {r} : Updating(s) => req[s].user # req[r].user
    <2> SUFFICES ASSUME NEW s \in Requests \ {r}, Updating(s), req[s].user = req[r].user
                 PROVE  FALSE
        OBVIOUS
    <2>1. PICK p \in profiles : /\ p.id = req[s].user
                               /\ tx[s] = {Rewritten(p, req[s].values)}
        BY DEF StagedRows
    <2>2. Rewritten(p, req[s].values).id = req[r].user
        BY <2>1, StagedIsProfile DEF Updating
    <2>3. s # req[r].user
        BY <1>1 DEF RequestsByKind, Updating
    <2> QED
        BY <2>1, <2>2, <2>3 DEF UpdateProfile, RowLockedByOther
<1>9. RowsLocked'
    BY <1>1, <1>6, <1>8 DEF RowsLocked
<1>10. NotOvertaken'
    BY <1>1, <1>6 DEF NotOvertaken, AnswersInOrder
<1>11. CommittedRows'
    BY <1>1, <1>2 DEF CommittedRows, TypeOK
<1>12. LatestAnsweredWins'
    BY <1>1, FieldsStand
<1> QED
    BY <1>4, <1>5, <1>7, <1>9, <1>10, <1>11, <1>12

-----------------------------------------------------------------------------
(* The commit *)

\* A commit adds nothing, a new profile, or a new version of one.
CommitsNothing(r) == tx[r] = {} /\ profiles' = profiles /\ wrote' = wrote
CommitsProfile(r) ==
    /\ req[r].kind = "register" /\ wrote' = wrote \cup {r}
    /\ req[r].user = r /\ req[r].values \in Profile
    /\ req[r].values.id = r /\ ~req[r].values.is_pro
    /\ r \notin wrote /\ \A q \in profiles : q.id # r
    /\ profiles' = profiles \cup {req[r].values}
CommitsUpdate(r, p) ==
    /\ Updating(r) /\ wrote' = wrote \cup {r}
    /\ p \in profiles /\ p.id = req[r].user
    /\ \A q \in profiles : q.id = req[r].user => q = p
    /\ profiles' = (profiles \ {p}) \cup {Rewritten(p, req[r].values)}

LEMMA CommitEffect ==
    ASSUME IInv, NEW r \in Requests, Commit(r)
    PROVE  \/ CommitsNothing(r)
           \/ CommitsProfile(r)
           \/ \E p \in profiles : CommitsUpdate(r, p)
<1> USE DEF IInv, Commit
<1>1. CASE tx[r] = {}
    <2>1. View(r) = profiles
        BY <1>1 DEF View
    <2> QED
        BY <1>1, <2>1 DEF CommitsNothing
<1>2. CASE tx[r] # {} /\ req[r].kind = "register"
    <2>1. /\ tx[r] = {req[r].values} /\ req[r].values.id = r /\ req[r].user = r
          /\ req[r].values \in Profile /\ ~req[r].values.is_pro
        BY <1>2 DEF StagedRows, RequestsByKind
    <2>2. r \notin wrote /\ \A q \in profiles : q.id # r
        BY DEF CommittedRows
    <2>3. View(r) = profiles \cup {req[r].values}
        BY <2>1, <2>2 DEF View
    <2> QED
        BY <1>2, <2>1, <2>2, <2>3 DEF CommitsProfile
<1>3. CASE tx[r] # {} /\ req[r].kind # "register"
    <2>1. Updating(r)
        BY <1>3 DEF StagedRows, Updating
    <2>2. PICK p \in profiles : /\ p.id = req[r].user
                               /\ tx[r] = {Rewritten(p, req[r].values)}
        BY <2>1 DEF StagedRows
    <2>3. Rewritten(p, req[r].values).id = p.id
        BY <2>1, StagedIsProfile DEF Updating
    <2>4. \A q \in profiles : q.id = req[r].user => q = p
        BY <2>2 DEF TypeOK
    <2>5. View(r) = (profiles \ {p}) \cup {Rewritten(p, req[r].values)}
        BY <2>2, <2>3, <2>4 DEF View
    <2> QED
        BY <1>3, <2>1, <2>2, <2>4, <2>5 DEF CommitsUpdate
<1> QED
    BY <1>1, <1>2, <1>3

\* The writers of the fields that a commit leaves alone stay the same.
LEMMA WritersStand ==
    ASSUME NEW r \in Requests, wrote' = wrote \cup {r}, req' = req,
           NEW u, NEW f, req[r].user # u \/ f \notin DOMAIN req[r].values
    PROVE  Writers(u, f)' = Writers(u, f)
BY DEF Writers

\* The new profile, and every field an update supplies, are the latest.
LEMMA CommitIsLatest ==
    ASSUME IInv, NEW r \in Requests, Commit(r)
    PROVE  LatestAnsweredWins'
<1> USE DEF IInv
<1>1. /\ pc[r] = "commit" /\ req' = req /\ before' = before
      /\ r \notin before[r] /\ r \notin wrote
    BY DEF Commit, AnswersInOrder, CommittedRows
<1>2. ASSUME NEW p \in profiles, NEW f \in DOMAIN p, wrote' = wrote \cup {r},
             req[r].user # p.id \/ f \notin DOMAIN req[r].values
      PROVE  \E e \in Writers(p.id, f)' :
                /\ p[f] = req[e].values[f]
                /\ \A w \in Writers(p.id, f)' : e \notin before[w]
    <2>1. Writers(p.id, f)' = Writers(p.id, f)
        BY <1>1, <1>2, WritersStand
    <2> QED
        BY <2>1 DEF LatestAnsweredWins
<1>3. CASE CommitsNothing(r)
    BY <1>1, <1>3, FieldsStand DEF CommitsNothing
<1>4. CASE CommitsProfile(r)
    <2> USE <1>4 DEF CommitsProfile
    <2>1. ASSUME NEW f \in DOMAIN req[r].values
          PROVE  \E e \in Writers(r, f)' :
                    /\ req[r].values[f] = req[e].values[f]
                    /\ \A w \in Writers(r, f)' : e \notin before[w]
        <3>1. r \in Writers(r, f)'
            BY <1>1, <2>1 DEF Writers
        <3>2. \A w \in Writers(r, f)' : w = r
            BY <1>1 DEF Writers, CommittedRows
        <3> QED
            BY <1>1, <3>1, <3>2
    <2>2. ASSUME NEW p \in profiles', NEW f \in DOMAIN p
          PROVE  \E e \in Writers(p.id, f)' :
                    /\ p[f] = req[e].values[f]
                    /\ \A w \in Writers(p.id, f)' : e \notin before[w]
        <3>1. CASE p = req[r].values
            BY <2>1, <2>2, <3>1
        <3>2. CASE p \in profiles
            BY <1>2, <2>2, <3>2
        <3> QED
            BY <2>2, <3>1, <3>2
    <2> QED
        BY <1>1, <2>2 DEF LatestAnsweredWins
<1>5. ASSUME NEW p \in profiles, CommitsUpdate(r, p) PROVE LatestAnsweredWins'
    <2> USE <1>5 DEF CommitsUpdate
    <2> DEFINE q == Rewritten(p, req[r].values)
    <2>1. /\ q.id = p.id /\ DOMAIN q = DOMAIN p
          /\ \A f \in DOMAIN p : q[f] = IF f \in DOMAIN req[r].values
                                         THEN req[r].values[f] ELSE p[f]
        BY StagedIsProfile DEF Updating
    <2> HIDE DEF q
    <2>2. ASSUME NEW f \in DOMAIN p
          PROVE  \E e \in Writers(p.id, f)' :
                    /\ q[f] = req[e].values[f]
                    /\ \A w \in Writers(p.id, f)' : e \notin before[w]
        <3>1. CASE f \in DOMAIN req[r].values
            <4>1. r \in Writers(p.id, f)' /\ q[f] = req[r].values[f]
                BY <1>1, <2>1, <2>2, <3>1 DEF Writers
            <4>2. ASSUME NEW w \in Writers(p.id, f)' PROVE r \notin before[w]
                <5>1. w = r \/ (w \in wrote /\ req[w].user = req[r].user)
                    BY <1>1, <4>2 DEF Writers
                <5> QED
                    BY <1>1, <5>1 DEF NotOvertaken, TypeOK
            <4> QED
                BY <4>1, <4>2
        <3>2. CASE f \notin DOMAIN req[r].values
            BY <1>2, <2>1, <2>2, <3>2
        <3> QED
            BY <3>1, <3>2
    <2>3. ASSUME NEW c \in profiles', NEW f \in DOMAIN c
          PROVE  \E e \in Writers(c.id, f)' :
                    /\ c[f] = req[e].values[f]
                    /\ \A w \in Writers(c.id, f)' : e \notin before[w]
        <3>1. CASE c = q
            BY <2>1, <2>2, <2>3, <3>1
        <3>2. CASE c \in profiles /\ c # p
            BY <1>2, <2>3, <3>2
        <3> QED
            BY <2>3, <3>1, <3>2 DEF q
    <2> QED
        BY <1>1, <2>3 DEF LatestAnsweredWins
<1> QED
    BY <1>3, <1>4, <1>5, CommitEffect

LEMMA CommitStep == ASSUME IInv, NEW r \in Requests, Commit(r) PROVE IInv'
<1> USE DEF IInv
<1>1. /\ pc[r] = "commit" /\ req' = req /\ before' = before /\ resp' = resp
      /\ pc' \in [Requests -> Steps] /\ pc'[r] = "committed"
      /\ tx' \in [Requests -> SUBSET Profile] /\ tx'[r] = {}
      /\ \A s \in Requests \ {r} : pc'[s] = pc[s] /\ tx'[s] = tx[s]
    BY DEF Commit, Goto, TypeOK, Steps, Finished
<1>2. ASSUME NEW p \in profiles, CommitsUpdate(r, p)
      PROVE  /\ Rewritten(p, req[r].values) \in Profile
             /\ Rewritten(p, req[r].values).id = p.id
    BY <1>2, StagedIsProfile DEF CommitsUpdate, Updating
<1>3. /\ profiles' \subseteq Profile /\ wrote' \subseteq Requests
      /\ \A p, q \in profiles' : p.id = q.id => p = q
    BY <1>2, CommitEffect DEF TypeOK, CommitsNothing, CommitsProfile, CommitsUpdate
<1>4. TypeOK'
    BY <1>1, <1>3 DEF TypeOK
<1>5. RequestsByKind'
    BY <1>1 DEF RequestsByKind
<1>6. AnswersInOrder'
    BY <1>1 DEF AnswersInOrder, Answered, Finished
<1>7. /\ ~Updating(r)'
      /\ \A s \in Requests \ {r} : Updating(s)' = Updating(s)
    BY <1>1 DEF Updating
<1>8. ASSUME NEW s \in Requests \ {r}, Updating(s)
      PROVE  \E p \in profiles' : /\ p.id = req[s].user
                                  /\ tx[s] = {Rewritten(p, req[s].values)}
    <2>1. PICK p \in profiles : /\ p.id = req[s].user
                               /\ tx[s] = {Rewritten(p, req[s].values)}
        BY <1>8 DEF StagedRows
    <2>2. p \in profiles'
        BY <1>8, <2>1, CommitEffect DEF RowsLocked, CommitsNothing, CommitsProfile,
           CommitsUpdate
    <2> QED
        BY <2>1, <2>2
<1>9. StagedRows'
    BY <1>1, <1>7, <1>8 DEF StagedRows
<1>10. RowsLocked'
    BY <1>1, <1>7 DEF RowsLocked
<1>11. CommittedRows'
    <2>1. \A w \in wrote' : w \in wrote \/ w = r
        BY CommitEffect DEF CommitsNothing, CommitsProfile, CommitsUpdate
    <2>2. r \in wrote' => /\ req[r].kind \in {"register", "event", "patch"}
                          /\ req[r].user \in wrote'
        BY <1>1, CommitEffect DEF CommittedRows, CommitsNothing, CommitsProfile,
           CommitsUpdate, Updating
    <2>3. wrote \subseteq wrote'
        BY CommitEffect DEF CommitsNothing, CommitsProfile, CommitsUpdate
    <2>4. \A p \in profiles' : p.id \in wrote' /\ req[p.id].kind = "register"
        BY <1>2, <2>3, CommitEffect DEF CommittedRows, CommitsNothing, CommitsProfile,
           CommitsUpdate
    <2> QED
        BY <1>1, <2>1, <2>2, <2>3, <2>4 DEF CommittedRows, TypeOK
<1>12. NotOvertaken'
    <2> SUFFICES ASSUME NEW e \in Requests \ {r}, NEW w \in Requests, Updating(e),
                        e \in before[w], w \in wrote'
                 PROVE  req[w].user # req[e].user
        BY <1>1, <1>7 DEF NotOvertaken
    <2>1. CASE w \in wrote
        BY <2>1 DEF NotOvertaken
    <2>2. CASE CommitsProfile(r) /\ w = r
        BY <2>2 DEF CommitsProfile, StagedRows
    <2>3. CASE Updating(r) /\ w = r
        BY <2>3 DEF RowsLocked
    <2> QED
        BY <2>1, <2>2, <2>3, CommitEffect DEF CommitsNothing, CommitsUpdate, CommitsProfile
<1>13. LatestAnsweredWins'
    BY CommitIsLatest
<1> QED
    BY <1>4, <1>5, <1>6, <1>9, <1>10, <1>11, <1>12, <1>13

-----------------------------------------------------------------------------
(* The invariant *)

LEMMA HandleStep == ASSUME IInv, NEW r \in Requests, Handle(r) PROVE IInv'
<1> USE DEF IInv
<1>1. CASE Connect(r)
    <2>1. FirstStep(r) \in {"insert", "update", "select"}
        BY <1>1 DEF Connect, FirstStep
    <2>2. /\ FirstStep(r) = "insert" => req[r].kind = "register"
          /\ FirstStep(r) = "update" => req[r].kind \in {"event", "patch"}
          /\ FirstStep(r) = "select" => req[r].kind \in {"patch", "read"}
        BY <1>1 DEF Connect, FirstStep
    <2>3. /\ pc[r] = "connect" /\ tx[r] = {} /\ ~Answered(r)
          /\ resp' = [resp EXCEPT ![r] = resp[r]] /\ resp[r] \in Codes
          /\ FirstStep(r) \in Steps
        BY <1>1, <2>1 DEF Connect, StagedRows, AnswersInOrder, Finished, TypeOK, Steps,
           Working
    <2> QED
        BY <1>1, <2>1, <2>2, <2>3, MoveStep, ZenonT(60) DEF Connect, Answered
<1>2. CASE EventIgnored(r)
    <2>1. /\ pc[r] = "connect" /\ tx[r] = {} /\ ~Answered(r)
        BY <1>2 DEF EventIgnored, StagedRows, AnswersInOrder, Finished
    <2>2. "committed" \in Steps /\ "committed" \in Finished /\ 200 \in Codes
        BY DEF Steps, Finished, Codes
    <2> DEFINE step == "committed"
               code == 200
    <2>3. /\ Goto(r, step) /\ resp' = [resp EXCEPT ![r] = code]
          /\ UNCHANGED <<req, tx, profiles, before, wrote>>
          /\ req[r].kind = "ignored"
        BY <1>2 DEF EventIgnored
    <2>4. /\ step \in Steps /\ step \in Finished /\ code \in Codes /\ code # 201
          /\ step \notin {"idle", "insert", "update", "select", "answer", "commit"}
        BY <2>2
    <2> HIDE DEF step, code
    <2> QED
        BY <2>1, <2>3, <2>4, MoveStep
<1>3. CASE ProfileFound(r)
    <2>1. /\ pc[r] = "select" /\ ~Answered(r) /\ req[r].kind \in {"patch", "read"}
          /\ resp' = [resp EXCEPT ![r] = resp[r]] /\ resp[r] \in Codes
        BY <1>3 DEF ProfileFound, RequestsByKind, AnswersInOrder, Finished, TypeOK
    <2> QED
        BY <1>3, <2>1, MoveStep, ZenonT(60) DEF ProfileFound, Steps, Working, Answered
<1>4. CASE Answer(r)
    <2>1. /\ pc[r] = "answer" /\ ~Answered(r)
          /\ req[r].kind = "register" => tx[r] = {req[r].values}
        BY <1>4 DEF Answer, StagedRows, AnswersInOrder, Finished
    <2> DEFINE code == IF req[r].kind = "register" THEN 201 ELSE 200
    <2>2. /\ "commit" \in Steps /\ code \in Codes
          /\ code = 201 => req[r].kind = "register"
        BY DEF Steps, Codes
    <2>3. Goto(r, "commit") /\ resp' = [resp EXCEPT ![r] = code]
        BY <1>4 DEF Answer
    <2> HIDE DEF code
    <2> QED
        BY <1>4, <2>1, <2>2, <2>3, MoveStep DEF Answer
<1>5. ASSUME NEW code \in {404, 422, 500}, Abort(r, code),
             pc[r] \in {"connect", "select"}
      PROVE  IInv'
    <2>1. ~Answered(r)
        BY <1>5 DEF AnswersInOrder, Finished
    <2> QED
        BY <1>5, <2>1, AbortStep DEF Codes
<1>6. CASE \/ MissingAppUserId(r) \/ AnonymousAppUserId(r) \/ NothingToUpdate(r)
           \/ ProfileNotFound(r)
    BY <1>5, <1>6 DEF MissingAppUserId, AnonymousAppUserId, NothingToUpdate,
       ProfileNotFound
<1> QED
    BY <1>1, <1>2, <1>3, <1>4, <1>6, InsertStep, UpdateStep, CommitStep DEF Handle

LEMMA DisturbStep == ASSUME IInv, NEW r \in Requests, Disturb(r) PROVE IInv'
<1> USE DEF IInv
<1>1. ASSUME NEW code \in {401, 500}, Abort(r, code),
             pc[r] \in {"connect"} \cup Working
      PROVE  IInv'
    <2>1. ~Answered(r)
        BY <1>1 DEF AnswersInOrder, Finished, Working
    <2> QED
        BY <1>1, <2>1, AbortStep DEF Codes, Working
<1>2. CASE Refused(r) \/ PoolTimeout(r) \/ StatementFails(r)
    BY <1>1, <1>2 DEF Refused, PoolTimeout, StatementFails
<1>3. CASE CommitFails(r)
    <2>1. pc[r] = "commit" /\ Abort(r, resp[r]) /\ resp[r] \in Codes
        BY <1>3 DEF CommitFails, TypeOK
    <2> QED
        BY <2>1, AbortStep
<1> QED
    BY <1>2, <1>3 DEF Disturb

\* The invariant holds in every reachable state: requests, history, open
\* transactions and committed profiles fit together.
THEOREM Invariance == Spec => []IInv
<1>1. Init => IInv
    <2> SUFFICES ASSUME Init PROVE IInv
        OBVIOUS
    <2>1. Nothing \in Supplied
        <3>1. Nothing \in [{} -> Values]
            BY DEF Nothing
        <3> QED
            BY <3>1 DEF Supplied
    <2>2. TypeOK
        BY <2>1 DEF Init, TypeOK, Steps, Request, Codes
    <2> QED
        BY <2>2 DEF Init, IInv, RequestsByKind, AnswersInOrder, Answered, StagedRows,
           RowsLocked, Updating, CommittedRows, NotOvertaken, LatestAnsweredWins
<1>2. IInv /\ [Next]_vars => IInv'
    <2> SUFFICES ASSUME IInv, [Next]_vars PROVE IInv'
        OBVIOUS
    <2>1. CASE UNCHANGED vars
        BY <2>1 DEF vars, IInv, TypeOK, RequestsByKind, AnswersInOrder, Answered,
           StagedRows, RowsLocked, Updating, CommittedRows, NotOvertaken,
           LatestAnsweredWins, Writers
    <2> QED
        BY <2>1, ArriveStep, HandleStep, DisturbStep DEF Next, Quiescent
<1> QED
    BY <1>1, <1>2, PTL DEF Spec

\* The state is well typed, and no two profiles have one id.
THEOREM TypeCorrect == Spec => []TypeOK
<1>1. IInv => TypeOK
    BY DEF IInv
<1> QED
    BY <1>1, Invariance, PTL

\* A caller that waits for each answer is obeyed in order, whoever else writes
\* to the profile; is_pro in particular follows the events.
THEOREM ObeyedInOrder == Spec => []LatestAnsweredWins
<1>1. IInv => LatestAnsweredWins
    BY DEF IInv
<1> QED
    BY <1>1, Invariance, PTL

-----------------------------------------------------------------------------
(* The backend implements the cards *)

LEMMA CommitIsCardsStep ==
    ASSUME IInv, NEW r \in Requests, Commit(r)
    PROVE  [Cards!CardsNext]_profiles
<1> USE DEF IInv
<1>1. CASE CommitsNothing(r)
    BY <1>1 DEF CommitsNothing
<1>2. CASE CommitsProfile(r)
    <2>1. Cards!Open(req[r].values) /\ req[r].values \in Cards!Card
        BY <1>2 DEF CommitsProfile, Cards!Open, Cards!Card, Profile
    <2> QED
        BY <2>1 DEF Cards!CardsNext
<1>3. ASSUME NEW p \in profiles, CommitsUpdate(r, p) PROVE [Cards!CardsNext]_profiles
    <2> USE <1>3 DEF CommitsUpdate
    <2> DEFINE q == Rewritten(p, req[r].values)
    <2>1. /\ q \in Profile
          /\ \A f \in DOMAIN p : q[f] = IF f \in DOMAIN req[r].values
                                         THEN req[r].values[f] ELSE p[f]
        BY StagedIsProfile DEF Updating
    <2>2. q \in Cards!Card
        BY <2>1 DEF Profile, Cards!Card
    <2>3. profiles' = (profiles \ {p}) \cup {q}
        OBVIOUS
    <2> HIDE DEF q
    <2>4. CASE req[r].kind = "event"
        <3>1. Cards!Change(p, q, {"is_pro"})
            BY <2>1, <2>3, <2>4 DEF RequestsByKind, Cards!Change
        <3> QED
            BY <2>2, <3>1 DEF Cards!CardsNext
    <2>5. CASE req[r].kind = "patch"
        <3>1. Cards!Change(p, q, {"display_name", "avatar_url"})
            BY <2>1, <2>3, <2>5 DEF RequestsByKind, ProfileFields, Cards!Change
        <3> QED
            BY <2>2, <3>1 DEF Cards!CardsNext
    <2> QED
        BY <2>4, <2>5 DEF Updating
<1> QED
    BY <1>1, <1>2, <1>3, CommitEffect

\* Every commit of the profile routes and of the webhook is one atomic change of
\* one card, and nothing else changes the cards.
THEOREM CardsRefined == Spec => CardsSpec
<1>1. Init => Cards!CardsInit
    BY DEF Init, Cards!CardsInit
<1>2. IInv /\ [Next]_vars => [Cards!CardsNext]_profiles
    <2> SUFFICES ASSUME IInv, [Next]_vars, profiles' # profiles
                 PROVE  [Cards!CardsNext]_profiles
        OBVIOUS
    <2>1. PICK r \in Requests : Commit(r)
        BY DEF Next, Quiescent, vars, Arrive, Handle, EventIgnored, MissingAppUserId,
           AnonymousAppUserId, NothingToUpdate, Connect, InsertProfile, UpdateProfile,
           ProfileFound, ProfileNotFound, Answer, Disturb, Refused, PoolTimeout,
           StatementFails, CommitFails, Abort
    <2> QED
        BY <2>1, CommitIsCardsStep
<1> QED
    BY <1>1, <1>2, Invariance, PTL DEF Spec, CardsSpec, Cards!CardsSpec

=============================================================================

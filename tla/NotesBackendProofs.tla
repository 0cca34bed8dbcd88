-------------------------- MODULE NotesBackendProofs --------------------------
(* Theorems about NotesBackend, for any number of requests, users and       *)
(* connections and any limit.                                               *)
EXTENDS NotesBackend, FiniteSetTheorems, TLAPS

-----------------------------------------------------------------------------
(* Facts about the operators *)

\* A new version of a note is a note with the same id and owner when its title is
\* not null, and holds no value but the old ones and those supplied.
LEMMA RewrittenNote ==
    ASSUME NEW n \in Note, NEW v, NEW r \in Requests,
           DOMAIN v \subseteq {"title", "body"},
           \A f \in DOMAIN v : v[f] \in {r, None},
           Rewritten(n, v).title # None
    PROVE  /\ Rewritten(n, v) \in Note
           /\ Rewritten(n, v).id = n.id
           /\ Rewritten(n, v).user = n.user
           /\ Rewritten(n, v).title \in {n.title, r}
           /\ Rewritten(n, v).body \in {n.body, r, None}
<1>1. /\ DOMAIN n = {"id", "user", "title", "body"}
      /\ n.id \in Requests /\ n.user \in Users /\ n.title \in Requests /\ n.body \in Values
    BY DEF Note
<1>2. /\ Rewritten(n, v) = [f \in DOMAIN n |-> IF f \in DOMAIN v THEN v[f] ELSE n[f]]
      /\ DOMAIN Rewritten(n, v) = DOMAIN n
      /\ \A f \in DOMAIN n : Rewritten(n, v)[f] = IF f \in DOMAIN v THEN v[f] ELSE n[f]
    BY DEF Rewritten
<1>3. Rewritten(n, v).id = n.id /\ Rewritten(n, v).user = n.user
    BY <1>1, <1>2
<1>4. /\ Rewritten(n, v).title \in {n.title, r}
      /\ Rewritten(n, v).body \in {n.body, r, None}
    BY <1>1, <1>2
<1>5. Rewritten(n, v) = [id |-> Rewritten(n, v).id, user |-> Rewritten(n, v).user,
                         title |-> Rewritten(n, v).title, body |-> Rewritten(n, v).body]
    BY <1>1, <1>2
<1>6. Rewritten(n, v) \in Note
    BY <1>1, <1>3, <1>4, <1>5 DEF Note, Values
<1> QED
    BY <1>3, <1>4, <1>6

\* The same of what a PATCH stages.
LEMMA StagedIsNote ==
    ASSUME IInv, NEW r \in Requests, req[r].kind = "update", NEW n \in notes,
           Rewritten(n, req[r].values).title # None
    PROVE  LET q == Rewritten(n, req[r].values)
           IN  /\ q \in Note /\ q.id = n.id /\ q.user = n.user
               /\ q.title \in {n.title, r} /\ q.body \in {n.body, r, None}
<1> DEFINE v == req[r].values
<1>1. n \in Note
    BY DEF IInv, TypeOK
<1>2. DOMAIN v \subseteq {"title", "body"} /\ \A f \in DOMAIN v : v[f] \in {r, None}
    BY DEF IInv, RequestsByKind
<1>3. Rewritten(n, v).title # None
    OBVIOUS
<1> HIDE DEF v
<1>4. /\ Rewritten(n, v) \in Note
      /\ Rewritten(n, v).id = n.id
      /\ Rewritten(n, v).user = n.user
      /\ Rewritten(n, v).title \in {n.title, r}
      /\ Rewritten(n, v).body \in {n.body, r, None}
    BY <1>1, <1>2, <1>3, RewrittenNote
<1> QED
    BY <1>4 DEF v

\* The sets that are counted are finite.
LEMMA Finite ==
    ASSUME IInv, NEW u
    PROVE  /\ IsFiniteSet(Connected) /\ Cardinality(Connected) \in Nat
           /\ IsFiniteSet(Passed(u)) /\ Cardinality(Passed(u)) \in Nat
           /\ IsFiniteSet(NotesOf(u)) /\ Cardinality(NotesOf(u)) \in Nat
<1>1. /\ Connected \in SUBSET Requests /\ Passed(u) \in SUBSET Requests
      /\ NotesOf(u) \in SUBSET notes
    BY DEF Connected, Passed, NotesOf
<1>2. IsFiniteSet(Requests) /\ IsFiniteSet(notes)
    BY RequestsAssumption DEF IInv, CommittedRows
<1>3. IsFiniteSet(Connected) /\ IsFiniteSet(Passed(u)) /\ IsFiniteSet(NotesOf(u))
    BY <1>1, <1>2, FS_Subset
<1> QED
    BY <1>3, FS_CardinalityType

-----------------------------------------------------------------------------
(* Counting *)

LEMMA AddOne ==
    ASSUME NEW S, NEW x, IsFiniteSet(S)
    PROVE  /\ IsFiniteSet(S \cup {x}) /\ Cardinality(S \cup {x}) \in Nat
           /\ Cardinality(S) \in Nat /\ Cardinality(S \cup {x}) <= Cardinality(S) + 1
<1>1. IsFiniteSet(S \cup {x})
    BY FS_AddElement
<1>2. Cardinality(S \cup {x}) = IF x \in S THEN Cardinality(S) ELSE Cardinality(S) + 1
    BY FS_AddElement
<1>3. Cardinality(S) \in Nat /\ Cardinality(S \cup {x}) \in Nat
    BY <1>1, FS_CardinalityType
<1> QED
    BY <1>1, <1>2, <1>3

LEMMA DropOne ==
    ASSUME NEW S, NEW x, IsFiniteSet(S)
    PROVE  /\ IsFiniteSet(S \ {x}) /\ Cardinality(S \ {x}) \in Nat
           /\ Cardinality(S) \in Nat /\ Cardinality(S \ {x}) <= Cardinality(S)
           /\ x \in S => Cardinality(S \ {x}) + 1 = Cardinality(S)
<1>1. IsFiniteSet(S \ {x})
    BY FS_RemoveElement
<1>2. Cardinality(S \ {x}) = IF x \in S THEN Cardinality(S) - 1 ELSE Cardinality(S)
    BY FS_RemoveElement
<1>3. Cardinality(S) \in Nat /\ Cardinality(S \ {x}) \in Nat
    BY <1>1, FS_CardinalityType
<1> QED
    BY <1>1, <1>2, <1>3

\* No new connection and no create past the count: the bounds stand.
LEMMA CountsStand ==
    ASSUME IInv, notes' = notes, Connected' \subseteq Connected,
           \A u \in Users : Passed(u)' \subseteq Passed(u)
    PROVE  PoolBound' /\ OverrunBounded'
<1>1. ASSUME NEW S, NEW T, IsFiniteSet(T), S \subseteq T
      PROVE  IsFiniteSet(S) /\ Cardinality(S) \in Nat /\ Cardinality(S) <= Cardinality(T)
    BY <1>1, FS_Subset, FS_CardinalityType
<1>2. /\ Cardinality(Connected') \in Nat
      /\ Cardinality(Connected') <= Cardinality(Connected) /\ Cardinality(Connected) \in Nat
    BY <1>1, Finite
<1>3. PoolBound'
    BY <1>2, BoundsAssumption DEF IInv, PoolBound
<1>4. ASSUME NEW u \in Users
      PROVE  (Cardinality(NotesOf(u)) + Cardinality(Passed(u)) <= MaxNotes + PoolSize - 1)'
    <2>1. NotesOf(u)' = NotesOf(u)
        BY DEF NotesOf
    <2>2. /\ Cardinality(Passed(u)') \in Nat /\ Cardinality(Passed(u)) \in Nat
          /\ Cardinality(Passed(u)') <= Cardinality(Passed(u))
          /\ Cardinality(NotesOf(u)) \in Nat
        BY <1>1, Finite
    <2>3. Cardinality(NotesOf(u)) + Cardinality(Passed(u)) <= MaxNotes + PoolSize - 1
        BY DEF IInv, OverrunBounded
    <2> QED
        BY <2>1, <2>2, <2>3, BoundsAssumption
<1> QED
    BY <1>3, <1>4 DEF OverrunBounded

-----------------------------------------------------------------------------
(* Steps that leave the rows alone *)

\* Notes, requests and deletes that stand keep their owners.
LEMMA OwnersStand ==
    ASSUME IInv, notes' = notes, NEW r \in Requests, pc[r] # "committed",
           \A s \in Requests : pc[s] # "idle" => req'[s] = req[s],
           \A s \in Requests \ {r} : pc'[s] = pc[s],
           pc[r] # "idle" => pc'[r] # "idle", pc'[r] # "committed"
    PROVE  OwnersAlone' /\ DeletedOnce' /\ CommittedRows'
<1> USE DEF IInv
<1>1. ASSUME NEW n \in notes
      PROVE  /\ pc'[n.id] = "committed" /\ req'[n.id] = req[n.id] /\ n.id \in Requests
             /\ \A v \in {n.title, n.body} \ {None} :
                   v \in Requests /\ pc'[v] # "idle" /\ req'[v] = req[v]
    <2>1. /\ n.id \in Requests /\ n.title \in Requests
          /\ n.body \in Requests \/ n.body = None
        BY DEF TypeOK, Note, Values
    <2>2. /\ pc[n.id] = "committed"
          /\ \A v \in {n.title, n.body} \ {None} : pc[v] # "idle"
        BY DEF CommittedRows
    <2> QED
        BY <2>1, <2>2
<1>2. \A s \in Requests : pc'[s] = "committed" =>
          pc[s] = "committed" /\ req'[s] = req[s]
    OBVIOUS
<1>3. \A s \in Requests : pc[s] = "committed" => pc'[s] = "committed" /\ req'[s] = req[s]
    OBVIOUS
<1>4. OwnersAlone'
    <2>1. \A n \in notes : /\ req'[n.id].user = n.user
                           /\ \A v \in {n.title, n.body} \ {None} : req'[v].user = n.user
        BY <1>1 DEF OwnersAlone
    <2>2. ASSUME NEW c \in Requests, pc'[c] = "committed", req'[c].kind = "create"
          PROVE  \/ \E n \in notes : n.id = c
                 \/ \E s \in Requests : /\ pc'[s] = "committed" /\ req'[s].kind = "delete"
                                        /\ req'[s].note = c /\ req'[s].user = req'[c].user
        <3>1. pc[c] = "committed" /\ req'[c] = req[c]
            BY <1>2, <2>2
        <3>2. CASE \E n \in notes : n.id = c
            BY <3>2
        <3>3. CASE \E s \in Requests : /\ pc[s] = "committed" /\ req[s].kind = "delete"
                                       /\ req[s].note = c /\ req[s].user = req[c].user
            BY <1>3, <3>1, <3>3
        <3> QED
            BY <2>2, <3>1, <3>2, <3>3 DEF OwnersAlone
    <2> QED
        BY <2>1, <2>2 DEF OwnersAlone
<1>5. DeletedOnce'
    BY <1>2 DEF DeletedOnce
<1>6. CommittedRows'
    <2>1. ASSUME NEW s \in Requests, req'[s].kind = "delete", pc'[s] = "committed"
          PROVE  /\ pc'[req'[s].note] = "committed"
                 /\ \A n \in notes : n.id # req'[s].note
        <3>1. /\ pc[s] = "committed" /\ req'[s] = req[s]
            BY <1>2, <2>1
        <3>2. /\ pc[req[s].note] = "committed" /\ req[s].note \in Requests
              /\ \A n \in notes : n.id # req[s].note
            BY <2>1, <3>1 DEF CommittedRows, RequestsByKind
        <3> QED
            BY <1>3, <3>1, <3>2
    <2> QED
        BY <1>1, <2>1 DEF CommittedRows
<1> QED
    BY <1>4, <1>5, <1>6

\* What a request has staged stays in order while it moves on.
LEMMA StagedMoves ==
    ASSUME NEW s \in Requests, Staged(s),
           UNCHANGED <<RowOf(s), tx[s], req[s], notes>>,
           tx[s] # EmptyTx => pc'[s] \in {"select", "answer", "commit"},
           (req[s].kind \in {"create", "delete"} /\ pc'[s] \in {"answer", "commit"}) =>
               pc[s] \in {"answer", "commit"}
    PROVE  Staged(s)'
    BY DEF Staged

\* A step that moves one request on and perhaps answers it.
LEMMA MoveStep ==
    ASSUME IInv, NEW r \in Requests, NEW step \in Steps, NEW code \in Codes,
           NEW seen \in SUBSET Note,
           Goto(r, step), resp' = [resp EXCEPT ![r] = code],
           shown' = [shown EXCEPT ![r] = seen], UNCHANGED <<req, tx, notes>>,
           pc[r] \notin {"idle", "committed"}, step \notin {"idle", "committed"},
           step \in {"count", "insert"} => req[r].kind = "create",
           step = "update" => req[r].kind = "update",
           step = "delete" => req[r].kind = "delete",
           step = "select" => req[r].kind \in {"list", "get", "update"},
           code = 201 => req[r].kind = "create",
           \A n \in seen : n.user = req[r].user,
           tx[r] # EmptyTx => step \in {"select", "answer", "commit"},
           (req[r].kind \in {"create", "delete"} /\ step \in {"answer", "commit"}) =>
               pc[r] \in {"answer", "commit"},
           PoolBound', OverrunBounded'
    PROVE  IInv'
<1> USE DEF IInv, Goto
<1>1. /\ pc' \in [Requests -> Steps] /\ pc'[r] = step
      /\ resp' \in [Requests -> Codes] /\ resp'[r] = code
      /\ shown' \in [Requests -> SUBSET Note] /\ shown'[r] = seen
      /\ \A s \in Requests \ {r} : /\ pc'[s] = pc[s] /\ resp'[s] = resp[s]
                                   /\ shown'[s] = shown[s]
    BY DEF TypeOK
<1>2. TypeOK'
    BY <1>1 DEF TypeOK
<1>3. RequestsByKind'
    BY <1>1 DEF RequestsByKind
<1>4. StagedRows'
    <2>1. ASSUME NEW s \in Requests PROVE Staged(s)'
        <3>1. Staged(s) /\ UNCHANGED <<RowOf(s), tx[s], req[s], notes>>
            BY DEF StagedRows, RowOf
        <3>2. tx[s] # EmptyTx => pc[s] \in {"select", "answer", "commit"}
            BY <3>1 DEF Staged
        <3>3. /\ tx[s] # EmptyTx => pc'[s] \in {"select", "answer", "commit"}
              /\ (req[s].kind \in {"create", "delete"} /\ pc'[s] \in {"answer", "commit"})
                    => pc[s] \in {"answer", "commit"}
            BY <1>1, <3>2
        <3> HIDE DEF IInv, Goto
        <3> QED
            BY <3>1, <3>3, StagedMoves
    <2> QED
        BY <2>1 DEF StagedRows
<1>5. RowsLocked'
    BY DEF RowsLocked
<1>6. OwnersAlone' /\ DeletedOnce' /\ CommittedRows'
    BY <1>1, OwnersStand
<1>7. OnlyOwnersSee'
    BY <1>1 DEF OnlyOwnersSee
<1> QED
    BY <1>2, <1>3, <1>4, <1>5, <1>6, <1>7

LEMMA AbortStep ==
    ASSUME IInv, NEW r \in Requests, NEW code \in Codes, Abort(r, code),
           pc[r] \notin {"idle", "committed"},
           code = 201 => req[r].kind = "create"
    PROVE  IInv'
<1> USE DEF IInv, Abort, Goto
<1>1. /\ pc' \in [Requests -> Steps] /\ pc'[r] = "aborted"
      /\ resp' \in [Requests -> Codes] /\ resp'[r] = code
      /\ tx' \in [Requests -> Tx] /\ tx'[r] = EmptyTx
      /\ \A s \in Requests \ {r} : pc'[s] = pc[s] /\ resp'[s] = resp[s] /\ tx'[s] = tx[s]
    BY DEF TypeOK, Steps, Finished, Tx, EmptyTx
<1>2. TypeOK'
    BY <1>1 DEF TypeOK
<1>3. RequestsByKind'
    BY <1>1 DEF RequestsByKind
<1>4. StagedRows'
    <2>1. ASSUME NEW s \in Requests PROVE Staged(s)'
        <3>1. Staged(s) /\ UNCHANGED <<RowOf(s), req[s], notes>>
            BY DEF StagedRows, RowOf
        <3> QED
            BY <1>1, <3>1 DEF Staged
    <2> QED
        BY <2>1 DEF StagedRows
<1>5. RowsLocked'
    BY <1>1 DEF RowsLocked
<1>6. OwnersAlone' /\ DeletedOnce' /\ CommittedRows'
    BY <1>1, OwnersStand
<1>7. OnlyOwnersSee'
    BY DEF OnlyOwnersSee
<1>8. Connected' \subseteq Connected /\ \A u \in Users : Passed(u)' \subseteq Passed(u)
    BY <1>1 DEF Connected, Passed, Working
<1>9. PoolBound' /\ OverrunBounded'
    BY <1>8, CountsStand
<1> QED
    BY <1>2, <1>3, <1>4, <1>5, <1>6, <1>7, <1>9

-----------------------------------------------------------------------------
(* Arrival *)

\* What a request that arrives may ask for.
Fits(r, kind, n, v) ==
    /\ kind \in {"get", "update", "delete"} => n \in Requests /\ resp[n] = 201
    /\ kind = "create" => /\ DOMAIN v = {"title", "body"}
                          /\ v["title"] = r /\ v["body"] \in {r, None}
    /\ kind = "update" => /\ DOMAIN v \subseteq {"title", "body"}
                          /\ \A f \in DOMAIN v : v[f] \in {r, None}
Asks(r, kind, u, n, v) ==
    req' = [req EXCEPT ![r] = [kind |-> kind, user |-> u, note |-> n, values |-> v]]

LEMMA ArrivalFits ==
    ASSUME NEW r \in Requests, Arrive(r)
    PROVE  \E kind \in Kinds, u \in Users, n \in Values, v \in Supplied :
              Asks(r, kind, u, n, v) /\ Fits(r, kind, n, v)
<1>1. Nothing \in Supplied
    <2>1. Nothing \in [{} -> Values]
        BY DEF Nothing
    <2> QED
        BY <2>1 DEF Supplied
<1>2. PICK u \in Users :
        \/ Asks(r, "list", u, None, Nothing)
        \/ \E b \in {r, None} : Asks(r, "create", u, None, [title |-> r, body |-> b])
        \/ \E n \in {c \in Requests : resp[c] = 201} :
              \/ \E kind \in {"get", "delete"} : Asks(r, kind, u, n, Nothing)
              \/ \E S \in SUBSET {"title", "body"} :
                    \E v \in [S -> {r, None}] : Asks(r, "update", u, n, v)
    BY DEF Arrive, Asks
<1>3. CASE Asks(r, "list", u, None, Nothing)
    <2>1. Fits(r, "list", None, Nothing) /\ "list" \in Kinds /\ None \in Values
        BY DEF Fits, Kinds, Values
    <2> QED
        BY <1>1, <1>3, <2>1
<1>4. CASE \E b \in {r, None} : Asks(r, "create", u, None, [title |-> r, body |-> b])
    <2>1. PICK b \in {r, None} : Asks(r, "create", u, None, [title |-> r, body |-> b])
        BY <1>4
    <2> DEFINE v == [title |-> r, body |-> b]
    <2>2. DOMAIN v = {"title", "body"} /\ v["title"] = r /\ v["body"] \in {r, None}
        OBVIOUS
    <2>3. v \in [{"title", "body"} -> Values]
        BY DEF Values
    <2> HIDE DEF v
    <2>4. v \in Supplied /\ Fits(r, "create", None, v) /\ "create" \in Kinds /\ None \in Values
        BY <2>2, <2>3 DEF Supplied, Fits, Kinds, Values
    <2> QED
        BY <2>1, <2>4 DEF v
<1>5. ASSUME NEW n \in {c \in Requests : resp[c] = 201}, NEW kind \in {"get", "delete"},
             Asks(r, kind, u, n, Nothing)
      PROVE  \E k \in Kinds, w \in Users, m \in Values, v \in Supplied :
                Asks(r, k, w, m, v) /\ Fits(r, k, m, v)
    <2>1. Fits(r, kind, n, Nothing) /\ kind \in Kinds /\ n \in Values
        BY DEF Fits, Kinds, Values
    <2> QED
        BY <1>1, <1>5, <2>1
<1>6. ASSUME NEW n \in {c \in Requests : resp[c] = 201}, NEW S \in SUBSET {"title", "body"},
             NEW v \in [S -> {r, None}], Asks(r, "update", u, n, v)
      PROVE  \E k \in Kinds, w \in Users, m \in Values, x \in Supplied :
                Asks(r, k, w, m, x) /\ Fits(r, k, m, x)
    <2>1. v \in [S -> Values] /\ DOMAIN v = S /\ \A f \in S : v[f] \in {r, None}
        BY DEF Values
    <2>2. v \in Supplied
        BY <2>1 DEF Supplied
    <2>3. Fits(r, "update", n, v) /\ "update" \in Kinds /\ n \in Values
        BY <2>1 DEF Fits, Kinds, Values
    <2> QED
        BY <1>6, <2>2, <2>3
<1> QED
    BY <1>2, <1>3, <1>4, <1>5, <1>6

LEMMA ArriveStep == ASSUME IInv, NEW r \in Requests, Arrive(r) PROVE IInv'
<1> USE DEF IInv
<1>1. PICK kind \in Kinds, u \in Users, n \in Values, v \in Supplied :
          Asks(r, kind, u, n, v) /\ Fits(r, kind, n, v)
    BY ArrivalFits
<1>2. /\ req' \in [Requests -> Request]
      /\ req'[r].kind = kind /\ req'[r].user = u /\ req'[r].note = n /\ req'[r].values = v
      /\ \A s \in Requests \ {r} : req'[s] = req[s]
    BY <1>1 DEF TypeOK, Request, Values, Asks
<1>3. /\ UNCHANGED <<resp, tx, notes, shown>>
      /\ pc[r] = "idle" /\ pc' \in [Requests -> Steps] /\ pc'[r] = "connect"
      /\ \A s \in Requests \ {r} : pc'[s] = pc[s]
    BY DEF TypeOK, Steps, Arrive, Goto
<1>4. /\ req[r].kind = "none" /\ shown[r] = {} /\ tx[r] = EmptyTx /\ resp[r] # 201
    <2>1. req[r].kind = "none" /\ shown[r] = {} /\ resp[r] # 201
        BY <1>3 DEF RequestsByKind
    <2>2. Staged(r)
        BY DEF StagedRows
    <2> QED
        BY <1>3, <2>1, <2>2 DEF Staged
<1>5. TypeOK'
    BY <1>2, <1>3 DEF TypeOK
<1>6. RequestsByKind'
    <2>1. ASSUME NEW s \in Requests, req[s].kind \in {"get", "update", "delete"}
          PROVE  req[s].note \in Requests \ {r} /\ req[req[s].note].kind = "create"
        BY <1>4, <2>1 DEF RequestsByKind
    <2>2. kind \in {"get", "update", "delete"} =>
             n \in Requests \ {r} /\ req[n].kind = "create"
        BY <1>1, <1>4 DEF Fits, RequestsByKind
    <2>3. kind # "none"
        BY DEF Kinds
    <2> QED
        BY <1>1, <1>2, <1>3, <1>4, <2>1, <2>2, <2>3 DEF RequestsByKind, Fits
<1>7. StagedRows'
    <2>1. ASSUME NEW s \in Requests \ {r} PROVE Staged(s)'
        <3>1. Staged(s) /\ UNCHANGED <<RowOf(s), tx[s], req[s], pc[s], notes>>
            BY <1>2, <1>3 DEF StagedRows, RowOf
        <3> QED
            BY <3>1 DEF Staged
    <2>2. Staged(r)'
        BY <1>3, <1>4 DEF Staged
    <2> QED
        BY <2>1, <2>2 DEF StagedRows
<1>8. RowsLocked'
    BY <1>2, <1>3, <1>4 DEF RowsLocked
<1>9. OwnersAlone' /\ DeletedOnce' /\ CommittedRows'
    BY <1>2, <1>3, OwnersStand
<1>10. OnlyOwnersSee'
    BY <1>2, <1>3, <1>4 DEF OnlyOwnersSee
<1>11. Connected' \subseteq Connected /\ \A w \in Users : Passed(w)' \subseteq Passed(w)
    BY <1>2, <1>3 DEF Connected, Passed, Working
<1>12. PoolBound' /\ OverrunBounded'
    BY <1>3, <1>11, CountsStand
<1> QED
    BY <1>5, <1>6, <1>7, <1>8, <1>9, <1>10, <1>12

-----------------------------------------------------------------------------
(* The steps that write *)

\* A step that stages rows, under the lock of the note if it is there already.
LEMMA StageStep ==
    ASSUME IInv, NEW r \in Requests, NEW step \in {"select", "answer"}, NEW t \in Tx,
           Goto(r, step), tx' = [tx EXCEPT ![r] = t], UNCHANGED <<req, resp, notes>>,
           shown' \in [Requests -> SUBSET Note],
           \A s \in Requests \ {r} : shown'[s] = shown[s],
           \A n \in shown'[r] : n.user = req[r].user,
           pc[r] \in {"insert", "update", "delete"},
           step = "select" => req[r].kind = "update",
           Staged(r)',
           (req[r].kind \in {"update", "delete"} /\ t # EmptyTx) =>
              \A s \in Requests \ {r} :
                 ~(/\ req[s].kind \in {"update", "delete"} /\ tx[s] # EmptyTx
                   /\ req[s].note = req[r].note)
    PROVE  IInv'
<1> USE DEF IInv, Goto
<1>1. /\ pc' \in [Requests -> Steps] /\ pc'[r] = step
      /\ tx' \in [Requests -> Tx] /\ tx'[r] = t
      /\ \A s \in Requests \ {r} : pc'[s] = pc[s] /\ tx'[s] = tx[s]
    BY DEF TypeOK, Steps, Working
<1>2. TypeOK'
    BY <1>1 DEF TypeOK
<1>3. RequestsByKind'
    BY <1>1 DEF RequestsByKind
<1>4. StagedRows'
    <2>1. ASSUME NEW s \in Requests \ {r} PROVE Staged(s)'
        <3>1. Staged(s) /\ UNCHANGED <<RowOf(s), tx[s], req[s], pc[s], notes>>
            BY <1>1 DEF StagedRows, RowOf
        <3> QED
            BY <3>1 DEF Staged
    <2> QED
        BY <2>1 DEF StagedRows
<1>5. RowsLocked'
    BY <1>1 DEF RowsLocked
<1>6. OwnersAlone' /\ DeletedOnce' /\ CommittedRows'
    BY <1>1, OwnersStand
<1>7. OnlyOwnersSee'
    BY <1>1 DEF OnlyOwnersSee
<1>8. Connected' \subseteq Connected /\ \A u \in Users : Passed(u)' \subseteq Passed(u)
    BY <1>1 DEF Connected, Passed, Working, RequestsByKind
<1>9. PoolBound' /\ OverrunBounded'
    BY <1>8, CountsStand
<1> QED
    BY <1>2, <1>3, <1>4, <1>5, <1>6, <1>7, <1>9

\* At its first write a transaction has staged nothing.
LEMMA NothingStaged ==
    ASSUME IInv, NEW r \in Requests, pc[r] \in {"insert", "update", "delete"}
    PROVE  /\ tx[r] = EmptyTx /\ View(r) = notes
           /\ Selected(r) = {n \in notes : n.id = req[r].note /\ n.user = req[r].user}
<1>1. tx[r] = EmptyTx
    BY DEF IInv, StagedRows, Staged
<1>2. View(r) = notes
    BY <1>1 DEF View, EmptyTx
<1> QED
    BY <1>1, <1>2 DEF Selected

LEMMA RowIsNote ==
    ASSUME IInv, NEW r \in Requests, req[r].kind = "create"
    PROVE  /\ RowOf(r) \in Note /\ RowOf(r).id = r /\ RowOf(r).user = req[r].user
           /\ RowOf(r).title = r /\ RowOf(r).body \in {r, None}
<1>1. /\ req[r].user \in Users /\ req[r].values["title"] = r
      /\ req[r].values["body"] \in {r, None}
    BY DEF IInv, RequestsByKind
<1>2. /\ RowOf(r).id = r /\ RowOf(r).user = req[r].user
      /\ RowOf(r).title = r /\ RowOf(r).body \in {r, None}
    BY <1>1 DEF RowOf
<1>3. RowOf(r) \in Note
    BY <1>1 DEF RowOf, Note, Values
<1> QED
    BY <1>2, <1>3

LEMMA InsertStep == ASSUME IInv, NEW r \in Requests, InsertNote(r) PROVE IInv'
<1> USE DEF IInv
<1>1. /\ pc[r] = "insert" /\ req[r].kind = "create"
      /\ UNCHANGED <<req, resp, notes>> /\ Goto(r, "answer")
      /\ tx' = [tx EXCEPT ![r].put = {RowOf(r)}]
      /\ shown' = [shown EXCEPT ![r] = {RowOf(r)}]
    BY DEF InsertNote, RequestsByKind, RowOf
<1>2. RowOf(r) \in Note /\ RowOf(r).user = req[r].user
    BY <1>1, RowIsNote
<1> DEFINE t == [put |-> {RowOf(r)}, gone |-> {}]
<1>3. tx' = [tx EXCEPT ![r] = t]
    <2>1. tx[r] = [put |-> {}, gone |-> {}]
        BY <1>1, NothingStaged DEF EmptyTx
    <2>2. t = [tx[r] EXCEPT !.put = {RowOf(r)}]
        BY <2>1
    <2> QED
        BY <1>1, <2>2
<1>4. t \in Tx
    BY <1>2 DEF Tx
<1>5. /\ shown' \in [Requests -> SUBSET Note] /\ shown'[r] = {RowOf(r)}
      /\ \A s \in Requests \ {r} : shown'[s] = shown[s]
    BY <1>1, <1>2 DEF TypeOK
<1>6. Staged(r)'
    <2>1. tx'[r] = t /\ pc'[r] = "answer" /\ RowOf(r)' = RowOf(r)
        BY <1>1, <1>3 DEF TypeOK, Goto, RowOf
    <2> QED
        BY <1>1, <2>1 DEF Staged
<1> HIDE DEF t
<1> QED
    BY <1>1, <1>2, <1>3, <1>4, <1>5, <1>6, StageStep

\* Whoever else has staged a change of the note holds its lock.
LEMMA Unlocked ==
    ASSUME IInv, NEW r \in Requests, ~RowLockedByOther(r)
    PROVE  \A s \in Requests \ {r} :
              ~(/\ req[s].kind \in {"update", "delete"} /\ tx[s] # EmptyTx
                /\ req[s].note = req[r].note)
<1> SUFFICES ASSUME NEW s \in Requests \ {r}, req[s].kind \in {"update", "delete"},
                    tx[s] # EmptyTx, req[s].note = req[r].note
             PROVE  FALSE
    OBVIOUS
<1>1. Staged(s) /\ (pc[s] = "select" => req[s].kind # "delete")
    BY DEF IInv, StagedRows, RequestsByKind
<1>2. req[s].note \in tx[s].gone
    <2>1. CASE req[s].kind = "update"
        <3>1. PICK n \in notes : tx[s] = [put |-> {Rewritten(n, req[s].values)},
                                         gone |-> {req[s].note}]
            BY <1>1, <2>1 DEF Staged
        <3> QED
            BY <3>1
    <2>2. CASE req[s].kind = "delete"
        <3>1. tx[s] = [put |-> {}, gone |-> {req[s].note}]
            BY <1>1, <2>2 DEF Staged
        <3> QED
            BY <3>1
    <2> QED
        BY <2>1, <2>2
<1> QED
    BY <1>2 DEF RowLockedByOther

LEMMA UpdateStep == ASSUME IInv, NEW r \in Requests, UpdateNote(r) PROVE IInv'
<1> USE DEF IInv
<1>1. /\ pc[r] = "update" /\ req[r].kind = "update" /\ ~RowLockedByOther(r)
      /\ \A n \in Selected(r) : Rewritten(n, req[r].values).title # None
      /\ UNCHANGED <<req, resp, notes, shown>> /\ Goto(r, "select")
      /\ tx' = [tx EXCEPT ![r] = [put |-> {Rewritten(n, req[r].values) : n \in Selected(r)},
                                  gone |-> {n.id : n \in Selected(r)}]]
    BY DEF UpdateNote, RequestsByKind
<1>2. PICK t \in Tx :
        /\ tx' = [tx EXCEPT ![r] = t]
        /\ \/ t = EmptyTx
           \/ \E n \in notes : /\ n.id = req[r].note /\ n.user = req[r].user
                               /\ Rewritten(n, req[r].values).title # None
                               /\ t = [put |-> {Rewritten(n, req[r].values)},
                                       gone |-> {req[r].note}]
    <2>1. CASE Selected(r) = {}
        <3>1. tx' = [tx EXCEPT ![r] = EmptyTx] /\ EmptyTx \in Tx
            BY <1>1, <2>1 DEF EmptyTx, Tx
        <3> QED
            BY <3>1
    <2>2. CASE Selected(r) # {}
        <3>1. PICK n \in notes : /\ n.id = req[r].note /\ n.user = req[r].user
                                 /\ Selected(r) = {n}
            BY <1>1, <2>2, NothingStaged DEF TypeOK
        <3>2. /\ {Rewritten(m, req[r].values) : m \in Selected(r)}
                     = {Rewritten(n, req[r].values)}
              /\ {m.id : m \in Selected(r)} = {req[r].note}
            BY <3>1
        <3>3. /\ Rewritten(n, req[r].values).title # None
              /\ Rewritten(n, req[r].values) \in Note
            BY <1>1, <3>1, StagedIsNote
        <3>4. [put |-> {Rewritten(n, req[r].values)}, gone |-> {req[r].note}] \in Tx
            BY <1>1, <3>3 DEF Tx, RequestsByKind
        <3> QED
            BY <1>1, <3>1, <3>2, <3>3, <3>4
    <2> QED
        BY <2>1, <2>2
<1>3. Staged(r)'
    <2>1. tx'[r] = t /\ pc'[r] = "select"
        BY <1>1, <1>2 DEF TypeOK, Goto
    <2> QED
        BY <1>1, <1>2, <2>1 DEF Staged
<1>4. \A n \in shown[r] : n.user = req[r].user
    BY DEF OnlyOwnersSee
<1> QED
    BY <1>1, <1>2, <1>3, <1>4, Unlocked, StageStep DEF TypeOK

LEMMA DeleteStep == ASSUME IInv, NEW r \in Requests, DeleteNote(r) PROVE IInv'
<1> USE DEF IInv
<1>1. /\ pc[r] = "delete" /\ req[r].kind = "delete" /\ ~RowLockedByOther(r)
      /\ Selected(r) # {} /\ req[r].note \in Requests
      /\ UNCHANGED <<req, resp, notes, shown>> /\ Goto(r, "answer")
      /\ tx' = [tx EXCEPT ![r].gone = {req[r].note}]
    BY DEF DeleteNote, RequestsByKind
<1> DEFINE t == [put |-> {}, gone |-> {req[r].note}]
<1>2. tx' = [tx EXCEPT ![r] = t]
    <2>1. tx[r] = [put |-> {}, gone |-> {}]
        BY <1>1, NothingStaged DEF EmptyTx
    <2>2. t = [tx[r] EXCEPT !.gone = {req[r].note}]
        BY <2>1
    <2> QED
        BY <1>1, <2>2
<1>3. t \in Tx
    BY <1>1 DEF Tx
<1>4. \E n \in notes : n.id = req[r].note /\ n.user = req[r].user
    BY <1>1, NothingStaged
<1>5. Staged(r)'
    <2>1. tx'[r] = t /\ pc'[r] = "answer"
        BY <1>1, <1>2 DEF TypeOK, Goto
    <2> QED
        BY <1>1, <1>4, <2>1 DEF Staged
<1>6. \A n \in shown[r] : n.user = req[r].user
    BY DEF OnlyOwnersSee
<1> HIDE DEF t
<1> QED
    BY <1>1, <1>2, <1>3, <1>5, <1>6, Unlocked, StageStep DEF TypeOK

-----------------------------------------------------------------------------
(* The commit *)

\* A commit adds nothing, a new note, or a new version of one, or removes one.
CommitsNothing(r) == req[r].kind \notin {"create", "delete"} /\ notes' = notes
CommitsCreate(r) ==
    /\ req[r].kind = "create" /\ \A n \in notes : n.id # r
    /\ notes' = notes \cup {RowOf(r)}
CommitsUpdate(r, n) ==
    /\ req[r].kind = "update" /\ tx[r] # EmptyTx
    /\ n \in notes /\ n.id = req[r].note /\ n.user = req[r].user
    /\ \A m \in notes : m.id = req[r].note => m = n
    /\ Rewritten(n, req[r].values).title # None
    /\ notes' = (notes \ {n}) \cup {Rewritten(n, req[r].values)}
CommitsDelete(r, n) ==
    /\ req[r].kind = "delete" /\ tx[r] # EmptyTx
    /\ n \in notes /\ n.id = req[r].note /\ n.user = req[r].user
    /\ \A m \in notes : m.id = req[r].note => m = n
    /\ notes' = notes \ {n}

LEMMA CommitEffect ==
    ASSUME IInv, NEW r \in Requests, Commit(r)
    PROVE  \/ CommitsNothing(r)
           \/ CommitsCreate(r)
           \/ \E n \in notes : CommitsUpdate(r, n)
           \/ \E n \in notes : CommitsDelete(r, n)
<1> USE DEF IInv
<1>1. pc[r] = "commit" /\ Staged(r) /\ notes' = View(r)
    BY DEF Commit, StagedRows
<1>2. CASE req[r].kind = "create"
    <2>1. tx[r] = [put |-> {RowOf(r)}, gone |-> {}]
        BY <1>1, <1>2 DEF Staged
    <2>2. View(r) = notes \cup {RowOf(r)}
        BY <2>1 DEF View
    <2>3. \A n \in notes : n.id # r
        BY <1>1 DEF CommittedRows
    <2> QED
        BY <1>1, <1>2, <2>2, <2>3 DEF CommitsCreate
<1>3. CASE req[r].kind = "delete"
    <2>1. tx[r] = [put |-> {}, gone |-> {req[r].note}]
        BY <1>1, <1>3 DEF Staged
    <2>2. PICK n \in notes : n.id = req[r].note /\ n.user = req[r].user
        BY <1>1, <1>3 DEF Staged
    <2>3. \A m \in notes : m.id = req[r].note => m = n
        BY <2>2 DEF TypeOK
    <2>4. View(r) = notes \ {n}
        BY <2>1, <2>2, <2>3 DEF View
    <2>5. tx[r] # EmptyTx
        BY <2>1 DEF EmptyTx
    <2> QED
        BY <1>1, <1>3, <2>2, <2>3, <2>4, <2>5 DEF CommitsDelete
<1>4. CASE req[r].kind = "update" /\ tx[r] # EmptyTx
    <2>1. PICK n \in notes : /\ n.id = req[r].note /\ n.user = req[r].user
                             /\ Rewritten(n, req[r].values).title # None
                             /\ tx[r] = [put |-> {Rewritten(n, req[r].values)},
                                         gone |-> {req[r].note}]
        BY <1>1, <1>4 DEF Staged
    <2>2. \A m \in notes : m.id = req[r].note => m = n
        BY <2>1 DEF TypeOK
    <2>3. View(r) = (notes \ {n}) \cup {Rewritten(n, req[r].values)}
        BY <2>1, <2>2 DEF View
    <2> QED
        BY <1>1, <1>4, <2>1, <2>2, <2>3 DEF CommitsUpdate
<1>5. CASE tx[r] = EmptyTx /\ req[r].kind \notin {"create", "delete"}
    <2>1. View(r) = notes
        BY <1>5 DEF View, EmptyTx
    <2> QED
        BY <1>1, <1>5, <2>1 DEF CommitsNothing
<1> QED
    BY <1>1, <1>2, <1>3, <1>4, <1>5 DEF Staged

\* The committed notes after it.
LEMMA CommitRows ==
    ASSUME IInv, NEW r \in Requests, Commit(r)
    PROVE  /\ notes' \subseteq Note /\ \A m, n \in notes' : m.id = n.id => m = n
           /\ IsFiniteSet(notes')
           /\ \A n \in notes' : \/ n.id = r /\ req[r].kind = "create"
                                \/ \E m \in notes : m.id = n.id
           /\ \A n \in notes' : \/ n \in notes
                                \/ /\ n.user = req[r].user /\ n.user = req[n.id].user
                                   /\ \A v \in {n.title, n.body} \ {None} :
                                         \/ v = r
                                         \/ \E m \in notes : /\ m.user = n.user
                                                              /\ v \in {m.title, m.body}
           /\ \A m \in notes : (\A n \in notes' : n.id # m.id) =>
                 req[r].kind = "delete" /\ req[r].note = m.id /\ req[r].user = m.user
           /\ req[r].kind = "create" => \E n \in notes' : n.id = r
           /\ req[r].kind = "delete" => \A n \in notes' : n.id # req[r].note
<1> USE DEF IInv
<1>1. notes \subseteq Note /\ IsFiniteSet(notes) /\ \A m, n \in notes : m.id = n.id => m = n
    BY DEF TypeOK, CommittedRows
<1>2. CASE CommitsNothing(r)
    BY <1>1, <1>2 DEF CommitsNothing
<1>3. CASE CommitsCreate(r)
    <2>1. /\ RowOf(r) \in Note /\ RowOf(r).id = r /\ RowOf(r).user = req[r].user
          /\ RowOf(r).title = r /\ RowOf(r).body \in {r, None}
        BY <1>3, RowIsNote DEF CommitsCreate
    <2>2. IsFiniteSet(notes')
        BY <1>1, <1>3, FS_AddElement DEF CommitsCreate
    <2> QED
        BY <1>1, <1>3, <2>1, <2>2 DEF CommitsCreate
<1>4. ASSUME NEW n \in notes, CommitsDelete(r, n)
      PROVE  IsFiniteSet(notes') /\ notes' = notes \ {n}
    BY <1>1, <1>4, FS_RemoveElement DEF CommitsDelete
<1>5. CASE \E n \in notes : CommitsDelete(r, n)
    BY <1>1, <1>4, <1>5 DEF CommitsDelete
<1>6. ASSUME NEW n \in notes, CommitsUpdate(r, n)
      PROVE  /\ Rewritten(n, req[r].values) \in Note
             /\ Rewritten(n, req[r].values).id = n.id
             /\ Rewritten(n, req[r].values).user = n.user
             /\ Rewritten(n, req[r].values).title \in {n.title, r}
             /\ Rewritten(n, req[r].values).body \in {n.body, r, None}
             /\ req[n.id].user = n.user
             /\ IsFiniteSet(notes')
    <2>1. IsFiniteSet(notes \ {n})
        BY <1>1, FS_RemoveElement
    <2>2. IsFiniteSet(notes')
        BY <1>6, <2>1, FS_AddElement DEF CommitsUpdate
    <2> QED
        BY <1>6, <2>2, StagedIsNote DEF CommitsUpdate, OwnersAlone
<1>7. CASE \E n \in notes : CommitsUpdate(r, n)
    <2>1. PICK n \in notes : CommitsUpdate(r, n)
        BY <1>7
    <2> DEFINE q == Rewritten(n, req[r].values)
    <2>2. /\ q \in Note /\ q.id = n.id /\ q.user = n.user
          /\ q.title \in {n.title, r} /\ q.body \in {n.body, r, None}
          /\ req[n.id].user = n.user
          /\ IsFiniteSet(notes')
        BY <1>6, <2>1
    <2>3. /\ notes' = (notes \ {n}) \cup {q} /\ n.user = req[r].user
          /\ req[r].kind = "update"
        BY <2>1 DEF CommitsUpdate
    <2> HIDE DEF q
    <2> QED
        BY <1>1, <2>2, <2>3
<1> QED
    BY <1>2, <1>3, <1>5, <1>7, CommitEffect

\* A create that commits gives the place it held among those past the count to
\* its note.
LEMMA CommitCounts ==
    ASSUME IInv, NEW r \in Requests, Commit(r)
    PROVE  PoolBound' /\ OverrunBounded'
<1> USE DEF IInv
<1>1. /\ pc[r] = "commit" /\ req' = req /\ pc'[r] = "committed"
      /\ \A s \in Requests \ {r} : pc'[s] = pc[s]
    BY DEF Commit, Goto, TypeOK
<1>2. /\ Connected' \subseteq Connected
      /\ \A u : Passed(u)' = Passed(u) \ {r}
    BY <1>1 DEF Connected, Passed, Working
<1>3. PoolBound'
    <2>1. /\ Connected' \in SUBSET Connected /\ IsFiniteSet(Connected)
          /\ Cardinality(Connected) \in Nat
        BY <1>2, Finite
    <2>2. /\ Cardinality(Connected') <= Cardinality(Connected)
          /\ Cardinality(Connected') \in Nat
        BY <2>1, FS_Subset, FS_CardinalityType
    <2>3. Cardinality(Connected) <= PoolSize
        BY DEF PoolBound
    <2> QED
        BY <2>1, <2>2, <2>3, BoundsAssumption DEF PoolBound
<1>4. ASSUME NEW u \in Users
      PROVE  /\ Cardinality(NotesOf(u)') \in Nat /\ Cardinality(Passed(u)') \in Nat
             /\ Cardinality(NotesOf(u)') + Cardinality(Passed(u)')
                   <= Cardinality(NotesOf(u)) + Cardinality(Passed(u))
    <2> DEFINE S == NotesOf(u)
               P == Passed(u)
    <2>1. /\ IsFiniteSet(S) /\ Cardinality(S) \in Nat
          /\ IsFiniteSet(P) /\ Cardinality(P) \in Nat
        BY Finite
    <2>2. Passed(u)' = P \ {r}
        BY <1>2
    <2>3. CASE CommitsCreate(r) /\ req[r].user = u
        <3>1. NotesOf(u)' = S \cup {RowOf(r)}
            BY <2>3, RowIsNote DEF NotesOf, CommitsCreate
        <3>2. r \in P
            BY <1>1, <2>3 DEF Passed, CommitsCreate
        <3> HIDE DEF S, P
        <3>3. /\ Cardinality(S \cup {RowOf(r)}) \in Nat
              /\ Cardinality(S \cup {RowOf(r)}) <= Cardinality(S) + 1
            BY <2>1, AddOne
        <3>4. /\ Cardinality(P \ {r}) \in Nat
              /\ Cardinality(P \ {r}) + 1 = Cardinality(P)
            BY <2>1, <3>2, DropOne
        <3>5. /\ Cardinality(NotesOf(u)') \in Nat /\ Cardinality(Passed(u)') \in Nat
              /\ Cardinality(NotesOf(u)') + Cardinality(Passed(u)')
                    <= Cardinality(S) + Cardinality(P)
            BY <2>1, <2>2, <3>1, <3>3, <3>4
        <3> QED
            BY <3>5 DEF S, P
    <2>4. CASE ~(CommitsCreate(r) /\ req[r].user = u)
        <3>1. Cardinality(NotesOf(u)') \in Nat /\ Cardinality(NotesOf(u)') <= Cardinality(S)
            <4>1. CASE NotesOf(u)' = S
                BY <2>1, <4>1
            <4>2. ASSUME NEW n \in notes, CommitsUpdate(r, n), n.user = u
                  PROVE  /\ Cardinality(NotesOf(u)') \in Nat
                         /\ Cardinality(NotesOf(u)') <= Cardinality(S)
                <5> DEFINE q == Rewritten(n, req[r].values)
                <5>1. q.user = u /\ notes' = (notes \ {n}) \cup {q}
                    BY <4>2, StagedIsNote DEF CommitsUpdate
                <5> HIDE DEF q
                <5>2. NotesOf(u)' = (S \ {n}) \cup {q} /\ n \in S
                    BY <4>2, <5>1 DEF NotesOf
                <5> HIDE DEF S
                <5>3. /\ IsFiniteSet(S \ {n}) /\ Cardinality(S \ {n}) \in Nat
                      /\ Cardinality(S \ {n}) + 1 = Cardinality(S)
                    BY <2>1, <5>2, DropOne
                <5>4. /\ Cardinality((S \ {n}) \cup {q}) \in Nat
                      /\ Cardinality((S \ {n}) \cup {q}) <= Cardinality(S \ {n}) + 1
                    BY <5>3, AddOne
                <5> QED
                    BY <5>2, <5>3, <5>4
            <4>3. ASSUME NEW n \in notes, CommitsUpdate(r, n), n.user # u
                  PROVE  NotesOf(u)' = S
                <5>1. Rewritten(n, req[r].values).user # u
                    BY <4>3, StagedIsNote DEF CommitsUpdate
                <5> QED
                    BY <4>3, <5>1 DEF NotesOf, CommitsUpdate
            <4>4. ASSUME NEW n \in notes, CommitsDelete(r, n)
                  PROVE  /\ Cardinality(NotesOf(u)') \in Nat
                         /\ Cardinality(NotesOf(u)') <= Cardinality(S)
                <5>1. NotesOf(u)' \in SUBSET S
                    BY <4>4 DEF NotesOf, CommitsDelete
                <5> QED
                    BY <2>1, <5>1, FS_Subset, FS_CardinalityType
            <4>5. CASE CommitsNothing(r)
                BY <4>1, <4>5 DEF CommitsNothing, NotesOf
            <4>6. CASE CommitsCreate(r)
                <5>1. NotesOf(u)' = S
                    BY <2>4, <4>6, RowIsNote DEF NotesOf, CommitsCreate
                <5> QED
                    BY <4>1, <5>1
            <4> QED
                BY <4>1, <4>2, <4>3, <4>4, <4>5, <4>6, CommitEffect
        <3> HIDE DEF S, P
        <3>2. Cardinality(P \ {r}) \in Nat /\ Cardinality(P \ {r}) <= Cardinality(P)
            BY <2>1, DropOne
        <3>3. /\ Cardinality(NotesOf(u)') \in Nat /\ Cardinality(Passed(u)') \in Nat
              /\ Cardinality(NotesOf(u)') + Cardinality(Passed(u)')
                    <= Cardinality(S) + Cardinality(P)
            BY <2>1, <2>2, <3>1, <3>2
        <3> QED
            BY <3>3 DEF S, P
    <2> QED
        BY <2>3, <2>4
<1>5. OverrunBounded'
    <2> SUFFICES ASSUME NEW u \in Users
                 PROVE  Cardinality(NotesOf(u)') + Cardinality(Passed(u)')
                            <= MaxNotes + PoolSize - 1
        BY DEF OverrunBounded
    <2>1. /\ Cardinality(NotesOf(u)) + Cardinality(Passed(u)) <= MaxNotes + PoolSize - 1
          /\ Cardinality(NotesOf(u)) \in Nat /\ Cardinality(Passed(u)) \in Nat
        BY Finite DEF OverrunBounded
    <2> QED
        BY <1>4, <2>1, BoundsAssumption
<1> QED
    BY <1>3, <1>5

LEMMA CommitStep == ASSUME IInv, NEW r \in Requests, Commit(r) PROVE IInv'
<1> USE DEF IInv
<1>1. /\ pc[r] = "commit" /\ UNCHANGED <<req, shown, resp>>
      /\ pc' \in [Requests -> Steps] /\ pc'[r] = "committed"
      /\ tx' \in [Requests -> Tx] /\ tx'[r] = EmptyTx
      /\ \A s \in Requests \ {r} : pc'[s] = pc[s] /\ tx'[s] = tx[s]
    BY DEF Commit, Goto, TypeOK, Steps, Finished, Tx, EmptyTx
<1>2. TypeOK'
    BY <1>1, CommitRows DEF TypeOK
<1>3. RequestsByKind'
    BY <1>1 DEF RequestsByKind
<1>4. ASSUME NEW s \in Requests \ {r}, req[s].kind \in {"update", "delete"},
             tx[s] # EmptyTx, NEW n \in notes, n.id = req[s].note
      PROVE  n \in notes'
    <2>1. /\ \A m : ~CommitsDelete(r, m) \/ m # n
          /\ \A m : ~CommitsUpdate(r, m) \/ m # n
        BY <1>4 DEF CommitsDelete, CommitsUpdate, RowsLocked
    <2> QED
        BY <2>1, CommitEffect DEF CommitsNothing, CommitsCreate, CommitsUpdate, CommitsDelete
<1>5. StagedRows'
    <2>1. Staged(r)'
        BY <1>1 DEF Staged
    <2>2. ASSUME NEW s \in Requests \ {r} PROVE Staged(s)'
        <3>1. Staged(s) /\ UNCHANGED <<RowOf(s), tx[s], req[s], pc[s]>>
            BY <1>1 DEF StagedRows, RowOf
        <3>2. CASE req[s].kind = "update" /\ tx[s] # EmptyTx
            <4>1. PICK n \in notes : /\ n.id = req[s].note /\ n.user = req[s].user
                                     /\ Rewritten(n, req[s].values).title # None
                                     /\ tx[s] = [put |-> {Rewritten(n, req[s].values)},
                                                 gone |-> {req[s].note}]
                BY <3>1, <3>2 DEF Staged
            <4>2. n \in notes'
                BY <1>4, <3>2, <4>1
            <4> QED
                BY <3>1, <3>2, <4>1, <4>2 DEF Staged
        <3>3. CASE req[s].kind = "delete" /\ pc[s] \in {"answer", "commit"}
            <4>1. tx[s] = [put |-> {}, gone |-> {req[s].note}]
                BY <3>1, <3>3 DEF Staged
            <4>2. PICK n \in notes : n.id = req[s].note /\ n.user = req[s].user
                BY <3>1, <3>3 DEF Staged
            <4>3. tx[s] # EmptyTx
                BY <4>1 DEF EmptyTx
            <4>4. n \in notes'
                BY <1>4, <3>3, <4>2, <4>3
            <4> QED
                BY <3>1, <3>3, <4>1, <4>2, <4>4 DEF Staged
        <3>4. CASE /\ ~(req[s].kind = "update" /\ tx[s] # EmptyTx)
                   /\ ~(req[s].kind = "delete" /\ pc[s] \in {"answer", "commit"})
            BY <3>1, <3>4 DEF Staged
        <3> QED
            BY <3>2, <3>3, <3>4
    <2> QED
        BY <2>1, <2>2 DEF StagedRows
<1>6. RowsLocked'
    BY <1>1 DEF RowsLocked
<1>7. OwnersAlone'
    <2>1. ASSUME NEW n \in notes'
          PROVE  /\ req[n.id].user = n.user
                 /\ \A v \in {n.title, n.body} \ {None} : req[v].user = n.user
        <3>1. CASE n \in notes
            BY <3>1 DEF OwnersAlone
        <3>2. CASE /\ n.user = req[r].user /\ n.user = req[n.id].user
                   /\ \A v \in {n.title, n.body} \ {None} :
                         v = r \/ \E m \in notes : m.user = n.user /\ v \in {m.title, m.body}
            <4>1. ASSUME NEW v \in {n.title, n.body} \ {None} PROVE req[v].user = n.user
                <5>1. CASE v = r
                    BY <3>2, <5>1
                <5>2. CASE \E m \in notes : m.user = n.user /\ v \in {m.title, m.body}
                    <6>1. PICK m \in notes : m.user = n.user /\ v \in {m.title, m.body}
                        BY <5>2
                    <6>2. v \in {m.title, m.body} \ {None}
                        BY <6>1
                    <6> QED
                        BY <6>1, <6>2 DEF OwnersAlone
                <5> QED
                    BY <3>2, <5>1, <5>2
            <4> QED
                BY <3>2, <4>1
        <3> QED
            BY <2>1, <3>1, <3>2, CommitRows
    <2>2. ASSUME NEW c \in Requests, pc'[c] = "committed", req[c].kind = "create"
          PROVE  \/ \E n \in notes' : n.id = c
                 \/ \E s \in Requests : /\ pc'[s] = "committed" /\ req[s].kind = "delete"
                                        /\ req[s].note = c /\ req[s].user = req[c].user
        <3>1. CASE c = r
            BY <2>2, <3>1, CommitRows
        <3>2. CASE c # r
            <4>1. pc[c] = "committed"
                BY <1>1, <2>2, <3>2
            <4>2. CASE \E n \in notes : n.id = c
                <5>1. PICK n \in notes : n.id = c
                    BY <4>2
                <5>2. req[c].user = n.user
                    BY <5>1 DEF OwnersAlone
                <5> QED
                    BY <1>1, <5>1, <5>2, CommitRows
            <4>3. CASE \E s \in Requests : /\ pc[s] = "committed" /\ req[s].kind = "delete"
                                           /\ req[s].note = c /\ req[s].user = req[c].user
                BY <1>1, <4>3
            <4> QED
                BY <2>2, <4>1, <4>2, <4>3 DEF OwnersAlone
        <3> QED
            BY <3>1, <3>2
    <2> QED
        BY <1>1, <2>1, <2>2 DEF OwnersAlone
<1>8. OnlyOwnersSee'
    BY <1>1 DEF OnlyOwnersSee
<1>9. req[r].kind = "delete" => \E n \in notes : n.id = req[r].note
    BY CommitEffect DEF CommitsNothing, CommitsCreate, CommitsUpdate, CommitsDelete
<1>10. DeletedOnce'
    <2>1. ASSUME NEW s \in Requests \ {r}, pc[s] = "committed", req[s].kind = "delete",
                 req[r].kind = "delete", req[s].note = req[r].note
          PROVE  FALSE
        BY <1>9, <2>1 DEF CommittedRows
    <2> QED
        BY <1>1, <2>1 DEF DeletedOnce
<1>11. CommittedRows'
    <2>1. ASSUME NEW n \in notes'
          PROVE  /\ pc'[n.id] = "committed" /\ req[n.id].kind = "create"
                 /\ \A v \in {n.title, n.body} \ {None} : pc'[v] # "idle"
        <3>1. pc'[n.id] = "committed" /\ req[n.id].kind = "create"
            <4>1. CASE n.id = r /\ req[r].kind = "create"
                BY <1>1, <4>1
            <4>2. CASE \E m \in notes : m.id = n.id
                BY <1>1, <4>2 DEF CommittedRows, TypeOK, Note
            <4> QED
                BY <2>1, <4>1, <4>2, CommitRows
        <3>2. ASSUME NEW m \in notes, NEW v \in {m.title, m.body} \ {None}
              PROVE  pc'[v] # "idle"
            <4>1. v \in Requests /\ pc[v] # "idle"
                BY DEF CommittedRows, TypeOK, Note, Values
            <4> QED
                BY <1>1, <4>1
        <3>3. ASSUME NEW v \in {n.title, n.body} \ {None} PROVE pc'[v] # "idle"
            <4>1. CASE v = r
                BY <1>1, <4>1
            <4>2. CASE \E m \in notes : v \in {m.title, m.body}
                BY <3>2, <3>3, <4>2
            <4>3. v = r \/ \E m \in notes : v \in {m.title, m.body}
                BY <2>1, <3>3, CommitRows
            <4> QED
                BY <4>1, <4>2, <4>3
        <3> QED
            BY <3>1, <3>3
    <2>2. ASSUME NEW s \in Requests, req[s].kind = "delete", pc'[s] = "committed"
          PROVE  /\ pc'[req[s].note] = "committed"
                 /\ \A n \in notes' : n.id # req[s].note
        <3>1. req[s].note \in Requests
            BY <2>2 DEF RequestsByKind
        <3>2. CASE s = r
            <4>1. PICK n \in notes : n.id = req[r].note
                BY <1>9, <2>2, <3>2
            <4>2. pc[n.id] = "committed"
                BY DEF CommittedRows
            <4> QED
                BY <1>1, <2>2, <3>1, <3>2, <4>1, <4>2, CommitRows
        <3>3. CASE s # r
            <4>1. /\ pc[req[s].note] = "committed"
                  /\ \A n \in notes : n.id # req[s].note
                BY <1>1, <2>2, <3>3 DEF CommittedRows
            <4> QED
                BY <1>1, <3>1, <4>1, CommitRows
        <3> QED
            BY <3>2, <3>3
    <2> QED
        BY <1>1, <2>1, <2>2, CommitRows DEF CommittedRows
<1> QED
    BY <1>2, <1>3, <1>5, <1>6, <1>7, <1>8, <1>10, <1>11, CommitCounts

-----------------------------------------------------------------------------
(* The steps that count *)

LEMMA ConnectStep == ASSUME IInv, NEW r \in Requests, Connect(r) PROVE IInv'
<1> USE DEF IInv
<1> DEFINE step == FirstStep(r)
<1>1. /\ pc[r] = "connect" /\ Cardinality(Connected) < PoolSize /\ Goto(r, step)
      /\ UNCHANGED <<req, shown, resp, tx, notes>>
    BY DEF Connect
<1>2. /\ step \in {"count", "delete", "update", "select"} /\ step \in Steps
      /\ step = "count" => req[r].kind = "create"
      /\ step = "delete" => req[r].kind = "delete"
      /\ step = "update" => req[r].kind = "update"
      /\ step = "select" => req[r].kind \in {"list", "get", "update"}
    <2>1. req[r].kind \in Kinds \cup {"none"}
        BY DEF TypeOK, Request
    <2>2. req[r].kind # "none"
        BY <1>1 DEF RequestsByKind
    <2> QED
        BY <2>1, <2>2 DEF FirstStep, Kinds, Steps, Working
<1> HIDE DEF step
<1>3. /\ tx[r] = EmptyTx /\ resp' = [resp EXCEPT ![r] = resp[r]] /\ resp[r] \in Codes
      /\ shown' = [shown EXCEPT ![r] = shown[r]] /\ shown[r] \in SUBSET Note
      /\ resp[r] = 201 => req[r].kind = "create"
      /\ \A n \in shown[r] : n.user = req[r].user
    BY <1>1 DEF TypeOK, StagedRows, Staged, RequestsByKind, OnlyOwnersSee
<1>4. PoolBound'
    <2>1. Connected' = Connected \cup {r}
        BY <1>1, <1>2 DEF Connected, Goto, TypeOK, Working
    <2>2. /\ Cardinality(Connected \cup {r}) \in Nat /\ Cardinality(Connected) \in Nat
          /\ Cardinality(Connected \cup {r}) <= Cardinality(Connected) + 1
        BY Finite, AddOne
    <2> QED
        BY <1>1, <2>1, <2>2, BoundsAssumption DEF PoolBound
<1>5. OverrunBounded'
    <2>1. ASSUME NEW u \in Users PROVE Passed(u)' = Passed(u) /\ NotesOf(u)' = NotesOf(u)
        BY <1>1, <1>2 DEF Passed, NotesOf, Goto, TypeOK
    <2> QED
        BY <2>1 DEF OverrunBounded
<1> DEFINE code == resp[r]
           seen == shown[r]
<1>6. /\ code \in Codes /\ seen \in SUBSET Note /\ UNCHANGED <<req, tx, notes>>
      /\ resp' = [resp EXCEPT ![r] = code] /\ shown' = [shown EXCEPT ![r] = seen]
      /\ code = 201 => req[r].kind = "create"
      /\ \A n \in seen : n.user = req[r].user
      /\ pc[r] \notin {"idle", "committed"}
      /\ step \notin {"idle", "committed", "insert", "answer", "commit"}
      /\ step \in Steps /\ Goto(r, step) /\ tx[r] = EmptyTx
      /\ step \in {"count", "insert"} => req[r].kind = "create"
    BY <1>1, <1>2, <1>3
<1> HIDE DEF code, seen
<1> QED
    BY <1>2, <1>4, <1>5, <1>6, MoveStep

\* The creates past the count hold connections, so there are at most PoolSize of
\* them when one more joins.
LEMMA CountStep == ASSUME IInv, NEW r \in Requests, CountNotes(r) PROVE IInv'
<1> USE DEF IInv
<1>1. /\ pc[r] = "count" /\ req[r].kind = "create" /\ Goto(r, "insert")
      /\ Cardinality(NotesOf(req[r].user)) < MaxNotes
      /\ UNCHANGED <<req, shown, resp, tx, notes>>
    BY DEF CountNotes, RequestsByKind
<1>2. /\ tx[r] = EmptyTx /\ resp' = [resp EXCEPT ![r] = resp[r]] /\ resp[r] \in Codes
      /\ shown' = [shown EXCEPT ![r] = shown[r]] /\ shown[r] \in SUBSET Note
      /\ resp[r] = 201 => req[r].kind = "create"
      /\ \A n \in shown[r] : n.user = req[r].user
    BY <1>1 DEF TypeOK, StagedRows, Staged, RequestsByKind, OnlyOwnersSee
<1>3. Connected' = Connected
    BY <1>1 DEF Connected, Goto, TypeOK, Working
<1>4. PoolBound'
    BY <1>3 DEF PoolBound
<1>5. ASSUME NEW u \in Users
      PROVE  Cardinality(NotesOf(u)') + Cardinality(Passed(u)') <= MaxNotes + PoolSize - 1
    <2>1. NotesOf(u)' = NotesOf(u)
        BY <1>1 DEF NotesOf
    <2>2. CASE u = req[r].user
        <3>1. Passed(u)' \in SUBSET Connected
            BY <1>1, <1>3 DEF Passed, Connected, Working
        <3>2. /\ IsFiniteSet(Connected) /\ Cardinality(Connected) \in Nat
              /\ Cardinality(NotesOf(u)) \in Nat
            BY Finite
        <3>3. /\ Cardinality(Passed(u)') \in Nat
              /\ Cardinality(Passed(u)') <= Cardinality(Connected)
            BY <3>1, <3>2, FS_Subset, FS_CardinalityType
        <3> QED
            BY <1>1, <2>1, <2>2, <3>2, <3>3, BoundsAssumption DEF PoolBound
    <2>3. CASE u # req[r].user
        <3>1. Passed(u)' = Passed(u)
            BY <1>1, <2>3 DEF Passed, Goto, TypeOK
        <3> QED
            BY <2>1, <3>1 DEF OverrunBounded
    <2> QED
        BY <2>2, <2>3
<1>6. OverrunBounded'
    BY <1>5 DEF OverrunBounded
<1> QED
    BY <1>1, <1>2, <1>4, <1>6, MoveStep DEF Steps, Working

-----------------------------------------------------------------------------
(* The invariant *)

LEMMA ReadStep ==
    ASSUME IInv, NEW r \in Requests, ListNotes(r) \/ NoteFound(r)
    PROVE  IInv'
<1> USE DEF IInv
<1>1. PICK seen \in SUBSET Note :
        /\ shown' = [shown EXCEPT ![r] = seen]
        /\ \A n \in seen : n.user = req[r].user
    <2>1. CASE ListNotes(r)
        <3>1. /\ NotesOf(req[r].user) \in SUBSET Note
              /\ \A n \in NotesOf(req[r].user) : n.user = req[r].user
            BY DEF NotesOf, TypeOK
        <3> QED
            BY <2>1, <3>1 DEF ListNotes
    <2>2. CASE NoteFound(r)
        <3>1. tx[r].put \subseteq Note
            BY DEF TypeOK, Tx
        <3>2. Selected(r) \in SUBSET Note /\ \A n \in Selected(r) : n.user = req[r].user
            BY <3>1 DEF Selected, View, TypeOK
        <3> QED
            BY <2>2, <3>2 DEF NoteFound
    <2> QED
        BY <2>1, <2>2
<1>2. /\ pc[r] = "select" /\ req[r].kind \in {"list", "get", "update"}
      /\ Goto(r, "answer") /\ UNCHANGED <<req, resp, tx, notes>>
    BY DEF ListNotes, NoteFound, RequestsByKind
<1>3. /\ resp' = [resp EXCEPT ![r] = resp[r]] /\ resp[r] \in Codes
      /\ resp[r] = 201 => req[r].kind = "create"
    BY <1>2 DEF TypeOK, RequestsByKind
<1>4. Connected' \subseteq Connected /\ \A u \in Users : Passed(u)' \subseteq Passed(u)
    BY <1>2 DEF Connected, Passed, Goto, TypeOK, Working
<1>5. PoolBound' /\ OverrunBounded'
    BY <1>2, <1>4, CountsStand
<1> DEFINE code == resp[r]
           step == "answer"
<1>6. /\ code \in Codes /\ step \in Steps /\ UNCHANGED <<req, tx, notes>>
      /\ resp' = [resp EXCEPT ![r] = code] /\ Goto(r, step)
      /\ code = 201 => req[r].kind = "create"
      /\ pc[r] \notin {"idle", "committed"} /\ step \in {"select", "answer", "commit"}
      /\ step \notin {"idle", "committed", "count", "insert", "update", "delete", "select"}
      /\ req[r].kind \notin {"create", "delete"}
    BY <1>2, <1>3 DEF Steps, Working
<1> HIDE DEF code, step
<1> QED
    BY <1>1, <1>5, <1>6, MoveStep

LEMMA AnswerStep == ASSUME IInv, NEW r \in Requests, Answer(r) PROVE IInv'
<1> USE DEF IInv
<1> DEFINE code == SuccessCode(req[r].kind)
<1>1. /\ pc[r] = "answer" /\ Goto(r, "commit") /\ UNCHANGED <<req, shown, tx, notes>>
      /\ resp' = [resp EXCEPT ![r] = code]
    BY DEF Answer
<1>2. code \in Codes /\ (code = 201 => req[r].kind = "create")
    BY DEF SuccessCode, Codes
<1> HIDE DEF code
<1>3. /\ shown' = [shown EXCEPT ![r] = shown[r]] /\ shown[r] \in SUBSET Note
      /\ \A n \in shown[r] : n.user = req[r].user
    BY <1>1 DEF TypeOK, OnlyOwnersSee
<1>4. Connected' \subseteq Connected /\ \A u \in Users : Passed(u)' \subseteq Passed(u)
    BY <1>1 DEF Connected, Passed, Goto, TypeOK, Working
<1>5. PoolBound' /\ OverrunBounded'
    BY <1>1, <1>4, CountsStand
<1> QED
    BY <1>1, <1>2, <1>3, <1>5, MoveStep DEF Steps

LEMMA HandleStep == ASSUME IInv, NEW r \in Requests, Handle(r) PROVE IInv'
<1>1. ASSUME NEW code \in {404, 422, 500}, Abort(r, code),
             pc[r] \in {"count", "update", "delete", "select"}
      PROVE  IInv'
    BY <1>1, AbortStep DEF Codes
<1>2. CASE LimitExceeded(r) \/ TitleNull(r) \/ NothingDeleted(r) \/ NoteNotFound(r)
    BY <1>1, <1>2 DEF LimitExceeded, TitleNull, NothingDeleted, NoteNotFound
<1> QED
    BY <1>2, ConnectStep, CountStep, InsertStep, UpdateStep, DeleteStep, ReadStep,
       AnswerStep, CommitStep DEF Handle

LEMMA DisturbStep == ASSUME IInv, NEW r \in Requests, Disturb(r) PROVE IInv'
<1>1. ASSUME NEW code \in {401, 500}, Abort(r, code), pc[r] \in {"connect"} \cup Working
      PROVE  IInv'
    BY <1>1, AbortStep DEF Codes, Working
<1>2. CASE Refused(r) \/ PoolTimeout(r) \/ StatementFails(r)
    BY <1>1, <1>2 DEF Refused, PoolTimeout, StatementFails
<1>3. CASE CommitFails(r)
    <2>1. /\ pc[r] = "commit" /\ Abort(r, resp[r]) /\ resp[r] \in Codes
          /\ resp[r] = 201 => req[r].kind = "create"
        BY <1>3 DEF CommitFails, IInv, TypeOK, RequestsByKind
    <2> QED
        BY <2>1, AbortStep
<1> QED
    BY <1>2, <1>3 DEF Disturb

\* The invariant holds in every reachable state: requests, open transactions, row
\* locks, connections and committed notes fit together.
THEOREM Invariance == Spec => []IInv
<1>1. Init => IInv
    <2> SUFFICES ASSUME Init PROVE IInv
        OBVIOUS
    <2>1. Nothing \in Supplied
        <3>1. Nothing \in [{} -> Values]
            BY DEF Nothing
        <3> QED
            BY <3>1 DEF Supplied
    <2>2. TypeOK
        BY <2>1 DEF Init, TypeOK, Steps, Request, Codes, Tx, EmptyTx
    <2>3. RequestsByKind /\ StagedRows /\ RowsLocked
        BY DEF Init, RequestsByKind, StagedRows, Staged, RowsLocked
    <2>4. CommittedRows /\ OwnersAlone /\ OnlyOwnersSee /\ DeletedOnce
        BY FS_EmptySet DEF Init, CommittedRows, OwnersAlone, OnlyOwnersSee, DeletedOnce
    <2>5. Connected = {} /\ \A u : Passed(u) = {} /\ NotesOf(u) = {}
        BY DEF Init, Connected, Passed, NotesOf, Working
    <2>6. PoolBound /\ OverrunBounded
        BY <2>5, FS_EmptySet, BoundsAssumption DEF PoolBound, OverrunBounded
    <2> QED
        BY <2>2, <2>3, <2>4, <2>6 DEF IInv
<1>2. IInv /\ [Next]_vars => IInv'
    <2> SUFFICES ASSUME IInv, [Next]_vars PROVE IInv'
        OBVIOUS
    <2>1. CASE UNCHANGED vars
        BY <2>1 DEF vars, IInv, TypeOK, RequestsByKind, StagedRows, Staged, RowOf,
           RowsLocked, CommittedRows, OwnersAlone, OnlyOwnersSee, DeletedOnce, PoolBound,
           OverrunBounded, Connected, Passed, NotesOf
    <2> QED
        BY <2>1, ArriveStep, HandleStep, DisturbStep DEF Next, Quiescent
<1> QED
    BY <1>1, <1>2, PTL DEF Spec

\* The state is well typed, with one row per id and no null title.
THEOREM TypeCorrect == Spec => []TypeOK
<1>1. IInv => TypeOK
    BY DEF IInv
<1> QED
    BY <1>1, Invariance, PTL

\* Notes are private: nobody but the owner writes, removes or reads them.
THEOREM NotesPrivate == Spec => [](OwnersAlone /\ OnlyOwnersSee)
<1>1. IInv => OwnersAlone /\ OnlyOwnersSee
    BY DEF IInv
<1> QED
    BY <1>1, Invariance, PTL

\* Neither a list, nor a get, nor the SELECT that ends a create or a PATCH shows a
\* request a note of another user than its own.
THEOREM NotesShownToOwners == Spec => []OnlyOwnersSee
<1>1. IInv => OnlyOwnersSee
    BY DEF IInv
<1> QED
    BY <1>1, Invariance, PTL

\* One request at most deletes a note with success.
THEOREM NotesDeletedOnce == Spec => []DeletedOnce
<1>1. IInv => DeletedOnce
    BY DEF IInv
<1> QED
    BY <1>1, Invariance, PTL

\* However many creates run at once, the limit is overrun by less than the number
\* of connections.
THEOREM LimitOverrunBounded == Spec => []OverrunBounded
<1>1. IInv => OverrunBounded
    BY DEF IInv
<1> QED
    BY <1>1, Invariance, PTL

-----------------------------------------------------------------------------
(* The backend implements the shelf *)

LEMMA CommitIsShelfStep ==
    ASSUME IInv, NEW r \in Requests, Commit(r)
    PROVE  [Shelf!ShelfNext]_<<notes, CreatedIds>>
<1> USE DEF IInv
<1>1. /\ pc[r] = "commit" /\ req' = req /\ pc'[r] = "committed"
      /\ \A s \in Requests \ {r} : pc'[s] = pc[s]
    BY DEF Commit, Goto, TypeOK
<1>2. CreatedIds' = IF req[r].kind = "create" THEN CreatedIds \cup {r} ELSE CreatedIds
    BY <1>1 DEF CreatedIds
<1>3. CASE CommitsNothing(r)
    BY <1>2, <1>3 DEF CommitsNothing
<1>4. CASE CommitsCreate(r)
    <2>1. /\ RowOf(r) \in Note /\ RowOf(r).id = r
          /\ CreatedIds' = CreatedIds \cup {r} /\ notes' = notes \cup {RowOf(r)}
        BY <1>2, <1>4, RowIsNote DEF CommitsCreate
    <2>2. RowOf(r) \in Shelf!Note
        BY <2>1 DEF Shelf!Note, Note, Values
    <2>3. Shelf!Create(RowOf(r))
        BY <1>1, <2>1 DEF Shelf!Create, CreatedIds
    <2> QED
        BY <2>2, <2>3 DEF Shelf!ShelfNext
<1>5. ASSUME NEW n \in notes, CommitsUpdate(r, n)
      PROVE  [Shelf!ShelfNext]_<<notes, CreatedIds>>
    <2>1. CreatedIds' = CreatedIds
        BY <1>2, <1>5 DEF CommitsUpdate
    <2>2. req[r].values \in Shelf!Supplied
        BY DEF TypeOK, Request, Supplied, Shelf!Supplied
    <2>3. Shelf!Patch(n, req[r].values)
        BY <1>5, <2>1 DEF CommitsUpdate, Rewritten, Shelf!Patch
    <2> QED
        BY <2>2, <2>3 DEF Shelf!ShelfNext
<1>6. ASSUME NEW n \in notes, CommitsDelete(r, n)
      PROVE  [Shelf!ShelfNext]_<<notes, CreatedIds>>
    <2>1. Shelf!Delete(n)
        BY <1>2, <1>6 DEF CommitsDelete, Shelf!Delete
    <2> QED
        BY <2>1 DEF Shelf!ShelfNext
<1> QED
    BY <1>3, <1>4, <1>5, <1>6, CommitEffect

\* Every other step leaves the shelf alone.
LEMMA BeforeCommit ==
    ASSUME IInv, NEW r \in Requests,
           Arrive(r) \/ (Handle(r) /\ ~Commit(r)) \/ Disturb(r)
    PROVE  UNCHANGED <<notes, CreatedIds>>
<1> USE DEF IInv
<1>1. ASSUME NEW step, Goto(r, step), step # "committed", pc[r] # "committed",
             notes' = notes, req' = req \/ pc[r] = "idle",
             \A s \in Requests \ {r} : req'[s] = req[s]
      PROVE  UNCHANGED <<notes, CreatedIds>>
    BY <1>1 DEF Goto, TypeOK, CreatedIds
<1>2. CASE Arrive(r)
    <2>1. PICK kind \in Kinds, u \in Users, n \in Values, v \in Supplied :
              Asks(r, kind, u, n, v)
        BY <1>2, ArrivalFits
    <2>2. \A s \in Requests \ {r} : req'[s] = req[s]
        BY <2>1 DEF Asks, TypeOK
    <2> QED
        BY <1>1, <1>2, <2>2 DEF Arrive
<1>3. ASSUME NEW code, Abort(r, code), pc[r] # "committed"
      PROVE  UNCHANGED <<notes, CreatedIds>>
    BY <1>1, <1>3 DEF Abort
<1>4. CASE Disturb(r)
    BY <1>3, <1>4 DEF Disturb, Refused, PoolTimeout, StatementFails, CommitFails, Working
<1>5. CASE LimitExceeded(r) \/ TitleNull(r) \/ NothingDeleted(r) \/ NoteNotFound(r)
    BY <1>3, <1>5 DEF LimitExceeded, TitleNull, NothingDeleted, NoteNotFound
<1>6. CASE Connect(r)
    BY <1>1, <1>6 DEF Connect, FirstStep
<1>7. CASE \/ CountNotes(r) \/ InsertNote(r) \/ UpdateNote(r) \/ DeleteNote(r)
           \/ ListNotes(r) \/ NoteFound(r) \/ Answer(r)
    <2>1. PICK step \in {"insert", "answer", "select", "commit"} : Goto(r, step)
        BY <1>7 DEF CountNotes, InsertNote, UpdateNote, DeleteNote, ListNotes, NoteFound,
           Answer
    <2>2. pc[r] # "committed" /\ notes' = notes /\ req' = req
        BY <1>7 DEF CountNotes, InsertNote, UpdateNote, DeleteNote, ListNotes, NoteFound,
           Answer
    <2> QED
        BY <1>1, <2>1, <2>2
<1> QED
    BY <1>2, <1>4, <1>5, <1>6, <1>7 DEF Handle

\* Every commit of the notes routes is one atomic step of the shelf, and nothing
\* else changes it: no lost update, and no note that comes back.
THEOREM ShelfRefined == Spec => ShelfSpec
<1>1. Init => Shelf!ShelfInit
    BY DEF Init, Shelf!ShelfInit, CreatedIds
<1>2. IInv /\ [Next]_vars => [Shelf!ShelfNext]_<<notes, CreatedIds>>
    <2> SUFFICES ASSUME IInv, [Next]_vars
                 PROVE  [Shelf!ShelfNext]_<<notes, CreatedIds>>
        OBVIOUS
    <2>1. CASE UNCHANGED vars
        BY <2>1 DEF vars, CreatedIds
    <2>2. CASE \E r \in Requests : Arrive(r) \/ Handle(r) \/ Disturb(r)
        BY <2>2, CommitIsShelfStep, BeforeCommit
    <2> QED
        BY <2>1, <2>2 DEF Next, Quiescent
<1> QED
    BY <1>1, <1>2, Invariance, PTL DEF Spec, ShelfSpec, Shelf!ShelfSpec, Shelf!svars

=============================================================================

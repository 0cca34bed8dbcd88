-------------------------- MODULE AuthBackendProofs --------------------------
(* Theorems about AuthBackend, for any number of requests, addresses,       *)
(* connections and crashes, and about LogRedaction, for values of any       *)
(* depth.                                                                   *)
EXTENDS MCAuthLogging, SequenceTheorems, WellFoundedInduction, TLAPS

-----------------------------------------------------------------------------
(* Steps touch one request *)

\* Changing one set of one transaction leaves everything else in place.
LEMMA StageUsers ==
    ASSUME TypeOK, NEW r \in Requests, NEW X \in SUBSET UserRow,
           tx' = [tx EXCEPT ![r].users = X]
    PROVE  /\ tx' \in [Requests -> Tx]
           /\ tx'[r].users = X
           /\ tx'[r].profiles = tx[r].profiles
           /\ tx'[r].tokens = tx[r].tokens
           /\ tx'[r].deleted = tx[r].deleted
           /\ \A s \in Requests \ {r} : tx'[s] = tx[s]
<1> USE DEF TypeOK
<1>0. tx[r] \in Tx
    OBVIOUS
<1>1. [tx[r] EXCEPT !.users = X] \in Tx
    BY <1>0 DEF Tx
<1>2. tx' \in [Requests -> Tx]
    BY <1>1
<1>3. /\ tx'[r].users = X
      /\ tx'[r].profiles = tx[r].profiles
      /\ tx'[r].tokens = tx[r].tokens
      /\ tx'[r].deleted = tx[r].deleted
    BY DEF Tx
<1>4. \A s \in Requests \ {r} : tx'[s] = tx[s]
    OBVIOUS
<1> QED
    BY <1>2, <1>3, <1>4

LEMMA StageProfiles ==
    ASSUME TypeOK, NEW r \in Requests, NEW X \in SUBSET Requests,
           tx' = [tx EXCEPT ![r].profiles = X]
    PROVE  /\ tx' \in [Requests -> Tx]
           /\ tx'[r].profiles = X
           /\ tx'[r].users = tx[r].users
           /\ tx'[r].tokens = tx[r].tokens
           /\ tx'[r].deleted = tx[r].deleted
           /\ \A s \in Requests \ {r} : tx'[s] = tx[s]
<1> USE DEF TypeOK
<1>0. tx[r] \in Tx
    OBVIOUS
<1>1. [tx[r] EXCEPT !.profiles = X] \in Tx
    BY <1>0 DEF Tx
<1>2. tx' \in [Requests -> Tx]
    BY <1>1
<1>3. /\ tx'[r].profiles = X
      /\ tx'[r].users = tx[r].users
      /\ tx'[r].tokens = tx[r].tokens
      /\ tx'[r].deleted = tx[r].deleted
    BY DEF Tx
<1>4. \A s \in Requests \ {r} : tx'[s] = tx[s]
    OBVIOUS
<1> QED
    BY <1>2, <1>3, <1>4

LEMMA StageTokens ==
    ASSUME TypeOK, NEW r \in Requests, NEW X \in SUBSET TokenRow,
           tx' = [tx EXCEPT ![r].tokens = X]
    PROVE  /\ tx' \in [Requests -> Tx]
           /\ tx'[r].tokens = X
           /\ tx'[r].users = tx[r].users
           /\ tx'[r].profiles = tx[r].profiles
           /\ tx'[r].deleted = tx[r].deleted
           /\ \A s \in Requests \ {r} : tx'[s] = tx[s]
<1> USE DEF TypeOK
<1>0. tx[r] \in Tx
    OBVIOUS
<1>1. [tx[r] EXCEPT !.tokens = X] \in Tx
    BY <1>0 DEF Tx
<1>2. tx' \in [Requests -> Tx]
    BY <1>1
<1>3. /\ tx'[r].tokens = X
      /\ tx'[r].users = tx[r].users
      /\ tx'[r].profiles = tx[r].profiles
      /\ tx'[r].deleted = tx[r].deleted
    BY DEF Tx
<1>4. \A s \in Requests \ {r} : tx'[s] = tx[s]
    OBVIOUS
<1> QED
    BY <1>2, <1>3, <1>4

LEMMA StageDeleted ==
    ASSUME TypeOK, NEW r \in Requests, NEW X \in SUBSET Requests,
           tx' = [tx EXCEPT ![r].deleted = X]
    PROVE  /\ tx' \in [Requests -> Tx]
           /\ tx'[r].deleted = X
           /\ tx'[r].users = tx[r].users
           /\ tx'[r].profiles = tx[r].profiles
           /\ tx'[r].tokens = tx[r].tokens
           /\ \A s \in Requests \ {r} : tx'[s] = tx[s]
<1> USE DEF TypeOK
<1>0. tx[r] \in Tx
    OBVIOUS
<1>1. [tx[r] EXCEPT !.deleted = X] \in Tx
    BY <1>0 DEF Tx
<1>2. tx' \in [Requests -> Tx]
    BY <1>1
<1>3. /\ tx'[r].deleted = X
      /\ tx'[r].users = tx[r].users
      /\ tx'[r].profiles = tx[r].profiles
      /\ tx'[r].tokens = tx[r].tokens
    BY DEF Tx
<1>4. \A s \in Requests \ {r} : tx'[s] = tx[s]
    OBVIOUS
<1> QED
    BY <1>2, <1>3, <1>4

OthersStand(r) ==
    \A s \in Requests \ {r} : /\ pc'[s] = pc[s] /\ req'[s] = req[s]
                              /\ seen'[s] = seen[s] /\ tx'[s] = tx[s]

\* Staged rows stay as they are for the requests a step does not touch.
LEMMA StagedOthers ==
    ASSUME StagedRows, NEW r \in Requests, OthersStand(r), StagedBy(r)'
    PROVE  StagedRows'
<1> SUFFICES ASSUME NEW s \in Requests \ {r} PROVE StagedBy(s)'
    BY DEF StagedRows
<1>1. /\ UsersOf(s)' = UsersOf(s) /\ ProfilesOf(s)' = ProfilesOf(s)
      /\ TokensOf(s)' = TokensOf(s) /\ Deleting(s)' = Deleting(s)
    BY DEF OthersStand, UsersOf, ProfilesOf, TokensOf, Deleting
<1> QED
    BY <1>1 DEF StagedRows, StagedBy, OthersStand

LEMMA ArriveStep == ASSUME IInv, NEW r \in Requests, Arrive(r) PROVE IInv'
<1> USE DEF IInv
<1>1. TypeOK'
    BY NoneAssumption DEF TypeOK, Steps, Working, Finished, Request, Kinds, Codes, Tx, EmptyTx, UserRow, TokenRow, Arrive, Goto
<1>2. StepsOfKind'
    BY NoneAssumption DEF StepsOfKind, TypeOK, Kinds, Steps, Working, Finished, Arrive, Goto
<1>3. StagedRows'
    <2>1. OthersStand(r)
        BY NoneAssumption DEF OthersStand, TypeOK, Arrive, Goto
    <2>2. StagedBy(r)'
        BY NoneAssumption DEF StagedRows, StagedBy, StepsOfKind, SeenUsers, SeenBy, TypeOK, UsersOf, ProfilesOf, TokensOf, Deleting, UserStaged, ProfileStaged, TokenStaged, Minting, Arrive, Goto, Kinds
    <2> QED
        BY <2>1, <2>2, StagedOthers
<1>4. CommittedRows'
    BY NoneAssumption DEF CommittedRows, RegisteredRequests, MintedAndCommitted, TypeOK, Arrive, Goto
<1>5. SeenUsers'
    BY NoneAssumption DEF SeenUsers, SeenBy, StepsOfKind, RegisteredRequests, MintedAndCommitted, UserStaged, ProfileStaged, TypeOK, Arrive, Goto
<1>6. Rotating'
    BY NoneAssumption DEF Rotating, StagedRows, SeenUsers, SeenBy, ProfileStaged, Live, TypeOK, StagedBy, UsersOf, ProfilesOf, TokensOf, Deleting, UserStaged, TokenStaged, Minting, Arrive, Goto
<1>7. EmailsApart'
    BY NoneAssumption DEF EmailsApart, TypeOK, Arrive, Goto
<1>8. UniqueEmail'
    BY NoneAssumption DEF UniqueEmail, Arrive, Goto
<1>9. ErrorsAborted'
    BY NoneAssumption DEF ErrorsAborted, TypeOK, Arrive, Goto
<1>10. OnlyItsOwnRequestsEndASession'
    BY NoneAssumption DEF OnlyItsOwnRequestsEndASession, Live, TypeOK, Arrive, Goto
<1> QED
    BY <1>1, <1>2, <1>3, <1>4, <1>5, <1>6, <1>7, <1>8, <1>9, <1>10

LEMMA ConnectStep == ASSUME IInv, NEW r \in Requests, Connect(r) PROVE IInv'
<1> USE DEF IInv
<1>1. TypeOK'
    BY NoneAssumption DEF TypeOK, Steps, Working, Finished, Request, Kinds, Codes, Tx, EmptyTx, UserRow, TokenRow, Connect, Goto
<1>2. StepsOfKind'
    BY NoneAssumption DEF StepsOfKind, TypeOK, Connect, Goto
<1>3. StagedRows'
    <2>1. OthersStand(r)
        BY NoneAssumption DEF OthersStand, TypeOK, Connect, Goto
    <2>2. StagedBy(r)'
        BY NoneAssumption DEF StagedRows, StagedBy, StepsOfKind, SeenUsers, SeenBy, TypeOK, UsersOf, ProfilesOf, TokensOf, Deleting, UserStaged, ProfileStaged, TokenStaged, Minting, Connect, Goto
    <2> QED
        BY <2>1, <2>2, StagedOthers
<1>4. CommittedRows'
    BY NoneAssumption DEF CommittedRows, RegisteredRequests, MintedAndCommitted, TypeOK, Connect, Goto
<1>5. SeenUsers'
    BY NoneAssumption DEF SeenUsers, SeenBy, StepsOfKind, RegisteredRequests, MintedAndCommitted, UserStaged, ProfileStaged, TypeOK, Connect, Goto
<1>6. Rotating'
    BY NoneAssumption DEF Rotating, StagedRows, SeenUsers, SeenBy, ProfileStaged, Live, TypeOK, StagedBy, UsersOf, ProfilesOf, TokensOf, Deleting, UserStaged, TokenStaged, Minting, Connect, Goto
<1>7. EmailsApart'
    BY NoneAssumption DEF EmailsApart, TypeOK, Connect, Goto
<1>8. UniqueEmail'
    BY NoneAssumption DEF UniqueEmail, Connect, Goto
<1>9. ErrorsAborted'
    BY NoneAssumption DEF ErrorsAborted, TypeOK, Connect, Goto
<1>10. OnlyItsOwnRequestsEndASession'
    BY NoneAssumption DEF OnlyItsOwnRequestsEndASession, Live, TypeOK, Connect, Goto
<1> QED
    BY <1>1, <1>2, <1>3, <1>4, <1>5, <1>6, <1>7, <1>8, <1>9, <1>10

LEMMA RegisterSelectStep == ASSUME IInv, NEW r \in Requests, RegisterSelect(r) PROVE IInv'
<1> USE DEF IInv
<1>1. TypeOK'
    BY NoneAssumption DEF TypeOK, Steps, Working, Finished, Request, Kinds, Codes, Tx, EmptyTx, UserRow, TokenRow, RegisterSelect, Goto
<1>2. StepsOfKind'
    BY NoneAssumption DEF StepsOfKind, TypeOK, RegisterSelect, Goto
<1>3. StagedRows'
    <2>1. OthersStand(r)
        BY NoneAssumption DEF OthersStand, TypeOK, RegisterSelect, Goto
    <2>2. StagedBy(r)'
        BY NoneAssumption DEF StagedRows, StagedBy, StepsOfKind, SeenUsers, SeenBy, TypeOK, UsersOf, ProfilesOf, TokensOf, Deleting, UserStaged, ProfileStaged, TokenStaged, Minting, RegisterSelect, Goto
    <2> QED
        BY <2>1, <2>2, StagedOthers
<1>4. CommittedRows'
    BY NoneAssumption DEF CommittedRows, RegisteredRequests, MintedAndCommitted, TypeOK, RegisterSelect, Goto
<1>5. SeenUsers'
    BY NoneAssumption DEF SeenUsers, SeenBy, StepsOfKind, RegisteredRequests, MintedAndCommitted, UserStaged, ProfileStaged, TypeOK, RegisterSelect, Goto
<1>6. Rotating'
    BY NoneAssumption DEF Rotating, StagedRows, SeenUsers, SeenBy, ProfileStaged, Live, TypeOK, StagedBy, UsersOf, ProfilesOf, TokensOf, Deleting, UserStaged, TokenStaged, Minting, RegisterSelect, Goto
<1>7. EmailsApart'
    BY NoneAssumption DEF EmailsApart, TypeOK, RegisterSelect, Goto
<1>8. UniqueEmail'
    BY NoneAssumption DEF UniqueEmail, RegisterSelect, Goto
<1>9. ErrorsAborted'
    BY NoneAssumption DEF ErrorsAborted, TypeOK, RegisterSelect, Goto
<1>10. OnlyItsOwnRequestsEndASession'
    BY NoneAssumption DEF OnlyItsOwnRequestsEndASession, Live, TypeOK, RegisterSelect, Goto
<1> QED
    BY <1>1, <1>2, <1>3, <1>4, <1>5, <1>6, <1>7, <1>8, <1>9, <1>10

LEMMA InsertUserStep == ASSUME IInv, NEW r \in Requests, InsertUser(r) PROVE IInv'
<1> USE DEF IInv
<1>1. {[id |-> r, email |-> req[r].email]} \in SUBSET UserRow
    BY DEF StepsOfKind, TypeOK, Request, UserRow, InsertUser
<1>2. /\ tx' \in [Requests -> Tx]
      /\ tx'[r].users = {[id |-> r, email |-> req[r].email]}
      /\ tx'[r].profiles = tx[r].profiles
      /\ tx'[r].tokens = tx[r].tokens
      /\ tx'[r].deleted = tx[r].deleted
      /\ \A s \in Requests \ {r} : tx'[s] = tx[s]
    BY <1>1, StageUsers DEF InsertUser
<1>3. TypeOK'
    BY <1>2, NoneAssumption DEF TypeOK, Steps, Working, Finished, Request, Kinds, Codes, Tx, EmptyTx, UserRow, TokenRow, StepsOfKind, InsertUser, Goto, EmailLockedByOther
<1>4. StepsOfKind'
    BY <1>2, NoneAssumption DEF StepsOfKind, TypeOK, InsertUser, Goto, EmailLockedByOther
<1>5. StagedRows'
    <2>1. OthersStand(r)
        BY <1>2, NoneAssumption DEF OthersStand, TypeOK, InsertUser, Goto
    <2>2. /\ pc[r] = "insert_user" /\ pc'[r] = "insert_profile"
          /\ req[r].kind = "register" /\ req'[r] = req[r] /\ seen'[r] = r
        BY DEF TypeOK, StepsOfKind, SeenUsers, SeenBy, UserStaged, InsertUser, Goto
    <2>3. StagedBy(r)'
        BY <1>2, <2>2 DEF StagedRows, StagedBy, UsersOf, ProfilesOf, TokensOf, Deleting, UserStaged, ProfileStaged, TokenStaged, Minting
    <2> QED
        BY <2>1, <2>3, StagedOthers
<1>6. CommittedRows'
    BY <1>2, NoneAssumption DEF CommittedRows, RegisteredRequests, MintedAndCommitted, TypeOK, InsertUser, Goto, EmailLockedByOther
<1>7. SeenUsers'
    BY <1>2, NoneAssumption DEF SeenUsers, SeenBy, StepsOfKind, RegisteredRequests, MintedAndCommitted, UserStaged, ProfileStaged, TypeOK, InsertUser, Goto, EmailLockedByOther
<1>8. Rotating'
    BY <1>2, NoneAssumption DEF Rotating, StagedRows, SeenUsers, SeenBy, ProfileStaged, Live, TypeOK, StagedBy, UsersOf, ProfilesOf, TokensOf, Deleting, UserStaged, TokenStaged, Minting, InsertUser, Goto, EmailLockedByOther
<1>9. EmailsApart'
    BY <1>2, NoneAssumption DEF EmailsApart, TypeOK, InsertUser, Goto, EmailLockedByOther
<1>10. UniqueEmail'
    BY <1>2, NoneAssumption DEF UniqueEmail, InsertUser, Goto, EmailLockedByOther
<1>11. ErrorsAborted'
    BY <1>2, NoneAssumption DEF ErrorsAborted, TypeOK, InsertUser, Goto, EmailLockedByOther
<1>12. OnlyItsOwnRequestsEndASession'
    BY <1>2, NoneAssumption DEF OnlyItsOwnRequestsEndASession, Live, TypeOK, InsertUser, Goto, EmailLockedByOther
<1> QED
    BY <1>3, <1>4, <1>5, <1>6, <1>7, <1>8, <1>9, <1>10, <1>11, <1>12

LEMMA InsertProfileStep == ASSUME IInv, NEW r \in Requests, InsertProfile(r) PROVE IInv'
<1> USE DEF IInv
<1>1. {seen[r]} \in SUBSET Requests
    BY DEF StepsOfKind, SeenUsers, SeenBy, UserStaged, InsertProfile
<1>2. /\ tx' \in [Requests -> Tx]
      /\ tx'[r].profiles = {seen[r]}
      /\ tx'[r].users = tx[r].users
      /\ tx'[r].tokens = tx[r].tokens
      /\ tx'[r].deleted = tx[r].deleted
      /\ \A s \in Requests \ {r} : tx'[s] = tx[s]
    BY <1>1, StageProfiles DEF InsertProfile
<1>3. TypeOK'
    BY <1>2, NoneAssumption DEF TypeOK, Steps, Working, Finished, Request, Kinds, Codes, Tx, EmptyTx, UserRow, TokenRow, StepsOfKind, SeenUsers, SeenBy, UserStaged, InsertProfile, Goto
<1>4. StepsOfKind'
    BY <1>2, NoneAssumption DEF StepsOfKind, TypeOK, Minting, InsertProfile, Goto
<1>5. StagedRows'
    <2>1. OthersStand(r)
        BY <1>2, NoneAssumption DEF OthersStand, TypeOK, InsertProfile, Goto
    <2>2. /\ pc[r] = "insert_profile" /\ pc'[r] = "mint"
          /\ req[r].kind = "register" /\ req'[r] = req[r] /\ seen'[r] = seen[r] /\ seen[r] = r
        BY DEF TypeOK, StepsOfKind, SeenUsers, SeenBy, UserStaged, InsertProfile, Goto
    <2>3. StagedBy(r)'
        BY <1>2, <2>2 DEF StagedRows, StagedBy, UsersOf, ProfilesOf, TokensOf, Deleting, UserStaged, ProfileStaged, TokenStaged, Minting
    <2> QED
        BY <2>1, <2>3, StagedOthers
<1>6. CommittedRows'
    BY <1>2, NoneAssumption DEF CommittedRows, RegisteredRequests, MintedAndCommitted, TypeOK, InsertProfile, Goto
<1>7. SeenUsers'
    BY <1>2, NoneAssumption DEF SeenUsers, SeenBy, StepsOfKind, RegisteredRequests, MintedAndCommitted, UserStaged, ProfileStaged, TypeOK, InsertProfile, Goto
<1>8. Rotating'
    BY <1>2, NoneAssumption DEF Rotating, StagedRows, SeenUsers, SeenBy, ProfileStaged, Live, TypeOK, StepsOfKind, Tx, StagedBy, UsersOf, ProfilesOf, TokensOf, Deleting, UserStaged, TokenStaged, Minting, InsertProfile, Goto
<1>9. EmailsApart'
    BY <1>2, NoneAssumption DEF EmailsApart, TypeOK, InsertProfile, Goto
<1>10. UniqueEmail'
    BY <1>2, NoneAssumption DEF UniqueEmail, InsertProfile, Goto
<1>11. ErrorsAborted'
    BY <1>2, NoneAssumption DEF ErrorsAborted, TypeOK, InsertProfile, Goto
<1>12. OnlyItsOwnRequestsEndASession'
    BY <1>2, NoneAssumption DEF OnlyItsOwnRequestsEndASession, Live, TypeOK, InsertProfile, Goto
<1> QED
    BY <1>3, <1>4, <1>5, <1>6, <1>7, <1>8, <1>9, <1>10, <1>11, <1>12

LEMMA LoginSelectStep == ASSUME IInv, NEW r \in Requests, LoginSelect(r) PROVE IInv'
<1> USE DEF IInv
<1>1. TypeOK'
    BY NoneAssumption DEF TypeOK, Steps, Working, Finished, Request, Kinds, Codes, Tx, EmptyTx, UserRow, TokenRow, LoginSelect, Goto
<1>2. StepsOfKind'
    BY NoneAssumption DEF StepsOfKind, TypeOK, LoginSelect, Goto
<1>3. StagedRows'
    <2>1. OthersStand(r)
        BY NoneAssumption DEF OthersStand, TypeOK, LoginSelect, Goto
    <2>2. StagedBy(r)'
        BY NoneAssumption DEF StagedRows, StagedBy, StepsOfKind, SeenUsers, SeenBy, TypeOK, UsersOf, ProfilesOf, TokensOf, Deleting, UserStaged, ProfileStaged, TokenStaged, Minting, LoginSelect, Goto
    <2> QED
        BY <2>1, <2>2, StagedOthers
<1>4. CommittedRows'
    BY NoneAssumption DEF CommittedRows, RegisteredRequests, MintedAndCommitted, TypeOK, LoginSelect, Goto
<1>5. SeenUsers'
    <2>1. RegisteredRequests' = RegisteredRequests /\ MintedAndCommitted' = MintedAndCommitted
        BY DEF TypeOK, RegisteredRequests, MintedAndCommitted, LoginSelect, Goto
    <2>2. seen'[r] \in RegisteredRequests \/ seen'[r] = seen[r]
        BY DEF TypeOK, CommittedRows, LoginSelect
    <2>3. pc'[r] = "verify" /\ req[r].kind = "login" /\ req' = req
        BY DEF TypeOK, LoginSelect, Goto
    <2>4. seen[r] = None
        BY DEF SeenUsers, SeenBy, LoginSelect
    <2>5. \A s \in Requests \ {r} : pc'[s] = pc[s] /\ seen'[s] = seen[s]
        BY DEF TypeOK, LoginSelect, Goto
    <2>6. \A s \in Requests : req[s].kind = "refresh" =>
             (pc'[s] \in ProfileStaged \cup {"delete", "committed"} =>
                req[s].token \in MintedAndCommitted \cap (Requests \ {r}))
        BY <2>3, <2>5 DEF SeenUsers, SeenBy, MintedAndCommitted, LoginSelect
    <2>7. SeenBy(r)'
        BY <2>1, <2>2, <2>3, <2>4 DEF SeenBy, UserStaged, ProfileStaged
    <2>8. ASSUME NEW s \in Requests \ {r} PROVE SeenBy(s)'
        BY <2>1, <2>3, <2>5, <2>6 DEF SeenUsers, SeenBy
    <2> QED
        BY <2>7, <2>8 DEF SeenUsers
<1>6. Rotating'
    BY NoneAssumption DEF Rotating, StagedRows, SeenUsers, SeenBy, ProfileStaged, Live, TypeOK, StagedBy, UsersOf, ProfilesOf, TokensOf, Deleting, UserStaged, TokenStaged, Minting, LoginSelect, Goto
<1>7. EmailsApart'
    BY NoneAssumption DEF EmailsApart, TypeOK, LoginSelect, Goto
<1>8. UniqueEmail'
    BY NoneAssumption DEF UniqueEmail, LoginSelect, Goto
<1>9. ErrorsAborted'
    BY NoneAssumption DEF ErrorsAborted, TypeOK, LoginSelect, Goto
<1>10. OnlyItsOwnRequestsEndASession'
    BY NoneAssumption DEF OnlyItsOwnRequestsEndASession, Live, TypeOK, LoginSelect, Goto
<1> QED
    BY <1>1, <1>2, <1>3, <1>4, <1>5, <1>6, <1>7, <1>8, <1>9, <1>10

LEMMA PasswordOkStep == ASSUME IInv, NEW r \in Requests, PasswordOk(r) PROVE IInv'
<1> USE DEF IInv
<1>1. TypeOK'
    BY NoneAssumption DEF TypeOK, Steps, Working, Finished, Request, Kinds, Codes, Tx, EmptyTx, UserRow, TokenRow, PasswordOk, Goto
<1>2. StepsOfKind'
    BY NoneAssumption DEF StepsOfKind, TypeOK, Minting, PasswordOk, Goto
<1>3. StagedRows'
    <2>1. OthersStand(r)
        BY NoneAssumption DEF OthersStand, TypeOK, PasswordOk, Goto
    <2>2. StagedBy(r)'
        BY NoneAssumption DEF StagedRows, StagedBy, StepsOfKind, SeenUsers, SeenBy, TypeOK, UsersOf, ProfilesOf, TokensOf, Deleting, UserStaged, ProfileStaged, TokenStaged, Minting, PasswordOk, Goto
    <2> QED
        BY <2>1, <2>2, StagedOthers
<1>4. CommittedRows'
    BY NoneAssumption DEF CommittedRows, RegisteredRequests, MintedAndCommitted, TypeOK, PasswordOk, Goto
<1>5. SeenUsers'
    BY NoneAssumption DEF SeenUsers, SeenBy, StepsOfKind, RegisteredRequests, MintedAndCommitted, UserStaged, ProfileStaged, TypeOK, PasswordOk, Goto
<1>6. Rotating'
    BY NoneAssumption DEF Rotating, StagedRows, SeenUsers, SeenBy, ProfileStaged, Live, TypeOK, StepsOfKind, StagedBy, UsersOf, ProfilesOf, TokensOf, Deleting, UserStaged, TokenStaged, Minting, PasswordOk, Goto
<1>7. EmailsApart'
    BY NoneAssumption DEF EmailsApart, TypeOK, PasswordOk, Goto
<1>8. UniqueEmail'
    BY NoneAssumption DEF UniqueEmail, PasswordOk, Goto
<1>9. ErrorsAborted'
    BY NoneAssumption DEF ErrorsAborted, TypeOK, PasswordOk, Goto
<1>10. OnlyItsOwnRequestsEndASession'
    BY NoneAssumption DEF OnlyItsOwnRequestsEndASession, Live, TypeOK, PasswordOk, Goto
<1> QED
    BY <1>1, <1>2, <1>3, <1>4, <1>5, <1>6, <1>7, <1>8, <1>9, <1>10

LEMMA RefreshSelectStep == ASSUME IInv, NEW r \in Requests, RefreshSelect(r) PROVE IInv'
<1> USE DEF IInv
<1>1. TypeOK'
    BY NoneAssumption DEF TypeOK, Steps, Working, Finished, Request, Kinds, Codes, Tx, EmptyTx, UserRow, TokenRow, RefreshSelect, Goto, Usable, Live
<1>2. StepsOfKind'
    BY NoneAssumption DEF StepsOfKind, TypeOK, RefreshSelect, Goto, Usable, Live
<1>3. StagedRows'
    <2>1. OthersStand(r)
        BY NoneAssumption DEF OthersStand, TypeOK, RefreshSelect, Goto
    <2>2. StagedBy(r)'
        BY NoneAssumption DEF StagedRows, StagedBy, StepsOfKind, SeenUsers, SeenBy, TypeOK, UsersOf, ProfilesOf, TokensOf, Deleting, UserStaged, ProfileStaged, TokenStaged, Minting, RefreshSelect, Goto
    <2> QED
        BY <2>1, <2>2, StagedOthers
<1>4. CommittedRows'
    BY NoneAssumption DEF CommittedRows, RegisteredRequests, MintedAndCommitted, TypeOK, RefreshSelect, Goto, Usable, Live
<1>5. SeenUsers'
    <2>1. RegisteredRequests' = RegisteredRequests /\ MintedAndCommitted' = MintedAndCommitted
        BY DEF TypeOK, RegisteredRequests, MintedAndCommitted, RefreshSelect, Goto
    <2>2. /\ req[r].token \in MintedAndCommitted
          /\ seen'[r] = seen[req[r].token]
        BY DEF TypeOK, CommittedRows, RefreshSelect
    <2>3. seen[req[r].token] \in RegisteredRequests
        BY <2>2 DEF SeenUsers, SeenBy, MintedAndCommitted, RegisteredRequests, Minting
    <2>4. pc'[r] = "delete" /\ req[r].kind = "refresh" /\ req' = req
        BY DEF TypeOK, RefreshSelect, Goto
    <2>5. \A s \in Requests \ {r} : pc'[s] = pc[s] /\ seen'[s] = seen[s]
        BY DEF TypeOK, RefreshSelect, Goto
    <2>6. \A s \in Requests : req[s].kind = "refresh" =>
             (pc'[s] \in ProfileStaged \cup {"delete", "committed"} =>
                req[s].token \in MintedAndCommitted \cap (Requests \ {r}))
        BY <2>2, <2>4, <2>5 DEF SeenUsers, SeenBy, MintedAndCommitted, RefreshSelect
    <2>7. SeenBy(r)'
        BY <2>1, <2>2, <2>3, <2>4, <2>5, <2>6 DEF SeenBy, UserStaged, ProfileStaged
    <2>8. ASSUME NEW s \in Requests \ {r} PROVE SeenBy(s)'
        BY <2>1, <2>4, <2>5, <2>6 DEF SeenUsers, SeenBy
    <2> QED
        BY <2>7, <2>8 DEF SeenUsers
<1>6. Rotating'
    BY NoneAssumption DEF Rotating, StagedRows, SeenUsers, SeenBy, ProfileStaged, Live, TypeOK, StagedBy, UsersOf, ProfilesOf, TokensOf, Deleting, UserStaged, TokenStaged, Minting, RefreshSelect, Goto, Usable
<1>7. EmailsApart'
    BY NoneAssumption DEF EmailsApart, TypeOK, RefreshSelect, Goto, Usable, Live
<1>8. UniqueEmail'
    BY NoneAssumption DEF UniqueEmail, RefreshSelect, Goto, Usable, Live
<1>9. ErrorsAborted'
    BY NoneAssumption DEF ErrorsAborted, TypeOK, RefreshSelect, Goto, Usable, Live
<1>10. OnlyItsOwnRequestsEndASession'
    BY NoneAssumption DEF OnlyItsOwnRequestsEndASession, Live, TypeOK, RefreshSelect, Goto, Usable
<1> QED
    BY <1>1, <1>2, <1>3, <1>4, <1>5, <1>6, <1>7, <1>8, <1>9, <1>10

LEMMA DeleteTokenStep == ASSUME IInv, NEW r \in Requests, DeleteToken(r) PROVE IInv'
<1> USE DEF IInv
<1>1. {req[r].token} \cap Live \in SUBSET Requests
    BY DEF TypeOK, TokenRow, Live, DeleteToken
<1>2. /\ tx' \in [Requests -> Tx]
      /\ tx'[r].deleted = {req[r].token} \cap Live
      /\ tx'[r].users = tx[r].users
      /\ tx'[r].profiles = tx[r].profiles
      /\ tx'[r].tokens = tx[r].tokens
      /\ \A s \in Requests \ {r} : tx'[s] = tx[s]
    BY <1>1, StageDeleted DEF DeleteToken
<1>3. TypeOK'
    BY <1>2, NoneAssumption DEF TypeOK, Steps, Working, Finished, Request, Kinds, Codes, Tx, EmptyTx, UserRow, TokenRow, StepsOfKind, DeleteToken, Goto, RowLockedByOther, Live
<1>4. StepsOfKind'
    BY <1>2, NoneAssumption DEF StepsOfKind, TypeOK, Minting, DeleteToken, Goto, RowLockedByOther, Live
<1>5. StagedRows'
    <2>1. OthersStand(r)
        BY <1>2, NoneAssumption DEF OthersStand, TypeOK, DeleteToken, Goto
    <2>2. /\ pc[r] = "delete" /\ pc'[r] \in {"mint", "answer"} /\ (pc'[r] = "mint" <=> req[r].kind = "refresh")
          /\ req[r].kind \in {"refresh", "logout"} /\ req'[r] = req[r] /\ seen'[r] = seen[r]
        BY DEF TypeOK, StepsOfKind, SeenUsers, SeenBy, UserStaged, DeleteToken, Goto
    <2>3. StagedBy(r)'
        BY <1>2, <2>2 DEF StagedRows, StagedBy, UsersOf, ProfilesOf, TokensOf, Deleting, UserStaged, ProfileStaged, TokenStaged, Minting
    <2> QED
        BY <2>1, <2>3, StagedOthers
<1>6. CommittedRows'
    BY <1>2, NoneAssumption DEF CommittedRows, RegisteredRequests, MintedAndCommitted, TypeOK, DeleteToken, Goto, RowLockedByOther, Live
<1>7. SeenUsers'
    BY <1>2, NoneAssumption DEF SeenUsers, SeenBy, StepsOfKind, RegisteredRequests, MintedAndCommitted, UserStaged, ProfileStaged, TypeOK, DeleteToken, Goto, RowLockedByOther, Live
<1>8. Rotating'
    BY <1>2, NoneAssumption DEF Rotating, StagedRows, SeenUsers, SeenBy, ProfileStaged, Live, TypeOK, StagedBy, UsersOf, ProfilesOf, TokensOf, Deleting, UserStaged, TokenStaged, Minting, DeleteToken, Goto, RowLockedByOther
<1>9. EmailsApart'
    BY <1>2, NoneAssumption DEF EmailsApart, TypeOK, DeleteToken, Goto, RowLockedByOther, Live
<1>10. UniqueEmail'
    BY <1>2, NoneAssumption DEF UniqueEmail, DeleteToken, Goto, RowLockedByOther, Live
<1>11. ErrorsAborted'
    BY <1>2, NoneAssumption DEF ErrorsAborted, TypeOK, DeleteToken, Goto, RowLockedByOther, Live
<1>12. OnlyItsOwnRequestsEndASession'
    BY <1>2, NoneAssumption DEF OnlyItsOwnRequestsEndASession, Live, TypeOK, DeleteToken, Goto, RowLockedByOther
<1> QED
    BY <1>3, <1>4, <1>5, <1>6, <1>7, <1>8, <1>9, <1>10, <1>11, <1>12

LEMMA MeSelectStep == ASSUME IInv, NEW r \in Requests, MeSelect(r) PROVE IInv'
<1> USE DEF IInv
<1>1. TypeOK'
    BY NoneAssumption DEF TypeOK, Steps, Working, Finished, Request, Kinds, Codes, Tx, EmptyTx, UserRow, TokenRow, MeSelect, Goto
<1>2. StepsOfKind'
    BY NoneAssumption DEF StepsOfKind, TypeOK, MeSelect, Goto
<1>3. StagedRows'
    <2>1. OthersStand(r)
        BY NoneAssumption DEF OthersStand, TypeOK, MeSelect, Goto
    <2>2. StagedBy(r)'
        BY NoneAssumption DEF StagedRows, StagedBy, StepsOfKind, SeenUsers, SeenBy, TypeOK, UsersOf, ProfilesOf, TokensOf, Deleting, UserStaged, ProfileStaged, TokenStaged, Minting, MeSelect, Goto
    <2> QED
        BY <2>1, <2>2, StagedOthers
<1>4. CommittedRows'
    BY NoneAssumption DEF CommittedRows, RegisteredRequests, MintedAndCommitted, TypeOK, MeSelect, Goto
<1>5. SeenUsers'
    BY NoneAssumption DEF SeenUsers, SeenBy, StepsOfKind, RegisteredRequests, MintedAndCommitted, UserStaged, ProfileStaged, TypeOK, MeSelect, Goto
<1>6. Rotating'
    BY NoneAssumption DEF Rotating, StagedRows, SeenUsers, SeenBy, ProfileStaged, Live, TypeOK, StagedBy, UsersOf, ProfilesOf, TokensOf, Deleting, UserStaged, TokenStaged, Minting, MeSelect, Goto
<1>7. EmailsApart'
    BY NoneAssumption DEF EmailsApart, TypeOK, MeSelect, Goto
<1>8. UniqueEmail'
    BY NoneAssumption DEF UniqueEmail, MeSelect, Goto
<1>9. ErrorsAborted'
    BY NoneAssumption DEF ErrorsAborted, TypeOK, MeSelect, Goto
<1>10. OnlyItsOwnRequestsEndASession'
    BY NoneAssumption DEF OnlyItsOwnRequestsEndASession, Live, TypeOK, MeSelect, Goto
<1> QED
    BY <1>1, <1>2, <1>3, <1>4, <1>5, <1>6, <1>7, <1>8, <1>9, <1>10

LEMMA MintTokenStep == ASSUME IInv, NEW r \in Requests, MintToken(r) PROVE IInv'
<1> USE DEF IInv
<1>1. {[id |-> r, user |-> seen[r]]} \in SUBSET TokenRow
    BY DEF StepsOfKind, SeenUsers, SeenBy, UserStaged, ProfileStaged, Minting, RegisteredRequests, TokenRow, MintToken
<1>2. /\ tx' \in [Requests -> Tx]
      /\ tx'[r].tokens = {[id |-> r, user |-> seen[r]]}
      /\ tx'[r].users = tx[r].users
      /\ tx'[r].profiles = tx[r].profiles
      /\ tx'[r].deleted = tx[r].deleted
      /\ \A s \in Requests \ {r} : tx'[s] = tx[s]
    BY <1>1, StageTokens DEF MintToken
<1>3. TypeOK'
  <2>1. pc' \in [Requests -> Steps]
      BY DEF TypeOK, Steps, Working, MintToken, Goto
  <2>2. tx' \in [Requests -> Tx]
      BY <1>2
  <2>3. TypeOK /\ UNCHANGED <<req, seen, resp, users, profiles, tokens, expired, crashes>>
      BY DEF MintToken
  <2> QED
      BY <2>1, <2>2, <2>3 DEF TypeOK
<1>4. StepsOfKind'
    BY <1>2, NoneAssumption DEF StepsOfKind, TypeOK, MintToken, Goto
<1>5. StagedRows'
    <2>1. OthersStand(r)
        BY <1>2, NoneAssumption DEF OthersStand, TypeOK, MintToken, Goto
    <2>2. /\ pc[r] = "mint" /\ pc'[r] = "answer"
          /\ req[r].kind \in Minting /\ req'[r] = req[r] /\ seen'[r] = seen[r]
        BY DEF TypeOK, StepsOfKind, SeenUsers, SeenBy, UserStaged, MintToken, Goto
    <2>3. StagedBy(r)
        BY DEF StagedRows
    <2>4. UsersOf(r)' = UsersOf(r) /\ ProfilesOf(r)' = ProfilesOf(r)
        BY <2>2 DEF UsersOf, ProfilesOf, UserStaged, ProfileStaged
    <2>5. TokensOf(r)' = {[id |-> r, user |-> seen[r]]}
        BY <2>2 DEF TokensOf, TokenStaged
    <2>6. Deleting(r)' <=> Deleting(r)
        BY <2>2 DEF Deleting, ProfileStaged
    <2>7. StagedBy(r)'
        BY <1>2, <2>2, <2>3, <2>4, <2>5, <2>6 DEF StagedBy
    <2> QED
        BY <2>1, <2>7, StagedOthers
<1>6. CommittedRows'
    BY <1>2, NoneAssumption DEF CommittedRows, RegisteredRequests, MintedAndCommitted, TypeOK, MintToken, Goto
<1>7. SeenUsers'
    BY <1>2, NoneAssumption DEF SeenUsers, SeenBy, StepsOfKind, RegisteredRequests, MintedAndCommitted, UserStaged, ProfileStaged, TypeOK, MintToken, Goto
<1>8. Rotating'
    BY <1>2, NoneAssumption DEF Rotating, StagedRows, SeenUsers, SeenBy, ProfileStaged, Live, TypeOK, StagedBy, UsersOf, ProfilesOf, TokensOf, Deleting, UserStaged, TokenStaged, Minting, MintToken, Goto
<1>9. EmailsApart'
    BY <1>2, NoneAssumption DEF EmailsApart, TypeOK, MintToken, Goto
<1>10. UniqueEmail'
    BY <1>2, NoneAssumption DEF UniqueEmail, MintToken, Goto
<1>11. ErrorsAborted'
    BY <1>2, NoneAssumption DEF ErrorsAborted, TypeOK, MintToken, Goto
<1>12. OnlyItsOwnRequestsEndASession'
    BY <1>2, NoneAssumption DEF OnlyItsOwnRequestsEndASession, Live, TypeOK, MintToken, Goto
<1> QED
    BY <1>3, <1>4, <1>5, <1>6, <1>7, <1>8, <1>9, <1>10, <1>11, <1>12

LEMMA AnswerStep == ASSUME IInv, NEW r \in Requests, Answer(r) PROVE IInv'
<1> USE DEF IInv
<1>1. TypeOK'
    BY NoneAssumption DEF TypeOK, Steps, Working, Finished, Request, Kinds, Codes, Tx, EmptyTx, UserRow, TokenRow, Answer, Goto, SuccessCode
<1>2. StepsOfKind'
    BY NoneAssumption DEF StepsOfKind, TypeOK, Answer, Goto, SuccessCode
<1>3. StagedRows'
    <2>1. OthersStand(r)
        BY NoneAssumption DEF OthersStand, TypeOK, Answer, Goto
    <2>2. StagedBy(r)'
        BY NoneAssumption DEF StagedRows, StagedBy, StepsOfKind, SeenUsers, SeenBy, TypeOK, UsersOf, ProfilesOf, TokensOf, Deleting, UserStaged, ProfileStaged, TokenStaged, Minting, Answer, Goto
    <2> QED
        BY <2>1, <2>2, StagedOthers
<1>4. CommittedRows'
    BY NoneAssumption DEF CommittedRows, RegisteredRequests, MintedAndCommitted, TypeOK, Answer, Goto, SuccessCode
<1>5. SeenUsers'
    BY NoneAssumption DEF SeenUsers, SeenBy, StepsOfKind, RegisteredRequests, MintedAndCommitted, UserStaged, ProfileStaged, TypeOK, Answer, Goto, SuccessCode
<1>6. Rotating'
    BY NoneAssumption DEF Rotating, StagedRows, SeenUsers, SeenBy, ProfileStaged, Live, TypeOK, StagedBy, UsersOf, ProfilesOf, TokensOf, Deleting, UserStaged, TokenStaged, Minting, Answer, Goto, SuccessCode
<1>7. EmailsApart'
    BY NoneAssumption DEF EmailsApart, TypeOK, Answer, Goto, SuccessCode
<1>8. UniqueEmail'
    BY NoneAssumption DEF UniqueEmail, Answer, Goto, SuccessCode
<1>9. ErrorsAborted'
    BY NoneAssumption DEF ErrorsAborted, TypeOK, Answer, Goto, SuccessCode
<1>10. OnlyItsOwnRequestsEndASession'
    BY NoneAssumption DEF OnlyItsOwnRequestsEndASession, Live, TypeOK, Answer, Goto, SuccessCode
<1> QED
    BY <1>1, <1>2, <1>3, <1>4, <1>5, <1>6, <1>7, <1>8, <1>9, <1>10

\* A commit publishes what its request has staged and ends its transaction.
LEMMA CommitEffect ==
    ASSUME IInv, NEW r \in Requests, Commit(r)
    PROVE  /\ OthersStand(r)
           /\ pc[r] = "commit" /\ pc'[r] = "committed"
           /\ req' = req /\ seen' = seen /\ resp' = resp
           /\ tx'[r] = EmptyTx
           /\ users' = users \cup UsersOf(r)
           /\ profiles' = profiles \cup ProfilesOf(r)
           /\ tokens' = {k \in tokens : k.id \notin tx[r].deleted} \cup TokensOf(r)
           /\ StagedBy(r)
           /\ RegisteredRequests' =
                RegisteredRequests \cup (IF req[r].kind = "register" THEN {r} ELSE {})
           /\ MintedAndCommitted' =
                MintedAndCommitted \cup (IF req[r].kind \in Minting THEN {r} ELSE {})
<1> USE DEF IInv
<1>1. StagedBy(r)
    BY DEF StagedRows
<1>2. /\ pc[r] = "commit" /\ pc'[r] = "committed"
      /\ req' = req /\ seen' = seen /\ resp' = resp
      /\ OthersStand(r) /\ tx'[r] = EmptyTx
    BY DEF Commit, Goto, TypeOK, OthersStand
<1>3. /\ users' = users \cup UsersOf(r)
      /\ profiles' = profiles \cup ProfilesOf(r)
      /\ tokens' = {k \in tokens : k.id \notin tx[r].deleted} \cup TokensOf(r)
    BY <1>1 DEF Commit, StagedBy
<1>4. RegisteredRequests' =
         RegisteredRequests \cup (IF req[r].kind = "register" THEN {r} ELSE {})
    BY <1>2 DEF RegisteredRequests, OthersStand
<1>5. MintedAndCommitted' =
         MintedAndCommitted \cup (IF req[r].kind \in Minting THEN {r} ELSE {})
    BY <1>2 DEF MintedAndCommitted, OthersStand
<1> QED
    BY <1>1, <1>2, <1>3, <1>4, <1>5

LEMMA CommitStep == ASSUME IInv, NEW r \in Requests, Commit(r) PROVE IInv'
<1> USE CommitEffect
<1> USE DEF IInv
<1>1. TypeOK'
    BY DEF TypeOK, Commit, Goto, Steps, Finished, Tx, EmptyTx
<1>2. StepsOfKind'
    BY DEF StepsOfKind, OthersStand
<1>3. StagedRows'
    <2>1. StagedBy(r)'
        <3>1. pc'[r] = "committed" /\ tx'[r] = EmptyTx
            OBVIOUS
        <3>2. UsersOf(r)' = {} /\ ProfilesOf(r)' = {} /\ TokensOf(r)' = {}
            BY <3>1 DEF UsersOf, ProfilesOf, TokensOf, UserStaged, ProfileStaged, TokenStaged
        <3> QED
            BY <3>1, <3>2 DEF StagedBy, EmptyTx
    <2> QED
        BY <2>1, StagedOthers
<1>4. CommittedRows'
    <2>1. users' = {[id |-> s, email |-> req[s].email] : s \in RegisteredRequests'}
        BY DEF CommittedRows, UsersOf, UserStaged
    <2>2. profiles' = RegisteredRequests'
        BY DEF CommittedRows, ProfilesOf, ProfileStaged
    <2>3. tokens' \subseteq {[id |-> s, user |-> seen[s]] : s \in MintedAndCommitted'}
        BY DEF CommittedRows, TokensOf, TokenStaged
    <2> QED
        BY <2>1, <2>2, <2>3 DEF CommittedRows
<1>5. SeenUsers'
    BY DEF SeenUsers, SeenBy, StepsOfKind, OthersStand, UserStaged, ProfileStaged
<1>6. Rotating'
    <2> SUFFICES ASSUME NEW s \in Requests, req[s].kind = "refresh",
                        pc'[s] \in ProfileStaged \cup {"committed"},
                        req[s].token \in Live'
                 PROVE  pc'[s] # "committed" /\ req[s].token \in tx'[s].deleted
        BY DEF Rotating, ProfileStaged
    <2>1. req[s].token # r
        BY DEF SeenUsers, SeenBy, OthersStand, ProfileStaged, MintedAndCommitted
    <2>2. req[s].token \in Live /\ req[s].token \notin tx[r].deleted
        BY <2>1 DEF Live, TokensOf
    <2>3. CASE s = r
        BY <2>2, <2>3 DEF Rotating, ProfileStaged
    <2>4. CASE s # r
        BY <2>2, <2>4 DEF Rotating, OthersStand
    <2> QED
        BY <2>3, <2>4
<1>7. EmailsApart'
    BY DEF EmailsApart, TypeOK, Commit, Goto, EmptyTx
<1>8. UniqueEmail'
    <2>1. \A u \in UsersOf(r), v \in users : u.email # v.email
        BY DEF EmailsApart, StagedBy
    <2>2. \A u, v \in UsersOf(r) : u = v
        BY DEF UsersOf
    <2> QED
        BY <2>1, <2>2 DEF UniqueEmail
<1>9. ErrorsAborted'
    BY DEF ErrorsAborted, OthersStand
<1>10. OnlyItsOwnRequestsEndASession'
    <2> SUFFICES ASSUME NEW t \in MintedAndCommitted', t \notin Live'
                 PROVE  \E s \in Requests : /\ pc'[s] = "committed"
                                            /\ req[s].kind \in {"refresh", "logout"}
                                            /\ req[s].token = t
        BY DEF OnlyItsOwnRequestsEndASession, MintedAndCommitted
    <2>1. t # r
        <3> SUFFICES ASSUME req[r].kind \in Minting PROVE r \in Live'
            BY DEF MintedAndCommitted
        <3>1. [id |-> r, user |-> seen[r]] \in TokensOf(r)
            BY DEF TokensOf, TokenStaged
        <3>2. [id |-> r, user |-> seen[r]] \in tokens'
            BY <3>1
        <3> QED
            BY <3>2 DEF Live
    <2>2. t \in MintedAndCommitted
        BY <2>1
    <2>3. CASE t \in Live
        <3>1. t \in tx[r].deleted
            BY <2>3 DEF Live
        <3> QED
            BY <3>1 DEF StagedBy, Deleting
    <2>4. CASE t \notin Live
        BY <2>2, <2>4 DEF OnlyItsOwnRequestsEndASession, MintedAndCommitted, OthersStand
    <2> QED
        BY <2>3, <2>4
<1> QED
    BY <1>1, <1>2, <1>3, <1>4, <1>5, <1>6, <1>7, <1>8, <1>9, <1>10

-----------------------------------------------------------------------------
(* Requests that end without a commit *)

LEMMA AbortStep ==
    ASSUME IInv, NEW r \in Requests, NEW code \in Codes, Abort(r, code),
           pc[r] \in Steps \ ({"idle"} \cup Finished)
    PROVE  IInv'
<1> USE DEF IInv
<1>1. /\ OthersStand(r) /\ req' = req /\ seen' = seen
      /\ pc'[r] = "aborted" /\ tx'[r] = EmptyTx
      /\ users' = users /\ profiles' = profiles /\ tokens' = tokens
    BY DEF TypeOK, OthersStand, Abort, Goto
<1>2. /\ RegisteredRequests' = RegisteredRequests
      /\ MintedAndCommitted' = MintedAndCommitted
      /\ Live' = Live
    BY <1>1 DEF RegisteredRequests, MintedAndCommitted, OthersStand, Finished, Live
<1>3. TypeOK'
    BY DEF TypeOK, Abort, Goto, Steps, Finished, Tx, EmptyTx
<1>4. StepsOfKind'
    BY <1>1 DEF StepsOfKind, OthersStand, Finished
<1>5. StagedRows'
    <2>1. UsersOf(r)' = {} /\ ProfilesOf(r)' = {} /\ TokensOf(r)' = {}
        BY <1>1 DEF UsersOf, ProfilesOf, TokensOf, UserStaged, ProfileStaged, TokenStaged
    <2>2. StagedBy(r)'
        BY <1>1, <2>1 DEF StagedBy, EmptyTx
    <2> QED
        BY <1>1, <2>2, StagedOthers
<1>6. CommittedRows'
    BY <1>1, <1>2 DEF CommittedRows
<1>7. SeenUsers'
    BY <1>1, <1>2 DEF SeenUsers, SeenBy, OthersStand, UserStaged, ProfileStaged
<1>8. Rotating'
    BY <1>1, <1>2 DEF Rotating, OthersStand, ProfileStaged
<1>9. EmailsApart'
    BY <1>1 DEF EmailsApart, OthersStand, EmptyTx
<1>10. UniqueEmail'
    BY <1>1 DEF UniqueEmail
<1>11. ErrorsAborted'
    BY <1>1 DEF ErrorsAborted, Abort, Goto, TypeOK
<1>12. OnlyItsOwnRequestsEndASession'
    BY <1>1, <1>2 DEF OnlyItsOwnRequestsEndASession, OthersStand, MintedAndCommitted, Finished
<1> QED
    BY <1>3, <1>4, <1>5, <1>6, <1>7, <1>8, <1>9, <1>10, <1>11, <1>12

\* A crash aborts every request in flight, and touches no other.
LEMMA CrashStep == ASSUME IInv, Crash PROVE IInv'
<1> USE DEF IInv
<1>1. \A s \in Requests : \/ pc'[s] = pc[s] /\ pc[s] \in {"idle"} \cup Finished
                          \/ pc'[s] = "aborted" /\ pc[s] \notin {"idle"} \cup Finished
    BY DEF TypeOK, Crash
<1>2. /\ req' = req /\ seen' = seen /\ resp' = resp
      /\ users' = users /\ profiles' = profiles /\ tokens' = tokens
      /\ \A s \in Requests : tx'[s] = EmptyTx
    BY DEF Crash
<1>3. /\ RegisteredRequests' = RegisteredRequests
      /\ MintedAndCommitted' = MintedAndCommitted
      /\ Live' = Live
    BY <1>1, <1>2 DEF RegisteredRequests, MintedAndCommitted, Finished, Live
<1>4. TypeOK'
    BY DEF TypeOK, Crash, Steps, Finished, Tx, EmptyTx
<1>5. StepsOfKind'
    BY <1>1, <1>2 DEF StepsOfKind, Finished
<1>6. StagedRows'
    <2> SUFFICES ASSUME NEW s \in Requests PROVE StagedBy(s)'
        BY DEF StagedRows
    <2>1. UsersOf(s)' = {} /\ ProfilesOf(s)' = {} /\ TokensOf(s)' = {}
        BY <1>1 DEF Finished, UsersOf, ProfilesOf, TokensOf, UserStaged, ProfileStaged,
           TokenStaged
    <2> QED
        BY <1>2, <2>1 DEF StagedBy, EmptyTx
<1>7. CommittedRows'
    BY <1>2, <1>3 DEF CommittedRows
<1>8. SeenUsers'
    BY <1>1, <1>2, <1>3 DEF SeenUsers, SeenBy, UserStaged, ProfileStaged, Finished
<1>9. Rotating'
    BY <1>1, <1>2, <1>3 DEF Rotating, ProfileStaged, Finished
<1>10. EmailsApart'
    BY <1>2 DEF EmailsApart, EmptyTx
<1>11. UniqueEmail'
    BY <1>2 DEF UniqueEmail
<1>12. ErrorsAborted'
    BY <1>1, <1>2 DEF ErrorsAborted
<1>13. OnlyItsOwnRequestsEndASession'
    BY <1>1, <1>2, <1>3 DEF OnlyItsOwnRequestsEndASession, MintedAndCommitted, Finished
<1> QED
    BY <1>4, <1>5, <1>6, <1>7, <1>8, <1>9, <1>10, <1>11, <1>12, <1>13

\* The expiry of a token is no part of the invariant.
LEMMA StandStill ==
    ASSUME IInv, expired' \in SUBSET Requests,
           UNCHANGED <<pc, req, seen, resp, tx, users, profiles, tokens, crashes>>
    PROVE  IInv'
<1> USE DEF IInv
<1>1. TypeOK'
    BY DEF TypeOK
<1>2. StepsOfKind' /\ UniqueEmail' /\ ErrorsAborted' /\ EmailsApart'
    BY DEF StepsOfKind, UniqueEmail, ErrorsAborted, EmailsApart
<1>3. \A s \in Requests : StagedBy(s) => StagedBy(s)'
    <2> TAKE s \in Requests
    <2>1. /\ UsersOf(s)' = UsersOf(s) /\ ProfilesOf(s)' = ProfilesOf(s)
          /\ TokensOf(s)' = TokensOf(s) /\ Deleting(s)' = Deleting(s)
        BY DEF UsersOf, ProfilesOf, TokensOf, Deleting
    <2> QED
        BY <2>1 DEF StagedBy
<1>4. /\ RegisteredRequests' = RegisteredRequests
      /\ MintedAndCommitted' = MintedAndCommitted
      /\ Live' = Live
    BY DEF RegisteredRequests, MintedAndCommitted, Live
<1>5. CommittedRows'
    BY <1>4 DEF CommittedRows
<1>6. SeenUsers'
    BY <1>4 DEF SeenUsers, SeenBy
<1>7. Rotating' /\ OnlyItsOwnRequestsEndASession'
    BY <1>4 DEF Rotating, OnlyItsOwnRequestsEndASession
<1> QED
    BY <1>1, <1>2, <1>3, <1>5, <1>6, <1>7 DEF StagedRows

-----------------------------------------------------------------------------
(* The invariant *)

LEMMA InitIInv == Init => IInv
<1> SUFFICES ASSUME Init PROVE IInv
    OBVIOUS
<1>1. TypeOK
    BY NoneAssumption, BoundsAssumption
    DEF Init, TypeOK, Steps, Working, Finished, Request, Kinds, Codes, Tx, EmptyTx,
        UserRow, TokenRow
<1>2. StagedRows
    BY DEF Init, StagedRows, StagedBy, UsersOf, ProfilesOf, TokensOf, EmptyTx, Minting
<1>3. RegisteredRequests = {} /\ MintedAndCommitted = {} /\ Live = {}
    BY DEF Init, RegisteredRequests, MintedAndCommitted, Live
<1>4. CommittedRows /\ SeenUsers
    BY <1>3 DEF Init, CommittedRows, SeenUsers, SeenBy
<1>5. OnlyItsOwnRequestsEndASession /\ Rotating /\ EmailsApart /\ UniqueEmail
    BY DEF Init, OnlyItsOwnRequestsEndASession, Rotating, EmailsApart, UniqueEmail,
       EmptyTx
<1>6. StepsOfKind /\ ErrorsAborted
    BY DEF Init, StepsOfKind, ErrorsAborted, Minting
<1> QED
    BY <1>1, <1>2, <1>4, <1>5, <1>6 DEF IInv

LEMMA NextIInv == IInv /\ [Next]_vars => IInv'
<1> SUFFICES ASSUME IInv, [Next]_vars PROVE IInv'
    OBVIOUS
<1>1. ASSUME NEW r \in Requests, Handle(r) PROVE IInv'
    <2>1. CASE AlreadyRegistered(r) \/ UniqueViolation(r) \/ BadCredentials(r)
               \/ AccountDisabled(r) \/ InvalidToken(r) \/ UserNotFound(r)
        BY <2>1, AbortStep DEF AlreadyRegistered, UniqueViolation, BadCredentials,
           AccountDisabled, InvalidToken, UserNotFound, Codes, Steps, Working, Finished
    <2> QED
        BY <1>1, <2>1, ConnectStep, RegisterSelectStep, InsertUserStep,
           InsertProfileStep, LoginSelectStep, PasswordOkStep, RefreshSelectStep,
           DeleteTokenStep, MeSelectStep, MintTokenStep, AnswerStep, CommitStep
        DEF Handle
<1>2. ASSUME NEW r \in Requests, Disturb(r) PROVE IInv'
    <2>1. resp[r] \in Codes
        BY DEF IInv, TypeOK
    <2> QED
        BY <1>2, <2>1, AbortStep DEF Disturb, RateLimited, Unauthorized, PoolTimeout,
           StatementFails, CommitFails, Codes, Steps, Working, Finished
<1>3. ASSUME NEW t \in Requests, Expire(t) PROVE IInv'
    <2>1. expired' \in SUBSET Requests
        BY <1>3 DEF Expire, IInv, TypeOK
    <2> QED
        BY <1>3, <2>1, StandStill DEF Expire
<1>4. CASE Quiescent \/ UNCHANGED vars
    <2>1. expired' \in SUBSET Requests
        BY <1>4 DEF Quiescent, vars, IInv, TypeOK
    <2> QED
        BY <1>4, <2>1, StandStill DEF Quiescent, vars
<1> QED
    BY <1>1, <1>2, <1>3, <1>4, ArriveStep, CrashStep DEF Next

\* The inductive invariant holds in every reachable state of the /auth routes.
THEOREM Invariance == Spec => []IInv
BY InitIInv, NextIInv, PTL DEF Spec

\* Every variable keeps its type; no token is staged for an unknown account.
THEOREM TypeCorrect == Spec => []TypeOK
<1>1. IInv => TypeOK
    BY DEF IInv
<1> QED
    BY <1>1, Invariance, PTL

\* The unique index, not the racy SELECT before it, keeps addresses unique
\* under every interleaving of registrations, failures and crashes.
THEOREM EmailsUnique == Spec => []UniqueEmail
<1>1. IInv => UniqueEmail
    BY DEF IInv
<1> QED
    BY <1>1, Invariance, PTL

\* A registration is durable as a whole or not at all.
THEOREM RegistrationAtomic == Spec => []AccountsComplete
<1>1. ASSUME IInv PROVE AccountsComplete
    <2> USE DEF IInv
    <2>1. {u.id : u \in users} = profiles
        <3>1. ASSUME NEW u \in users PROVE u.id \in profiles
            BY <1>1, <3>1 DEF CommittedRows
        <3>2. ASSUME NEW p \in profiles PROVE \E u \in users : u.id = p
            <4>1. [id |-> p, email |-> req[p].email] \in users
                BY <1>1, <3>2 DEF CommittedRows
            <4> QED
                BY <4>1
        <3> QED
            BY <3>1, <3>2
    <2>2. ASSUME NEW k \in tokens PROVE k.user \in profiles
        <3>1. PICK r \in MintedAndCommitted : k = [id |-> r, user |-> seen[r]]
            BY <1>1, <2>2 DEF CommittedRows
        <3>2. seen[r] \in RegisteredRequests
            BY <1>1, <3>1 DEF SeenUsers, SeenBy, MintedAndCommitted, RegisteredRequests, Minting
        <3> QED
            BY <1>1, <3>1, <3>2 DEF CommittedRows
    <2> QED
        BY <1>1, <2>1, <2>2 DEF AccountsComplete, CommittedRows, RegisteredRequests
<1> QED
    BY <1>1, Invariance, PTL

\* An error response is only ever sent for a transaction that left no trace.
THEOREM ErrorsHarmless == Spec => []ErrorsLeaveNoTrace
<1>1. ASSUME IInv PROVE ErrorsLeaveNoTrace
    <2> SUFFICES ASSUME NEW r \in Requests, resp[r] >= 400
                 PROVE  /\ pc[r] = "aborted"
                        /\ tx[r] = EmptyTx
                        /\ r \notin Live \cup profiles
                        /\ \A u \in users : u.id # r
        BY DEF ErrorsLeaveNoTrace
    <2>1. pc[r] = "aborted"
        BY <1>1 DEF IInv, ErrorsAborted
    <2>2. /\ tx[r].users = {} /\ tx[r].profiles = {}
          /\ tx[r].tokens = {} /\ tx[r].deleted = {}
        BY <1>1, <2>1 DEF IInv, StagedRows, StagedBy, UsersOf, ProfilesOf, TokensOf,
           Deleting, UserStaged, ProfileStaged, TokenStaged
    <2>3. tx[r] = EmptyTx
        BY <1>1, <2>2 DEF IInv, TypeOK, Tx, EmptyTx
    <2> QED
        BY <1>1, <2>1, <2>3 DEF IInv, CommittedRows, RegisteredRequests,
           MintedAndCommitted, Live
<1> QED
    BY <1>1, Invariance, PTL

\* Once a rotation has committed, its token opens nothing any more.
THEOREM RotatedTokensStayDead == Spec => []RotatedTokenDead
<1>1. IInv => RotatedTokenDead
    BY DEF IInv, Rotating, RotatedTokenDead
<1> QED
    BY <1>1, Invariance, PTL

\* A committed session ends only by a committed refresh or logout of its token.
THEOREM SessionsNeverLost == Spec => []OnlyItsOwnRequestsEndASession
<1>1. IInv => OnlyItsOwnRequestsEndASession
    BY DEF IInv
<1> QED
    BY <1>1, Invariance, PTL

-----------------------------------------------------------------------------
(* The backend implements the ledger *)

Issued == {[id |-> r, user |-> seen[r]] : r \in MintedAndCommitted}

\* The ledger does not move while no request commits.
LEMMA LedgerStands ==
    ASSUME IInv, UNCHANGED <<users, tokens>>,
           \A s \in Requests : \/ /\ pc[s] # "committed" /\ pc'[s] # "committed"
                               \/ /\ pc'[s] = pc[s] /\ req'[s] = req[s]
                                  /\ seen'[s] = seen[s]
    PROVE  UNCHANGED <<users, Issued, Live>>
<1>1. /\ MintedAndCommitted' = MintedAndCommitted
      /\ \A s \in MintedAndCommitted : seen'[s] = seen[s]
    BY DEF MintedAndCommitted
<1> QED
    BY <1>1 DEF Issued, Live

\* Every step of a request but its commit leaves the committed requests alone.
LEMMA BeforeCommit ==
    ASSUME IInv, NEW r \in Requests,
           Arrive(r) \/ (Handle(r) /\ ~Commit(r)) \/ Disturb(r) \/ Expire(r)
    PROVE  UNCHANGED <<users, Issued, Live>>
<1> USE DEF IInv, TypeOK
<1>1. CASE Arrive(r)
    BY <1>1, LedgerStands DEF Arrive, Goto
<1>2. CASE Connect(r) \/ RegisterSelect(r) \/ InsertUser(r) \/ InsertProfile(r)
    BY <1>2, LedgerStands DEF Connect, RegisterSelect, InsertUser, InsertProfile, Goto
<1>3. CASE LoginSelect(r) \/ PasswordOk(r) \/ RefreshSelect(r) \/ DeleteToken(r)
    BY <1>3, LedgerStands DEF LoginSelect, PasswordOk, RefreshSelect, DeleteToken, Goto
<1>4. CASE MeSelect(r) \/ MintToken(r) \/ Answer(r)
    BY <1>4, LedgerStands DEF MeSelect, MintToken, Answer, Goto
<1>5. CASE Expire(r)
    BY <1>5, LedgerStands DEF Expire
<1>6. ASSUME NEW code, Abort(r, code), pc[r] # "committed"
      PROVE  UNCHANGED <<users, Issued, Live>>
    BY <1>6, LedgerStands DEF Abort, Goto
<1>7. CASE Disturb(r)
    BY <1>6, <1>7 DEF Disturb, RateLimited, Unauthorized, PoolTimeout, StatementFails,
       CommitFails, Working
<1>8. CASE \/ AlreadyRegistered(r) \/ UniqueViolation(r) \/ BadCredentials(r)
           \/ AccountDisabled(r) \/ InvalidToken(r) \/ UserNotFound(r)
    BY <1>6, <1>8 DEF AlreadyRegistered, UniqueViolation, BadCredentials,
       AccountDisabled, InvalidToken, UserNotFound
<1> QED
    BY <1>1, <1>2, <1>3, <1>4, <1>5, <1>7, <1>8 DEF Handle

\* The commit of a request that answers with a token issues that token.
LEMMA CommitIssues ==
    ASSUME IInv, NEW r \in Requests, Commit(r), req[r].kind \in Minting
    PROVE  /\ \A k \in Issued : k.id # r
           /\ Issued' = Issued \cup {[id |-> r, user |-> seen[r]]}
           /\ Live' = (Live \ tx[r].deleted) \cup {r}
<1>1. /\ MintedAndCommitted' = MintedAndCommitted \cup {r}
      /\ seen' = seen /\ r \notin MintedAndCommitted
    BY CommitEffect DEF MintedAndCommitted
<1>2. /\ \A k \in Issued : k.id # r
      /\ Issued' = Issued \cup {[id |-> r, user |-> seen[r]]}
    BY <1>1 DEF Issued
<1>3. TokensOf(r) = {[id |-> r, user |-> seen[r]]}
    BY CommitEffect DEF TokensOf, TokenStaged
<1>4. tokens' = {k \in tokens : k.id \notin tx[r].deleted}
                  \cup {[id |-> r, user |-> seen[r]]}
    BY <1>3, CommitEffect
<1>5. Live' = (Live \ tx[r].deleted) \cup {r}
    <2>1. Live' = {k.id : k \in tokens'}
        BY DEF Live
    <2>2. ASSUME NEW t \in Live' PROVE t \in (Live \ tx[r].deleted) \cup {r}
        <3>1. PICK k \in tokens' : t = k.id
            BY <2>1, <2>2
        <3> QED
            BY <1>4, <3>1 DEF Live
    <2>3. r \in Live'
        <3>1. [id |-> r, user |-> seen[r]] \in tokens'
            BY <1>4
        <3> QED
            BY <2>1, <3>1
    <2>4. ASSUME NEW t \in Live \ tx[r].deleted PROVE t \in Live'
        <3>1. PICK k \in tokens : t = k.id
            BY <2>4 DEF Live
        <3> QED
            BY <1>4, <2>1, <2>4, <3>1
    <2> QED
        BY <2>2, <2>3, <2>4
<1> QED
    BY <1>2, <1>5

\* A commit is one step of the ledger, or none.
LEMMA CommitIsLedgerStep ==
    ASSUME IInv, NEW r \in Requests, Commit(r)
    PROVE  [Ledger!LedgerNext]_<<users, Issued, Live>>
<1> USE DEF IInv
<1> USE CommitEffect
<1>1. CASE req[r].kind = "register"
    <2>1. /\ seen[r] = r /\ tx[r].deleted = {} /\ req[r].email \in Emails
          /\ UsersOf(r) = {[id |-> r, email |-> req[r].email]}
        BY <1>1 DEF SeenUsers, SeenBy, UserStaged, StagedBy, Deleting, StepsOfKind,
           UsersOf
    <2>2. \A a \in users : a.id # r /\ a.email # req[r].email
        <3>1. \A a \in users : a.id \in RegisteredRequests
            BY DEF CommittedRows
        <3>2. r \notin RegisteredRequests
            BY DEF RegisteredRequests
        <3>3. tx[r].users = {[id |-> r, email |-> req[r].email]}
            BY <2>1 DEF StagedBy
        <3>4. \A a \in users : req[r].email # a.email
            BY <3>3 DEF EmailsApart
        <3> QED
            BY <3>1, <3>2, <3>4
    <2>3. Ledger!Register(r, req[r].email)
        BY <1>1, <2>1, <2>2, CommitIssues DEF Minting, Ledger!Register, Ledger!Issue,
           Ledger!Fresh, Issued
    <2> QED
        BY <2>1, <2>3 DEF Ledger!LedgerNext
<1>2. CASE req[r].kind = "login"
    <2>1. tx[r].deleted = {} /\ users' = users
        BY <1>2 DEF StagedBy, Deleting, UsersOf
    <2>2. seen[r] \in RegisteredRequests
        BY <1>2 DEF SeenUsers, SeenBy, ProfileStaged
    <2>3. PICK a \in users : a.id = seen[r]
        <3>1. [id |-> seen[r], email |-> req[seen[r]].email] \in users
            BY <2>2 DEF CommittedRows
        <3> QED
            BY <3>1
    <2>4. Ledger!Login(r, a)
        BY <1>2, <2>1, <2>3, CommitIssues DEF Minting, Ledger!Login, Ledger!Issue,
           Ledger!Fresh, Issued
    <2> QED
        BY <2>4 DEF Ledger!LedgerNext
<1>3. CASE req[r].kind = "refresh"
    <2>1. users' = users
        BY <1>3 DEF UsersOf
    <2>2. /\ req[r].token \in MintedAndCommitted
          /\ seen[r] = seen[req[r].token]
          /\ req[r].token \in tx[r].deleted \/ req[r].token \notin Live
        BY <1>3 DEF SeenUsers, SeenBy, ProfileStaged, Rotating
    <2>3. tx[r].deleted \subseteq {req[r].token}
        BY DEF StagedBy
    <2>4. Live \ tx[r].deleted = Live \ {req[r].token}
        BY <2>2, <2>3
    <2>5. [id |-> req[r].token, user |-> seen[r]] \in Issued
        BY <2>2 DEF Issued
    <2>6. Ledger!Rotate(r, [id |-> req[r].token, user |-> seen[r]])
        BY <1>3, <2>1, <2>4, <2>5, CommitIssues DEF Minting, Ledger!Rotate,
           Ledger!Issue, Ledger!Fresh, Issued
    <2> QED
        BY <2>5, <2>6 DEF Ledger!LedgerNext, Issued
<1>4. CASE req[r].kind \in {"logout", "me", "none"}
    <2>1. /\ users' = users /\ TokensOf(r) = {}
          /\ MintedAndCommitted' = MintedAndCommitted
        BY <1>4 DEF UsersOf, TokensOf, Minting
    <2>2. Issued' = Issued
        BY <2>1 DEF Issued
    <2>3. Live' = Live \ tx[r].deleted
        BY <2>1 DEF Live
    <2>4. CASE Live' = Live
        BY <2>1, <2>2, <2>4
    <2>5. CASE Live' # Live
        <3>1. req[r].token \in Live /\ tx[r].deleted = {req[r].token}
            BY <2>3, <2>5 DEF StagedBy
        <3>2. PICK k \in tokens : k.id = req[r].token
            BY <3>1 DEF Live
        <3>3. k \in Issued
            BY DEF CommittedRows, Issued
        <3>4. Ledger!Logout(k)
            BY <2>1, <2>2, <2>3, <3>1, <3>2, <3>3 DEF Ledger!Logout, Issued
        <3> QED
            BY <3>3, <3>4 DEF Ledger!LedgerNext, Issued
    <2> QED
        BY <2>4, <2>5
<1> QED
    BY <1>1, <1>2, <1>3, <1>4 DEF TypeOK, Request, Kinds

\* The /auth routes, with all their interleavings, failures and crashes, are an
\* implementation of the ledger: each commit is one atomic operation on it.
THEOREM LedgerRefined == Spec => LedgerSpec
<1>1. Init => Ledger!LedgerInit
    BY DEF Init, Ledger!LedgerInit, MintedAndCommitted, Live
<1>2. IInv /\ [Next]_vars => [Ledger!LedgerNext]_(Ledger!lvars)
    <2> SUFFICES ASSUME IInv, [Next]_vars
                 PROVE  [Ledger!LedgerNext]_<<users, Issued, Live>>
        BY DEF Ledger!lvars, Issued
    <2>1. ASSUME NEW r \in Requests, Commit(r)
          PROVE  [Ledger!LedgerNext]_<<users, Issued, Live>>
        BY <2>1, CommitIsLedgerStep
    <2>2. ASSUME NEW r \in Requests,
                 Arrive(r) \/ (Handle(r) /\ ~Commit(r)) \/ Disturb(r) \/ Expire(r)
          PROVE  UNCHANGED <<users, Issued, Live>>
        BY <2>2, BeforeCommit
    <2>3. CASE Crash
        BY <2>3, LedgerStands DEF Crash, IInv, TypeOK, Finished
    <2>4. CASE Quiescent \/ UNCHANGED vars
        BY <2>4, LedgerStands DEF Quiescent, vars
    <2> QED
        BY <2>1, <2>2, <2>3, <2>4 DEF Next
<1> QED
    BY <1>1, <1>2, Invariance, PTL DEF Spec, LedgerSpec, Ledger!LedgerSpec

-----------------------------------------------------------------------------
(* The redaction of the log *)

\* Of some numbers one is the least.
LEMMA LeastOne ==
    ASSUME NEW T \in SUBSET Nat, T # {}
    PROVE  \E m \in T : \A n \in T : m <= n
<1> DEFINE Less == {ss \in Nat \X Nat : ss[1] < ss[2]}
<1>1. IsWellFoundedOn(Less, Nat)
    BY NatLessThanWellFounded DEF OpToRel
<1>2. ASSUME NEW x \in Nat, NEW y \in Nat, x < y
      PROVE  <<x, y>> \in Less
    <2>1. <<x, y>> \in Nat \X Nat /\ <<x, y>>[1] = x /\ <<x, y>>[2] = y
        OBVIOUS
    <2> QED
        BY <1>2, <2>1, Zenon
<1> HIDE DEF Less
<1>3. PICK x \in T : \A y \in T : ~ (<<y, x>> \in Less)
    BY <1>1, WFMin
<1>4. \A y \in T : ~(y < x)
    BY <1>2, <1>3, Zenon
<1> QED
    BY <1>4

\* The recursive functions of LogRedaction, as far as n: they exist, and are what
\* they are defined to be.
Nests(f, atoms, n) ==
    f = [k \in 0 .. n |-> IF k = 0 THEN atoms ELSE atoms \cup Around(f[k - 1])]

LEMMA SomethingNests ==
    ASSUME NEW atoms, NEW n \in Nat
    PROVE  \E f : Nests(f, atoms, n)
<1> DEFINE Bad == {m \in Nat : ~ \E f : Nests(f, atoms, m)}
           At(f, k) == IF k = 0 THEN atoms ELSE atoms \cup Around(f[k - 1])
<1> SUFFICES ASSUME n \in Bad
             PROVE  FALSE
    OBVIOUS
<1>1. PICK m \in Bad : \A k \in Bad : m <= k
    BY LeastOne
<1>2. \A f, k : Nests(f, atoms, k) <=> f = [i \in 0 .. k |-> At(f, i)]
    BY DEF Nests
<1>3. CASE m = 0
  <2> DEFINE g == <<>>
             f == [i \in 0 .. 0 |-> At(g, 0)]
  <2>1. \A i \in 0 .. 0 : i = 0
      OBVIOUS
  <2>2. At(f, 0) = At(g, 0)
      OBVIOUS
  <2> HIDE DEF At, g
  <2>3. f = [i \in 0 .. 0 |-> At(f, i)]
    <3>1. \A i \in 0 .. 0 : f[i] = At(f, i)
        BY <2>1, <2>2
    <3>2. f = [i \in 0 .. 0 |-> f[i]]
        OBVIOUS
    <3> HIDE DEF f
    <3> QED
        BY <3>1, <3>2
  <2> HIDE DEF f
  <2>4. Nests(f, atoms, 0)
      BY <2>3, <1>2
  <2> QED
      BY <2>4, <1>3
<1>4. CASE m # 0
  <2>1. m - 1 \in Nat /\ ~(m <= m - 1)
      BY <1>4
  <2>2. PICK g : Nests(g, atoms, m - 1)
      BY <2>1, <1>1
  <2> DEFINE f == [i \in 0 .. m |-> IF i = m THEN At(g, m) ELSE g[i]]
  <2>3. \A i \in 0 .. m : f[i] = IF i = m THEN At(g, m) ELSE g[i]
      OBVIOUS
  <2>4. f = [i \in 0 .. m |-> f[i]]
      OBVIOUS
  <2>5. \A i \in 0 .. m - 1 : g[i] = At(g, i)
    <3> HIDE DEF At
    <3> QED
        BY <2>2, <1>2
  <2>6. \A i \in 0 .. m : i # 0 => i - 1 \in 0 .. m /\ i - 1 # m
      BY <2>1
  <2>7. \A i \in 0 .. m : i # m => i \in 0 .. m - 1
      BY <2>1
  <2> HIDE DEF f
  <2>8. ASSUME NEW i \in 0 .. m
        PROVE  f[i] = At(f, i)
    <3>1. i # 0 => f[i - 1] = g[i - 1]
        BY <2>3, <2>6
    <3>2. At(f, i) = At(g, i)
        BY <3>1
    <3> HIDE DEF At
    <3> QED
        BY <3>2, <2>3, <2>5, <2>7
  <2> HIDE DEF At
  <2>9. f = [i \in 0 .. m |-> At(f, i)]
      BY <2>4, <2>8
  <2> QED
      BY <2>9, <1>2
<1> QED
    BY <1>3, <1>4

LEMMA NestedOverIs ==
    ASSUME NEW atoms
    PROVE  /\ NestedOver(atoms)[0] = atoms
           /\ \A n \in 1 .. Depth : NestedOver(atoms)[n] = atoms \cup Around(NestedOver(atoms)[n - 1])
<1> DEFINE At(f, k) == IF k = 0 THEN atoms ELSE atoms \cup Around(f[k - 1])
           all == NestedOver(atoms)
<1>1. Depth \in Nat
    BY DepthAssumption
<1>2. all = CHOOSE f : Nests(f, atoms, Depth)
    BY DEF NestedOver, Nests
<1>3. Nests(all, atoms, Depth)
    BY <1>1, <1>2, SomethingNests
<1>4. all = [k \in 0 .. Depth |-> At(all, k)]
    BY <1>3 DEF Nests
<1> HIDE DEF all
<1>5. \A k \in 0 .. Depth : all[k] = At(all, k)
  <2> HIDE DEF At
  <2> QED
      BY <1>4
<1>6. 0 \in 0 .. Depth /\ \A n \in 1 .. Depth : n \in 0 .. Depth /\ n # 0
    BY <1>1
<1>7. all[0] = atoms
    BY <1>5, <1>6
<1>8. \A n \in 1 .. Depth : all[n] = atoms \cup Around(all[n - 1])
    BY <1>5, <1>6
<1> QED
    BY <1>7, <1>8 DEF all

LEMMA NestedIs ==
    /\ Nested[0] = Atoms
    /\ \A n \in 1 .. Depth : Nested[n] = Atoms \cup Around(Nested[n - 1])
BY NestedOverIs DEF Nested

MasksOn(f, n) ==
    f = [k \in 0 .. n |-> IF k = 0 THEN [v \in Values |-> v] ELSE [v \in Values |-> MaskIn(f[k - 1], v)]]

LEMMA SomethingMasks ==
    ASSUME NEW n \in Nat
    PROVE  \E f : MasksOn(f, n)
<1> DEFINE Bad == {m \in Nat : ~ \E f : MasksOn(f, m)}
           At(f, k) == IF k = 0 THEN [v \in Values |-> v] ELSE [v \in Values |-> MaskIn(f[k - 1], v)]
<1> SUFFICES ASSUME n \in Bad
             PROVE  FALSE
    OBVIOUS
<1>1. PICK m \in Bad : \A k \in Bad : m <= k
    BY LeastOne
<1>2. \A f, k : MasksOn(f, k) <=> f = [i \in 0 .. k |-> At(f, i)]
    BY DEF MasksOn
<1>3. CASE m = 0
  <2> DEFINE g == <<>>
             f == [i \in 0 .. 0 |-> At(g, 0)]
  <2>1. \A i \in 0 .. 0 : i = 0
      OBVIOUS
  <2>2. At(f, 0) = At(g, 0)
      OBVIOUS
  <2> HIDE DEF At, g
  <2>3. f = [i \in 0 .. 0 |-> At(f, i)]
    <3>1. \A i \in 0 .. 0 : f[i] = At(f, i)
        BY <2>1, <2>2
    <3>2. f = [i \in 0 .. 0 |-> f[i]]
        OBVIOUS
    <3> HIDE DEF f
    <3> QED
        BY <3>1, <3>2
  <2> HIDE DEF f
  <2>4. MasksOn(f, 0)
      BY <2>3, <1>2
  <2> QED
      BY <2>4, <1>3
<1>4. CASE m # 0
  <2>1. m - 1 \in Nat /\ ~(m <= m - 1)
      BY <1>4
  <2>2. PICK g : MasksOn(g, m - 1)
      BY <2>1, <1>1
  <2> DEFINE f == [i \in 0 .. m |-> IF i = m THEN At(g, m) ELSE g[i]]
  <2>3. \A i \in 0 .. m : f[i] = IF i = m THEN At(g, m) ELSE g[i]
      OBVIOUS
  <2>4. f = [i \in 0 .. m |-> f[i]]
      OBVIOUS
  <2>5. \A i \in 0 .. m - 1 : g[i] = At(g, i)
    <3> HIDE DEF At
    <3> QED
        BY <2>2, <1>2
  <2>6. \A i \in 0 .. m : i # 0 => i - 1 \in 0 .. m /\ i - 1 # m
      BY <2>1
  <2>7. \A i \in 0 .. m : i # m => i \in 0 .. m - 1
      BY <2>1
  <2> HIDE DEF f
  <2>8. ASSUME NEW i \in 0 .. m
        PROVE  f[i] = At(f, i)
    <3>1. i # 0 => f[i - 1] = g[i - 1]
        BY <2>3, <2>6
    <3>2. At(f, i) = At(g, i)
        BY <3>1
    <3> HIDE DEF At
    <3> QED
        BY <3>2, <2>3, <2>5, <2>7
  <2> HIDE DEF At
  <2>9. f = [i \in 0 .. m |-> At(f, i)]
      BY <2>4, <2>8
  <2> QED
      BY <2>9, <1>2
<1> QED
    BY <1>3, <1>4

LEMMA MasksAre ==
    /\ Masks[0] = [v \in Values |-> v]
    /\ \A n \in 1 .. Depth : Masks[n] = [v \in Values |-> MaskIn(Masks[n - 1], v)]
<1> DEFINE At(f, k) == IF k = 0 THEN [v \in Values |-> v] ELSE [v \in Values |-> MaskIn(f[k - 1], v)]
           all == Masks
<1>1. Depth \in Nat
    BY DepthAssumption
<1>2. all = CHOOSE f : MasksOn(f, Depth)
    BY DEF Masks, MasksOn
<1>3. MasksOn(all, Depth)
    BY <1>1, <1>2, SomethingMasks
<1>4. all = [k \in 0 .. Depth |-> At(all, k)]
    BY <1>3 DEF MasksOn
<1> HIDE DEF all
<1>5. \A k \in 0 .. Depth : all[k] = At(all, k)
  <2> HIDE DEF At
  <2> QED
      BY <1>4
<1>6. 0 \in 0 .. Depth /\ \A n \in 1 .. Depth : n \in 0 .. Depth /\ n # 0
    BY <1>1
<1>7. all[0] = [v \in Values |-> v]
    BY <1>5, <1>6
<1>8. \A n \in 1 .. Depth : all[n] = [v \in Values |-> MaskIn(all[n - 1], v)]
    BY <1>5, <1>6
<1> QED
    BY <1>7, <1>8 DEF all

KeepsSafe(f, n) ==
    f = [k \in 0 .. n |-> IF k = 0 THEN [v \in Values |-> v] ELSE [v \in Values |-> SafeIn(f[k - 1], v)]]

LEMMA SomethingKeepsSafe ==
    ASSUME NEW n \in Nat
    PROVE  \E f : KeepsSafe(f, n)
<1> DEFINE Bad == {m \in Nat : ~ \E f : KeepsSafe(f, m)}
           At(f, k) == IF k = 0 THEN [v \in Values |-> v] ELSE [v \in Values |-> SafeIn(f[k - 1], v)]
<1> SUFFICES ASSUME n \in Bad
             PROVE  FALSE
    OBVIOUS
<1>1. PICK m \in Bad : \A k \in Bad : m <= k
    BY LeastOne
<1>2. \A f, k : KeepsSafe(f, k) <=> f = [i \in 0 .. k |-> At(f, i)]
    BY DEF KeepsSafe
<1>3. CASE m = 0
  <2> DEFINE g == <<>>
             f == [i \in 0 .. 0 |-> At(g, 0)]
  <2>1. \A i \in 0 .. 0 : i = 0
      OBVIOUS
  <2>2. At(f, 0) = At(g, 0)
      OBVIOUS
  <2> HIDE DEF At, g
  <2>3. f = [i \in 0 .. 0 |-> At(f, i)]
    <3>1. \A i \in 0 .. 0 : f[i] = At(f, i)
        BY <2>1, <2>2
    <3>2. f = [i \in 0 .. 0 |-> f[i]]
        OBVIOUS
    <3> HIDE DEF f
    <3> QED
        BY <3>1, <3>2
  <2> HIDE DEF f
  <2>4. KeepsSafe(f, 0)
      BY <2>3, <1>2
  <2> QED
      BY <2>4, <1>3
<1>4. CASE m # 0
  <2>1. m - 1 \in Nat /\ ~(m <= m - 1)
      BY <1>4
  <2>2. PICK g : KeepsSafe(g, m - 1)
      BY <2>1, <1>1
  <2> DEFINE f == [i \in 0 .. m |-> IF i = m THEN At(g, m) ELSE g[i]]
  <2>3. \A i \in 0 .. m : f[i] = IF i = m THEN At(g, m) ELSE g[i]
      OBVIOUS
  <2>4. f = [i \in 0 .. m |-> f[i]]
      OBVIOUS
  <2>5. \A i \in 0 .. m - 1 : g[i] = At(g, i)
    <3> HIDE DEF At
    <3> QED
        BY <2>2, <1>2
  <2>6. \A i \in 0 .. m : i # 0 => i - 1 \in 0 .. m /\ i - 1 # m
      BY <2>1
  <2>7. \A i \in 0 .. m : i # m => i \in 0 .. m - 1
      BY <2>1
  <2> HIDE DEF f
  <2>8. ASSUME NEW i \in 0 .. m
        PROVE  f[i] = At(f, i)
    <3>1. i # 0 => f[i - 1] = g[i - 1]
        BY <2>3, <2>6
    <3>2. At(f, i) = At(g, i)
        BY <3>1
    <3> HIDE DEF At
    <3> QED
        BY <3>2, <2>3, <2>5, <2>7
  <2> HIDE DEF At
  <2>9. f = [i \in 0 .. m |-> At(f, i)]
      BY <2>4, <2>8
  <2> QED
      BY <2>9, <1>2
<1> QED
    BY <1>3, <1>4

LEMMA SafesAre ==
    /\ Safes[0] = [v \in Values |-> v]
    /\ \A n \in 1 .. Depth : Safes[n] = [v \in Values |-> SafeIn(Safes[n - 1], v)]
<1> DEFINE At(f, k) == IF k = 0 THEN [v \in Values |-> v] ELSE [v \in Values |-> SafeIn(f[k - 1], v)]
           all == Safes
<1>1. Depth \in Nat
    BY DepthAssumption
<1>2. all = CHOOSE f : KeepsSafe(f, Depth)
    BY DEF Safes, KeepsSafe
<1>3. KeepsSafe(all, Depth)
    BY <1>1, <1>2, SomethingKeepsSafe
<1>4. all = [k \in 0 .. Depth |-> At(all, k)]
    BY <1>3 DEF KeepsSafe
<1> HIDE DEF all
<1>5. \A k \in 0 .. Depth : all[k] = At(all, k)
  <2> HIDE DEF At
  <2> QED
      BY <1>4
<1>6. 0 \in 0 .. Depth /\ \A n \in 1 .. Depth : n \in 0 .. Depth /\ n # 0
    BY <1>1
<1>7. all[0] = [v \in Values |-> v]
    BY <1>5, <1>6
<1>8. \A n \in 1 .. Depth : all[n] = [v \in Values |-> SafeIn(all[n - 1], v)]
    BY <1>5, <1>6
<1> QED
    BY <1>7, <1>8 DEF all

\* The dicts found n deep in v.
Guards(f, n) ==
    f = [k \in 0 .. n |-> IF k = 0 THEN Clear[0] ELSE GuardedAround(f[k - 1], k)]

LEMMA SomethingGuards ==
    ASSUME NEW n \in Nat
    PROVE  \E f : Guards(f, n)
<1> DEFINE Bad == {m \in Nat : ~ \E f : Guards(f, m)}
           At(f, k) == IF k = 0 THEN Clear[0] ELSE GuardedAround(f[k - 1], k)
<1> SUFFICES ASSUME n \in Bad
             PROVE  FALSE
    OBVIOUS
<1>1. PICK m \in Bad : \A k \in Bad : m <= k
    BY LeastOne
<1>2. \A f, k : Guards(f, k) <=> f = [i \in 0 .. k |-> At(f, i)]
    BY DEF Guards
<1>3. CASE m = 0
  <2> DEFINE g == <<>>
             f == [i \in 0 .. 0 |-> At(g, 0)]
  <2>1. \A i \in 0 .. 0 : i = 0
      OBVIOUS
  <2>2. At(f, 0) = At(g, 0)
      OBVIOUS
  <2> HIDE DEF At, g
  <2>3. f = [i \in 0 .. 0 |-> At(f, i)]
    <3>1. \A i \in 0 .. 0 : f[i] = At(f, i)
        BY <2>1, <2>2
    <3>2. f = [i \in 0 .. 0 |-> f[i]]
        OBVIOUS
    <3> HIDE DEF f
    <3> QED
        BY <3>1, <3>2
  <2> HIDE DEF f
  <2>4. Guards(f, 0)
      BY <2>3, <1>2
  <2> QED
      BY <2>4, <1>3
<1>4. CASE m # 0
  <2>1. m - 1 \in Nat /\ ~(m <= m - 1)
      BY <1>4
  <2>2. PICK g : Guards(g, m - 1)
      BY <2>1, <1>1
  <2> DEFINE f == [i \in 0 .. m |-> IF i = m THEN At(g, m) ELSE g[i]]
  <2>3. \A i \in 0 .. m : f[i] = IF i = m THEN At(g, m) ELSE g[i]
      OBVIOUS
  <2>4. f = [i \in 0 .. m |-> f[i]]
      OBVIOUS
  <2>5. \A i \in 0 .. m - 1 : g[i] = At(g, i)
    <3> HIDE DEF At
    <3> QED
        BY <2>2, <1>2
  <2>6. \A i \in 0 .. m : i # 0 => i - 1 \in 0 .. m /\ i - 1 # m
      BY <2>1
  <2>7. \A i \in 0 .. m : i # m => i \in 0 .. m - 1
      BY <2>1
  <2> HIDE DEF f
  <2>8. ASSUME NEW i \in 0 .. m
        PROVE  f[i] = At(f, i)
    <3>1. i # 0 => f[i - 1] = g[i - 1]
        BY <2>3, <2>6
    <3>2. At(f, i) = At(g, i)
        BY <3>1
    <3> HIDE DEF At
    <3> QED
        BY <3>2, <2>3, <2>5, <2>7
  <2> HIDE DEF At
  <2>9. f = [i \in 0 .. m |-> At(f, i)]
      BY <2>4, <2>8
  <2> QED
      BY <2>9, <1>2
<1> QED
    BY <1>3, <1>4

LEMMA GuardedIs ==
    /\ Guarded[0] = Clear[0]
    /\ \A n \in 1 .. Depth : Guarded[n] = GuardedAround(Guarded[n - 1], n)
<1> DEFINE At(f, k) == IF k = 0 THEN Clear[0] ELSE GuardedAround(f[k - 1], k)
           all == Guarded
<1>1. Depth \in Nat
    BY DepthAssumption
<1>2. all = CHOOSE f : Guards(f, Depth)
    BY DEF Guarded, Guards
<1>3. Guards(all, Depth)
    BY <1>1, <1>2, SomethingGuards
<1>4. all = [k \in 0 .. Depth |-> At(all, k)]
    BY <1>3 DEF Guards
<1> HIDE DEF all
<1>5. \A k \in 0 .. Depth : all[k] = At(all, k)
  <2> HIDE DEF At
  <2> QED
      BY <1>4
<1>6. 0 \in 0 .. Depth /\ \A n \in 1 .. Depth : n \in 0 .. Depth /\ n # 0
    BY <1>1
<1>7. all[0] = Clear[0]
    BY <1>5, <1>6
<1>8. \A n \in 1 .. Depth : all[n] = GuardedAround(all[n - 1], n)
    BY <1>5, <1>6
<1> QED
    BY <1>7, <1>8 DEF all

-----------------------------------------------------------------------------
(* JSON values *)

\* The values of a level are atoms and containers of values of the one below.
LEMMA ValuesAre ==
    ASSUME NEW n \in 0 .. Depth, NEW v \in Nested[n]
    PROVE  \/ v.kind = "atom"
           \/ /\ n # 0 /\ v.kind = "dict" /\ v = Dict(v.it)
              /\ \E keys \in KeySets : v.it \in [keys -> Nested[n - 1]]
           \/ /\ n # 0 /\ v.kind = "list" /\ v = List(v.it)
              /\ \E l \in Lengths : v.it \in [1 .. l -> Nested[n - 1]]
<1>1. CASE v \in Atoms
    BY <1>1 DEF Atoms
<1>2. CASE n # 0 /\ v \in Around(Nested[n - 1])
  <2> DEFINE below == Nested[n - 1]
  <2> HIDE DEF below
  <2>1. v \in Around(below)
      BY <1>2 DEF below
  <2>2. CASE \E keys \in KeySets : \E f \in [keys -> below] : v = Dict(f)
      BY <2>2, <1>2 DEF Dict, below
  <2>3. CASE \E l \in Lengths : \E f \in [1 .. l -> below] : v = List(f)
      BY <2>3, <1>2 DEF List, below
  <2> QED
      BY <2>1, <2>2, <2>3 DEF Around
<1>3. v \in Atoms \/ (n # 0 /\ v \in Around(Nested[n - 1]))
  <2>1. n = 0 \/ n \in 1 .. Depth
      BY DepthAssumption
  <2> QED
      BY <2>1, NestedIs
<1> QED
    BY <1>1, <1>2, <1>3

\* A container of values of one level is a value of the next.
LEMMA ContainersAre ==
    ASSUME NEW n \in 1 .. Depth
    PROVE  /\ Atoms \subseteq Nested[n]
           /\ \A keys \in KeySets : \A f \in [keys -> Nested[n - 1]] :
                 Dict(f) \in Nested[n]
           /\ \A l \in Lengths : \A f \in [1 .. l -> Nested[n - 1]] :
                 List(f) \in Nested[n]
<1> DEFINE below == Nested[n - 1]
<1>1. Nested[n] = Atoms \cup Around(below)
    BY NestedIs
<1> HIDE DEF below
<1>2. \A keys \in KeySets : \A f \in [keys -> below] : Dict(f) \in Around(below)
    BY DEF Around
<1>3. \A l \in Lengths : \A f \in [1 .. l -> below] : List(f) \in Around(below)
    BY DEF Around
<1> QED
    BY <1>1, <1>2, <1>3 DEF below

\* What is nested so deep is nested no deeper.
LEMMA NestedGrows ==
    ASSUME NEW n \in 1 .. Depth
    PROVE  Nested[n - 1] \subseteq Nested[n]
<1> DEFINE Bad == {m \in 1 .. Depth : ~(Nested[m - 1] \subseteq Nested[m])}
<1> SUFFICES ASSUME n \in Bad
             PROVE  FALSE
    OBVIOUS
<1>1. Bad \in SUBSET Nat /\ Bad # {} /\ Depth \in Nat
    BY DepthAssumption
<1>2. PICK m \in Bad : \A k \in Bad : m <= k
    BY <1>1, LeastOne
<1>3. m \in 1 .. Depth /\ m \in Nat /\ ~(Nested[m - 1] \subseteq Nested[m])
    BY <1>1, <1>2
<1>4. PICK v \in Nested[m - 1] : v \notin Nested[m]
    BY <1>3
<1>5. m - 1 \in 0 .. Depth
    BY <1>1, <1>3
<1>6. v \notin Atoms
    BY <1>3, <1>4, ContainersAre
<1>7. m - 1 # 0
  <2>1. m - 1 = 0 => Nested[m - 1] = Atoms
      BY NestedIs
  <2> QED
      BY <2>1, <1>4, <1>6
<1> DEFINE l == m - 1
<1>8. l \in 1 .. Depth /\ l \in Nat /\ l < m
    BY <1>1, <1>3, <1>7
<1>9. Nested[l - 1] \subseteq Nested[l]
    BY <1>1, <1>2, <1>8
<1>10. v \in Nested[l] /\ v \in Around(Nested[l - 1])
    BY <1>4, <1>6, <1>8, NestedIs
<1> DEFINE low == Nested[l - 1]
           high == Nested[l]
<1>11. low \subseteq high /\ v \in Around(low) /\ v \notin Nested[m]
    BY <1>4, <1>9, <1>10
<1>12. /\ \A keys \in KeySets : \A f \in [keys -> high] : Dict(f) \in Nested[m]
       /\ \A i \in Lengths : \A f \in [1 .. i -> high] : List(f) \in Nested[m]
    BY <1>3, ContainersAre
<1> HIDE DEF low, high
<1>13. /\ \A keys \in KeySets : [keys -> low] \subseteq [keys -> high]
       /\ \A i \in Lengths : [1 .. i -> low] \subseteq [1 .. i -> high]
    BY <1>11
<1>14. \/ \E keys \in KeySets : \E f \in [keys -> low] : v = Dict(f)
       \/ \E i \in Lengths : \E f \in [1 .. i -> low] : v = List(f)
    BY <1>11 DEF Around
<1> QED
    BY <1>11, <1>12, <1>13, <1>14

\* Every level is among the values.
LEMMA NestedAreValues ==
    ASSUME NEW n \in 0 .. Depth
    PROVE  Nested[n] \subseteq Values
<1> DEFINE Bad == {k \in 0 .. Depth : ~(Nested[Depth - k] \subseteq Values)}
<1>1. Depth \in Nat /\ Bad \in SUBSET Nat
    BY DepthAssumption
<1>2. ASSUME Bad # {}
      PROVE  FALSE
  <2>1. PICK m \in Bad : \A k \in Bad : m <= k
      BY <1>1, <1>2, LeastOne
  <2>2. m \in 0 .. Depth /\ m \in Nat /\ ~(Nested[Depth - m] \subseteq Values)
      BY <1>1, <2>1
  <2>3. m # 0
    <3>1. Depth - 0 = Depth
        BY <1>1
    <3> QED
        BY <2>2, <3>1 DEF Values
  <2>4. m - 1 \in 0 .. Depth /\ ~(m <= m - 1) /\ Depth - m + 1 \in 1 .. Depth
        /\ Depth - (m - 1) = Depth - m + 1 /\ (Depth - m + 1) - 1 = Depth - m
      BY <1>1, <2>2, <2>3
  <2>5. Nested[Depth - m + 1] \subseteq Values
      BY <2>1, <2>4
  <2>6. Nested[Depth - m] \subseteq Nested[Depth - m + 1]
      BY <2>4, NestedGrows
  <2> QED
      BY <2>2, <2>5, <2>6
<1>3. Depth - n \in 0 .. Depth /\ Depth - (Depth - n) = n
    BY <1>1
<1> QED
    BY <1>2, <1>3

\* What is clear: an atom that is no secret, and what holds only what is clear.
LEMMA ClearIs ==
    /\ \A n \in 0 .. Depth : \A v : v.kind = "atom" => (v \in Clear[n] <=> v \in Atoms \ {Secret})
    /\ \A n \in 1 .. Depth : \A keys \in KeySets : \A f :
          f = [k \in keys |-> f[k]] =>
             (Dict(f) \in Clear[n] <=> \A k \in keys : f[k] \in Clear[n - 1])
    /\ \A n \in 1 .. Depth : \A l \in Lengths : \A f :
          f = [i \in 1 .. l |-> f[i]] =>
             (List(f) \in Clear[n] <=> \A i \in 1 .. l : f[i] \in Clear[n - 1])
<1> DEFINE atoms == Atoms \ {Secret}
<1>1. /\ Clear[0] = atoms
      /\ \A n \in 1 .. Depth : Clear[n] = atoms \cup Around(Clear[n - 1])
    BY NestedOverIs DEF Clear
<1>2. \A v \in atoms : v.kind = "atom"
    BY DEF Atoms
<1>3. ASSUME NEW below, NEW v \in Around(below)
      PROVE  v.kind # "atom"
    BY <1>3 DEF Around, Dict, List
<1>4. ASSUME NEW below, NEW keys \in KeySets, NEW f, f = [k \in keys |-> f[k]]
      PROVE  Dict(f) \in Around(below) <=> \A k \in keys : f[k] \in below
  <2>1. ASSUME \A k \in keys : f[k] \in below
        PROVE  Dict(f) \in Around(below)
    <3>1. f \in [keys -> below]
        BY <1>4, <2>1
    <3> QED
        BY <3>1 DEF Around
  <2>2. ASSUME Dict(f) \in Around(below), NEW k \in keys
        PROVE  f[k] \in below
    <3>1. /\ Dict(f).kind = "dict" /\ Dict(f).it = f
          /\ \A g : Dict(g).it = g /\ List(g).kind = "list"
        BY DEF Dict, List
    <3>2. \E names \in KeySets : \E g \in [names -> below] : Dict(f) = Dict(g)
        BY <2>2, <3>1 DEF Around
    <3>3. \E names \in KeySets : f \in [names -> below]
        BY <3>1, <3>2
    <3>4. DOMAIN f = keys
        BY <1>4
    <3> QED
        BY <3>3, <3>4
  <2> QED
      BY <2>1, <2>2
<1>5. ASSUME NEW below, NEW l \in Lengths, NEW f, f = [i \in 1 .. l |-> f[i]]
      PROVE  List(f) \in Around(below) <=> \A i \in 1 .. l : f[i] \in below
  <2>1. ASSUME \A i \in 1 .. l : f[i] \in below
        PROVE  List(f) \in Around(below)
    <3>1. f \in [1 .. l -> below]
        BY <1>5, <2>1
    <3> QED
        BY <3>1 DEF Around
  <2>2. ASSUME List(f) \in Around(below), NEW i \in 1 .. l
        PROVE  f[i] \in below
    <3>1. /\ List(f).kind = "list" /\ List(f).it = f
          /\ \A g : List(g).it = g /\ Dict(g).kind = "dict"
        BY DEF Dict, List
    <3>2. \E m \in Lengths : \E g \in [1 .. m -> below] : List(f) = List(g)
        BY <2>2, <3>1 DEF Around
    <3>3. \E m \in Lengths : f \in [1 .. m -> below]
        BY <3>1, <3>2
    <3>4. DOMAIN f = 1 .. l
        BY <1>5
    <3> QED
        BY <3>3, <3>4
  <2> QED
      BY <2>1, <2>2
<1>6. \A f : Dict(f).kind # "atom" /\ List(f).kind # "atom"
    BY DEF Dict, List
<1>7. ASSUME NEW n \in 0 .. Depth, NEW v, v.kind = "atom"
      PROVE  v \in Clear[n] <=> v \in atoms
  <2>1. n = 0 \/ n \in 1 .. Depth
      BY DepthAssumption
  <2> HIDE DEF atoms
  <2> QED
      BY <2>1, <1>1, <1>3, <1>7
<1> HIDE DEF atoms
<1> QED
    BY <1>1, <1>2, <1>4, <1>5, <1>6, <1>7 DEF atoms

\* What is guarded, by the kind of the value.
LEMMA GuardedAre ==
    ASSUME NEW n \in 0 .. Depth, NEW v \in Nested[n]
    PROVE  /\ v.kind = "atom" => (v \in Guarded[n] <=> v # Secret)
           /\ v.kind = "dict" => (v \in Guarded[n] <=>
                 \A k \in DOMAIN v.it : IsSensitiveKey(k) \/ v.it[k] \in Guarded[n - 1])
           /\ v.kind = "list" => (v \in Guarded[n] <=>
                 \A i \in DOMAIN v.it :
                    v.it[i] \in IF IsDict(v.it[i]) THEN Guarded[n - 1] ELSE Clear[n - 1])
<1>1. CASE n = 0
  <2>1. Guarded[n] = Clear[0] /\ Nested[n] = Atoms /\ 0 \in 0 .. Depth
      BY <1>1, GuardedIs, NestedIs
  <2>2. v.kind = "atom"
      BY <2>1 DEF Atoms
  <2>3. v \in Clear[0] <=> v # Secret
      BY <2>1, <2>2, ClearIs
  <2> QED
      BY <2>1, <2>2, <2>3
<1>2. CASE n # 0
  <2>1. n \in 1 .. Depth
      BY <1>2, DepthAssumption
  <2>2. Guarded[n] = GuardedAround(Guarded[n - 1], n)
      BY <2>1, GuardedIs
  <2> DEFINE guarded == Guarded[n - 1]
             clear == Clear[n - 1]
             names == \A k \in DOMAIN v.it : IsSensitiveKey(k) \/ v.it[k] \in guarded
             items == \A i \in DOMAIN v.it :
                         v.it[i] \in IF IsDict(v.it[i]) THEN guarded ELSE clear
  <2>3. v \in GuardedAround(guarded, n) <=>
           (CASE IsDict(v) -> names [] v.kind = "list" -> items [] OTHER -> v # Secret)
      BY DEF GuardedAround
  <2> HIDE DEF guarded, clear, names, items
  <2>4. /\ v.kind = "atom" => (v \in GuardedAround(guarded, n) <=> v # Secret)
        /\ v.kind = "dict" => (v \in GuardedAround(guarded, n) <=> names)
        /\ v.kind = "list" => (v \in GuardedAround(guarded, n) <=> items)
      BY <2>3 DEF IsDict
  <2> QED
      BY <2>2, <2>4 DEF guarded, clear, names, items
<1> QED
    BY <1>1, <1>2

-----------------------------------------------------------------------------
(* What the two passes make of a value *)

\* What safe_log_dict makes of an object is nested no deeper, and guarded if the
\* object was.
LEMMA SafeIsValue ==
    ASSUME NEW v \in Values, IsDict(v)
    PROVE  /\ SafeLogDict(v) \in Values
           /\ v \in GuardedValues => SafeLogDict(v) \in GuardedValues
<1> DEFINE Kept(n) == \A m \in n .. Depth : \A w \in Nested[n] :
                         IsDict(w) => /\ Safes[m][w] \in Nested[n]
                                      /\ w \in Guarded[n] => Safes[m][w] \in Guarded[n]
           Bad == {n \in 0 .. Depth : ~Kept(n)}
<1>1. Depth \in Nat /\ Bad \in SUBSET Nat
    BY DepthAssumption
<1>2. ASSUME Bad # {}
      PROVE  FALSE
  <2>1. PICK n \in Bad : \A k \in Bad : n <= k
      BY <1>1, <1>2, LeastOne
  <2>2. n \in 0 .. Depth /\ n \in Nat /\ ~Kept(n)
      BY <1>1, <2>1
  <2>3. PICK m \in n .. Depth : \E w \in Nested[n] :
           /\ IsDict(w)
           /\ ~ (Safes[m][w] \in Nested[n] /\ (w \in Guarded[n] => Safes[m][w] \in Guarded[n]))
      BY <2>2
  <2>4. PICK w \in Nested[n] :
           /\ IsDict(w)
           /\ ~ (Safes[m][w] \in Nested[n] /\ (w \in Guarded[n] => Safes[m][w] \in Guarded[n]))
      BY <2>3
  <2>5. /\ n # 0 /\ \E keys \in KeySets : w.it \in [keys -> Nested[n - 1]]
      BY <2>2, <2>4, ValuesAre DEF IsDict
  <2>6. PICK keys \in KeySets : w.it \in [keys -> Nested[n - 1]]
      BY <2>5
  <2>7. /\ m \in 1 .. Depth /\ m - 1 \in n - 1 .. Depth /\ n - 1 \in 0 .. Depth
        /\ n \in 1 .. Depth /\ ~(n <= n - 1)
      BY <1>1, <2>2, <2>3, <2>5
  <2>8. Kept(n - 1)
      BY <2>1, <2>7
  <2> DEFINE below == Nested[n - 1]
             inner == Safes[m - 1]
             guarded == Guarded[n - 1]
  <2>9. /\ \A u \in below : IsDict(u) => inner[u] \in below /\ (u \in guarded => inner[u] \in guarded)
        /\ w.it \in [keys -> below]
      BY <2>6, <2>7, <2>8
  <2>10. Masked \in below /\ Masked \in guarded
    <3>1. Masked \in Atoms /\ Masked.kind = "atom" /\ Masked # Secret
        BY DEF Masked, Atoms, Secret
    <3>4. Masked \in below => Masked \in guarded
        BY <2>7, <3>1, GuardedAre
    <3>2. CASE n - 1 = 0
        BY <3>1, <3>2, <3>4, NestedIs
    <3>3. CASE n - 1 # 0
      <4>1. n - 1 \in 1 .. Depth
          BY <2>7, <3>3, <1>1
      <4> QED
          BY <3>1, <3>4, <4>1, ContainersAre
    <3> QED
        BY <3>2, <3>3
  <2>11. w \in Values
      BY <2>2, <2>4, NestedAreValues
  <2>12. Safes[m][w] = SafeIn(inner, w)
    <3>1. Safes[m] = [u \in Values |-> SafeIn(inner, u)]
        BY <2>7, SafesAre
    <3> HIDE DEF inner
    <3> QED
        BY <3>1, <2>11
  <2>16. w \in Guarded[n] <=> \A k \in DOMAIN w.it : IsSensitiveKey(k) \/ w.it[k] \in guarded
      BY <2>2, <2>4, GuardedAre DEF IsDict
  <2> HIDE DEF below, inner, guarded
  <2> DEFINE safe == [k \in keys |->
                IF Holds(k) # {} THEN Masked
                ELSE IF IsDict(w.it[k]) THEN inner[w.it[k]] ELSE w.it[k]]
  <2>13. safe \in [keys -> below]
      BY <2>9, <2>10
  <2>14. SafeIn(inner, w) = Dict(safe)
    <3>1. DOMAIN w.it = keys
        BY <2>9
    <3> QED
        BY <3>1 DEF SafeIn
  <2>17. w \in Guarded[n] => \A k \in keys : IsSensitiveKey(k) \/ safe[k] \in guarded
      BY <2>9, <2>10, <2>16
  <2> HIDE DEF safe
  <2>15. Dict(safe) \in Nested[n]
      BY <2>7, <2>13, ContainersAre DEF below
  <2>18. w \in Guarded[n] => Dict(safe) \in Guarded[n]
    <3>1. Dict(safe).kind = "dict" /\ Dict(safe).it = safe /\ DOMAIN safe = keys
        BY <2>13 DEF Dict
    <3> QED
        BY <2>2, <2>15, <2>17, <3>1, GuardedAre DEF guarded
  <2> QED
      BY <2>4, <2>12, <2>14, <2>15, <2>18
<1>3. Kept(Depth)
    BY <1>1, <1>2
<1> QED
    BY <1>1, <1>3 DEF SafeLogDict, Values, GuardedValues

\* mask_sensitive_data leaves a value clear exactly when it was guarded.
LEMMA MaskedIsClear ==
    ASSUME NEW n \in 0 .. Depth, NEW m \in n .. Depth, NEW v \in Nested[n]
    PROVE  Entered(Masks[m], v) \in Clear[n] <=> v \in Guarded[n]
<1> DEFINE Agree(k) == \A j \in k .. Depth : \A w \in Nested[k] :
                          Entered(Masks[j], w) \in Clear[k] <=> w \in Guarded[k]
           Bad == {k \in 0 .. Depth : ~Agree(k)}
<1>1. Depth \in Nat /\ Bad \in SUBSET Nat
    BY DepthAssumption
<1>2. ASSUME NEW k \in 0 .. Depth, \A i \in 0 .. Depth : i < k => Agree(i)
      PROVE  Agree(k)
  <2> SUFFICES ASSUME NEW j \in k .. Depth, NEW w \in Nested[k]
               PROVE  Entered(Masks[j], w) \in Clear[k] <=> w \in Guarded[k]
      OBVIOUS
  <2>1. /\ j \in 0 .. Depth
        /\ k # 0 => /\ k \in 1 .. Depth /\ k - 1 \in 0 .. Depth /\ k - 1 < k
                    /\ j \in 1 .. Depth /\ j - 1 \in k - 1 .. Depth /\ j \in k - 1 .. Depth
      BY <1>1
  <2>2. k # 0 => Agree(k - 1)
      BY <1>2, <2>1
  <2>3. Masked \in Atoms \ {Secret} /\ Masked.kind = "atom"
      BY DEF Masked, Atoms, Secret
  <2>4. CASE w.kind = "atom"
    <3>1. Entered(Masks[j], w) = w
        BY <2>4 DEF Entered, IsDict
    <3>2. w \in Atoms
      <4>1. k = 0 \/ k \in 1 .. Depth
          BY <2>1
      <4>2. \A u \in Around(Nested[k - 1]) : u.kind # "atom"
          BY DEF Around, Dict, List
      <4> QED
          BY <4>1, <4>2, <2>4, NestedIs
    <3> QED
        BY <2>4, <3>1, <3>2, ClearIs, GuardedAre
  <2>5. CASE w.kind = "dict"
    <3>1. k # 0 /\ \E keys \in KeySets : w.it \in [keys -> Nested[k - 1]]
        BY <2>5, ValuesAre
    <3>2. PICK keys \in KeySets : w.it \in [keys -> Nested[k - 1]]
        BY <3>1
    <3> DEFINE inner == Masks[j - 1]
               out == [i \in keys |-> IF IsSensitiveKey(i) THEN Masked ELSE Entered(inner, w.it[i])]
    <3>3. Entered(Masks[j], w) = Dict(out)
      <4>1. Masks[j] = [u \in Values |-> MaskIn(inner, u)]
          BY <2>1, <3>1, MasksAre
      <4>2. w \in Values
          BY NestedAreValues
      <4>3. MaskIn(inner, w) = Dict(out)
        <5>1. DOMAIN w.it = keys
            BY <3>2
        <5> HIDE DEF inner
        <5> QED
            BY <5>1 DEF MaskIn
      <4>4. Entered(Masks[j], w) = Masks[j][w]
          BY <2>5 DEF Entered, IsDict
      <4> HIDE DEF inner, out
      <4> QED
          BY <4>1, <4>2, <4>3, <4>4
    <3>4. out = [i \in keys |-> out[i]]
        OBVIOUS
    <3>5. \A i \in keys : out[i] = IF IsSensitiveKey(i) THEN Masked ELSE Entered(inner, w.it[i])
        OBVIOUS
    <3> HIDE DEF out
    <3>6. Dict(out) \in Clear[k] <=> \A i \in keys : out[i] \in Clear[k - 1]
        BY <2>1, <3>1, <3>4, ClearIs
    <3>7. \A i \in keys : Entered(inner, w.it[i]) \in Clear[k - 1] <=> w.it[i] \in Guarded[k - 1]
        BY <2>1, <2>2, <3>1, <3>2
    <3>8. Masked \in Clear[k - 1]
        BY <2>1, <2>3, <3>1, ClearIs
    <3>9. w \in Guarded[k] <=> \A i \in keys : IsSensitiveKey(i) \/ w.it[i] \in Guarded[k - 1]
        BY <2>5, <3>2, GuardedAre
    <3> QED
        BY <3>3, <3>5, <3>6, <3>7, <3>8, <3>9
  <2>6. CASE w.kind = "list"
    <3>1. k # 0 /\ \E l \in Lengths : w.it \in [1 .. l -> Nested[k - 1]]
        BY <2>6, ValuesAre
    <3>2. PICK l \in Lengths : w.it \in [1 .. l -> Nested[k - 1]]
        BY <3>1
    <3> DEFINE inner == Masks[j]
               mask(x) == IF IsDict(x) THEN inner[x] ELSE x
               out == [i \in 1 .. l |-> mask(w.it[i])]
    <3>3. Entered(inner, w) = List(out)
      <4>1. DOMAIN w.it = 1 .. l
          BY <3>2
      <4> HIDE DEF inner
      <4> QED
          BY <2>6, <4>1 DEF Entered
    <3>4. out = [i \in 1 .. l |-> out[i]]
        OBVIOUS
    <3>5. \A i \in 1 .. l : out[i] = mask(w.it[i])
        OBVIOUS
    <3> HIDE DEF out
    <3>6. List(out) \in Clear[k] <=> \A i \in 1 .. l : out[i] \in Clear[k - 1]
        BY <2>1, <3>1, <3>4, ClearIs
    <3>7. ASSUME NEW i \in 1 .. l
          PROVE  out[i] \in Clear[k - 1] <=>
                    w.it[i] \in IF IsDict(w.it[i]) THEN Guarded[k - 1] ELSE Clear[k - 1]
      <4> DEFINE x == w.it[i]
      <4>1. x \in Nested[k - 1]
          BY <3>2
      <4>2. Entered(inner, x) \in Clear[k - 1] <=> x \in Guarded[k - 1]
          BY <2>1, <2>2, <3>1, <4>1
      <4>3. IsDict(x) => Entered(inner, x) = inner[x]
          BY DEF Entered, IsDict
      <4> HIDE DEF x, inner
      <4> QED
          BY <3>5, <4>2, <4>3 DEF x
    <3>8. w \in Guarded[k] <=> \A i \in 1 .. l :
             w.it[i] \in IF IsDict(w.it[i]) THEN Guarded[k - 1] ELSE Clear[k - 1]
      <4>1. DOMAIN w.it = 1 .. l
          BY <3>2
      <4> QED
          BY <2>6, <4>1, GuardedAre
    <3> QED
        BY <3>3, <3>6, <3>7, <3>8
  <2> QED
      BY <2>4, <2>5, <2>6, ValuesAre
<1>3. ASSUME Bad # {}
      PROVE  FALSE
  <2>1. PICK k \in Bad : \A i \in Bad : k <= i
      BY <1>1, <1>3, LeastOne
  <2>2. k \in 0 .. Depth /\ ~Agree(k)
      BY <2>1
  <2>3. ASSUME NEW i \in 0 .. Depth, i < k
        PROVE  Agree(i)
    <3>1. ~(k <= i)
        BY <1>1, <2>2, <2>3
    <3> HIDE DEF Agree
    <3> QED
        BY <2>1, <3>1
  <2> QED
      BY <2>2, <2>3, <1>2
<1> QED
    BY <1>3

\* What mask_sensitive_data writes of a part of an event that is under no
\* credential's name.
LEMMA PartIs ==
    ASSUME NEW f, NEW k \in DOMAIN f, ~IsSensitiveKey(k), f[k] \in Values
    PROVE  MaskDict(Dict(f)).it[k] \in ClearValues <=> f[k] \in GuardedValues
<1>1. MaskDict(Dict(f)).it[k] = Entered(Masks[Depth], f[k])
    BY DEF MaskDict, MaskIn, Dict
<1>2. Depth \in 0 .. Depth /\ Depth \in Depth .. Depth
    BY DepthAssumption
<1> QED
    BY <1>1, <1>2, MaskedIsClear DEF Values, ClearValues, GuardedValues

-----------------------------------------------------------------------------
(* The lines *)

Event == Dict([k \in {"request_body", "query_params"} |->
                  IF k = "query_params" THEN query ELSE taken])

\* A request's event and its validation error, until and when they are written.
RedactionInv ==
    /\ body.kind \in {"atom", "dict", "list"} => body \in Values
    /\ query \in Queries \cup {Nothing}
    /\ taken \in Values \cup {Nothing}
    /\ (taken # Nothing /\ body \in GuardedValues) => taken \in GuardedValues
    /\ line # Nothing => line = MaskDict(Event)
    /\ warning # Nothing => /\ input \in Values
                            /\ warning = MaskDict(Dict([k \in {"input"} |-> input]))

\* Objects of atoms are values.
LEMMA FlatIsValue ==
    /\ Queries \subseteq Values
    /\ Note \in Values /\ Note \in GuardedValues
<1>1. 1 \in 1 .. Depth /\ 1 \in 0 .. Depth
    BY DepthAssumption
<1>2. Nested[1 - 1] = Atoms
    BY NestedIs
<1>3. \A keys \in KeySets : \A f \in [keys -> Atoms] : Dict(f) \in Nested[1]
    BY <1>1, <1>2, ContainersAre
<1>4. Nested[1] \subseteq Values
    BY <1>1, NestedAreValues
<1>5. Queries \subseteq Values
    BY <1>3, <1>4 DEF Queries
<1> DEFINE plain == [kind |-> "atom", it |-> "plain"]
<1>6. [k \in {"note"} |-> plain] \in [{"note"} -> Atoms]
    BY DEF Atoms
<1>7. Note \in Values
    BY <1>3, <1>4, <1>6, KeysAssumption DEF Note
<1>8. Note \in GuardedValues
  <2>1. plain \in Atoms /\ plain.kind = "atom" /\ plain # Secret
      BY DEF Atoms, Secret
  <2>2. Depth \in 1 .. Depth /\ Depth \in 0 .. Depth /\ Depth - 1 \in 0 .. Depth
      BY DepthAssumption
  <2>3. Atoms \subseteq Nested[Depth - 1]
    <3>1. Depth - 1 = 0 \/ Depth - 1 \in 1 .. Depth
        BY <2>2
    <3> QED
        BY <3>1, NestedIs, ContainersAre
  <2>4. plain \in Guarded[Depth - 1]
      BY <2>1, <2>2, <2>3, GuardedAre
  <2>5. Note.kind = "dict" /\ DOMAIN Note.it = {"note"} /\ Note.it["note"] = plain
      BY DEF Note, Dict
  <2> QED
      BY <1>7, <2>2, <2>4, <2>5, GuardedAre DEF Values, GuardedValues
<1> QED
    BY <1>5, <1>7, <1>8

LEMMA RedactionInitial == LogInit => RedactionInv
<1> SUFFICES ASSUME LogInit
             PROVE  RedactionInv
    OBVIOUS
<1>1. /\ body \in Values \cup {Empty} \cup
                {[kind |-> k, it |-> "none"] : k \in {"other_type", "invalid"}}
      /\ query \in Queries \cup {Nothing}
      /\ taken = Nothing /\ line = Nothing /\ warning = Nothing
    BY DEF LogInit
<1>2. body.kind \in {"atom", "dict", "list"} => body \in Values
    BY <1>1 DEF Empty
<1> QED
    BY <1>1, <1>2 DEF RedactionInv

LEMMA RedactionStep ==
    RedactionInv /\ [LogNext]_lvars => RedactionInv'
<1> SUFFICES ASSUME RedactionInv, [LogNext]_lvars
             PROVE  RedactionInv'
    OBVIOUS
<1>1. CASE Take
  <2>1. /\ taken' \in {Note} \cup (IF IsDict(body) THEN {SafeLogDict(body)} ELSE {})
        /\ body' = body /\ query' = query /\ line' = line /\ line = Nothing
        /\ input' = input /\ warning' = warning /\ warning = Nothing
      BY <1>1 DEF Take
  <2>2. IsDict(body) => body \in Values
      BY DEF RedactionInv, IsDict
  <2>3. taken' \in Values /\ (body \in GuardedValues => taken' \in GuardedValues)
      BY <2>1, <2>2, SafeIsValue, FlatIsValue
  <2> QED
      BY <2>1, <2>3 DEF RedactionInv
<1>2. CASE Reject
  <2>1. /\ body.kind \in {"atom", "dict", "list"}
        /\ input' \in {body} \cup (IF IsDict(body) THEN Range(body.it) ELSE {})
        /\ warning' = MaskDict(Dict([k \in {"input"} |-> input']))
        /\ body' = body /\ query' = query /\ taken' = taken /\ line' = line
        /\ line = Nothing
      BY <1>2 DEF Reject
  <2>2. body \in Values
      BY <2>1 DEF RedactionInv
  <2>3. ASSUME IsDict(body), NEW v \in Range(body.it)
        PROVE  v \in Values
    <3>1. Depth \in 0 .. Depth /\ Depth \in 1 .. Depth
        BY DepthAssumption
    <3>2. \E keys \in KeySets : body.it \in [keys -> Nested[Depth - 1]]
        BY <2>2, <2>3, <3>1, ValuesAre DEF IsDict, Values
    <3>3. v \in Nested[Depth - 1]
        BY <2>3, <3>2 DEF Range
    <3> QED
        BY <3>1, <3>3, NestedGrows DEF Values
  <2>4. input' \in Values
      BY <2>1, <2>2, <2>3
  <2>5. (warning # Nothing => input \in Values /\ warning = MaskDict(Dict([k \in {"input"} |-> input])))'
      BY <2>1, <2>4
  <2> QED
      BY <2>1, <2>5 DEF RedactionInv
<1>3. CASE Write
  <2>1. /\ line' = MaskDict(Event) /\ body' = body /\ query' = query /\ taken' = taken
        /\ input' = input /\ warning' = warning
      BY <1>3 DEF Write, Event
  <2>2. MaskDict(Event)' = MaskDict(Event)
      BY <2>1 DEF Event
  <2> QED
      BY <2>1, <2>2 DEF RedactionInv
<1>4. CASE UNCHANGED lvars
  <2>1. /\ body' = body /\ query' = query /\ taken' = taken /\ line' = line
        /\ input' = input /\ warning' = warning
      BY <1>4 DEF lvars
  <2>2. MaskDict(Event)' = MaskDict(Event)
      BY <2>1 DEF Event
  <2> QED
      BY <2>1, <2>2 DEF RedactionInv
<1> QED
    BY <1>1, <1>2, <1>3, <1>4 DEF LogNext

LEMMA RedactionPart == LoggingSpec => LogInit /\ [][LogNext]_lvars
<1>1. LoggingInit => LogInit
    BY DEF LoggingInit
<1>2. [LoggingNext]_<<part, vars, lvars>> => [LogNext]_lvars
    BY DEF LoggingNext, Written
<1> QED
    BY <1>1, <1>2, PTL DEF LoggingSpec

\* The invariant of the redaction, for bodies of any depth and objects and arrays of
\* any size: what safe_log_dict leaves is a value that mask_sensitive_data can go
\* through, guarded if the body was, and each line is what it made of what it was
\* handed.
THEOREM RedactionInductive == LoggingSpec => []RedactionInv
<1> QED
    BY RedactionInitial, RedactionStep, RedactionPart, PTL

\* Of a query, what is under no credential's name is in the line as it was.
LEMMA QueryIsKept ==
    ASSUME NEW q \in Queries, NEW k \in DOMAIN q.it
    PROVE  LET kept == Entered(Masks[Depth], q).it
           IN  k \in DOMAIN kept /\ (~IsSensitiveKey(k) => kept[k] = q.it[k])
<1>1. IsDict(q) /\ q.kind # "list" /\ \E keys \in KeySets : q.it \in [keys -> Atoms]
    BY DEF Queries, Dict, IsDict
<1> DEFINE inner == Masks[Depth - 1]
<1>2. Entered(Masks[Depth], q) = MaskIn(inner, q)
  <2>1. Depth \in 1 .. Depth
      BY DepthAssumption
  <2>2. Masks[Depth] = [v \in Values |-> MaskIn(inner, v)]
      BY <2>1, MasksAre
  <2>3. Entered(Masks[Depth], q) = Masks[Depth][q] /\ q \in Values
      BY <1>1, FlatIsValue DEF Entered
  <2> HIDE DEF inner
  <2> QED
      BY <2>2, <2>3
<1>3. q.it[k].kind = "atom"
    BY <1>1 DEF Atoms
<1>4. /\ k \in DOMAIN MaskIn(inner, q).it
      /\ ~IsSensitiveKey(k) => MaskIn(inner, q).it[k] = q.it[k]
    BY <1>3 DEF MaskIn, Entered, Dict, IsDict
<1> QED
    BY <1>2, <1>4

\* A secret can be read in a line exactly when it was handed to the logger
\* unguarded: under no credential's name, or in an array of arrays, or as the
\* value that a validation error names.
THEOREM LoggedIsRedacted == LoggingSpec => []LineIsRedacted
<1>1. RedactionInv => LineIsRedacted
  <2> SUFFICES ASSUME RedactionInv
               PROVE  LineIsRedacted
      OBVIOUS
  <2>1. /\ ~IsSensitiveKey("query_params") /\ ~IsSensitiveKey("request_body")
        /\ ~IsSensitiveKey("input")
      BY DEF IsSensitiveKey, Words, SensitiveWords
  <2> DEFINE f == [k \in {"request_body", "query_params"} |->
                      IF k = "query_params" THEN query ELSE taken]
             g == [k \in {"input"} |-> input]
             written == line.it
  <2>2. line # Nothing => line = MaskDict(Dict(f))
      BY DEF RedactionInv, Event
  <2>3. ASSUME line # Nothing, taken # Nothing
        PROVE  /\ written["request_body"] \notin ClearValues <=> taken \notin GuardedValues
               /\ body \in GuardedValues => written["request_body"] \in ClearValues
    <3>1. taken \in Values /\ (body \in GuardedValues => taken \in GuardedValues)
        BY <2>3 DEF RedactionInv
    <3>2. "request_body" \in DOMAIN f /\ f["request_body"] = taken
        OBVIOUS
    <3> HIDE DEF f
    <3>3. written["request_body"] \in ClearValues <=> taken \in GuardedValues
        BY <2>1, <2>2, <2>3, <3>1, <3>2, PartIs
    <3> QED
        BY <3>1, <3>3
  <2>4. ASSUME line # Nothing, query # Nothing
        PROVE  /\ written["query_params"] \notin ClearValues <=> query \notin GuardedValues
               /\ \A k \in DOMAIN query.it :
                     /\ k \in DOMAIN written["query_params"].it
                     /\ k \in {"tokens_in", "author", "note"} =>
                           written["query_params"].it[k] = query.it[k]
    <3>1. query \in Queries /\ query \in Values
        BY <2>4, FlatIsValue DEF RedactionInv
    <3>2. "query_params" \in DOMAIN f /\ f["query_params"] = query
        OBVIOUS
    <3> HIDE DEF f
    <3>3. written["query_params"] \in ClearValues <=> query \in GuardedValues
        BY <2>1, <2>2, <2>4, <3>1, <3>2, PartIs
    <3>4. written["query_params"] = Entered(Masks[Depth], query)
        BY <2>1, <2>2, <2>4, <3>2 DEF MaskDict, MaskIn, Dict
    <3>5. \A k \in {"tokens_in", "author", "note"} : ~IsSensitiveKey(k)
        BY DEF IsSensitiveKey, Words, SensitiveWords, SAFE_FIELDS
    <3> QED
        BY <3>1, <3>3, <3>4, <3>5, QueryIsKept
  <2>5. ASSUME warning # Nothing
        PROVE  warning.it["input"] \notin ClearValues <=> input \notin GuardedValues
    <3>1. input \in Values /\ warning = MaskDict(Dict(g))
        BY <2>5 DEF RedactionInv
    <3>2. "input" \in DOMAIN g /\ g["input"] = input
        OBVIOUS
    <3> HIDE DEF g
    <3> QED
        BY <2>1, <3>1, <3>2, PartIs
  <2> QED
      BY <2>3, <2>4, <2>5 DEF LineIsRedacted
<1> QED
    BY <1>1, RedactionInductive, PTL

==============================================================================

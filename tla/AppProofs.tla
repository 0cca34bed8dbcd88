------------------------------- MODULE AppProofs -------------------------------
(* Theorems about Purchases, for any users and any number of tasks of the   *)
(* view and of purchases, and about NotesScreen, for any number of          *)
(* operations.                                                              *)
EXTENDS MCAuthClient, SequenceTheorems, WellFoundedInduction, TLAPS

-----------------------------------------------------------------------------
(* The inductive invariant of the purchases *)

Entry == [op : {"logIn", "logOut", "receipt"}, for : Syncs \cup Buys,
          as : Users \cup {Anonymous}]

StoreTypes ==
    /\ buyer \in Users \cup {Nobody}
    /\ sync \in [Syncs -> [at : {"unused", "scheduled", "sent", "done"},
                           as : Users \cup {Nobody}]]
    /\ buy \in [Buys -> [at : {"unused", "paying", "posted", "done"},
                         by : Users \cup {Nobody}, on : Users \cup {Anonymous, Nobody},
                         settled : BOOLEAN]]
    /\ identity \in Users \cup {Anonymous}
    /\ queue \in Seq(Entry)
    /\ synced \in BOOLEAN

IsSync(q, i) == q[i].op # "receipt"
NoSyncs(q) == \A i \in 1 .. Len(q) : ~IsSync(q, i)
LastSync(q, i) == IsSync(q, i) /\ \A j \in 1 .. Len(q) : j > i => ~IsSync(q, j)

\* A request is awaited by the task that made it, and a receipt is as whom its
\* purchase was paid: until then that is open.
QueueAwaited ==
    /\ \A i \in 1 .. Len(queue) :
         IF IsSync(queue, i)
         THEN queue[i].for \in Syncs /\ sync[queue[i].for].at = "sent"
         ELSE /\ queue[i].for \in Buys /\ buy[queue[i].for].on = queue[i].as
              /\ buy[queue[i].for].at \in {"posted", "done"}
    /\ \A i, j \in 1 .. Len(queue) :
         (IsSync(queue, i) /\ IsSync(queue, j) /\ queue[i].for = queue[j].for) => i = j
    /\ \A b \in Buys : buy[b].at \in {"unused", "paying"} => buy[b].on = Nobody

\* With the view drawn for a user, the last log-in or log-out under way is theirs.
LastIsTheUsers ==
    (Store!Drawn /\ buyer # Nobody) =>
       \A i \in 1 .. Len(queue) :
          LastSync(queue, i) => queue[i].op = "logIn" /\ queue[i].as = buyer

\* With none under way, the identity is theirs if the last one was a success.
Identified ==
    (Store!Drawn /\ buyer # Nobody /\ NoSyncs(queue) /\ synced) =>
        /\ identity = buyer
        /\ info = buyer \/ \E b \in Buys : buy[b].on \notin {Nobody, buyer}

\* A settled purchase holds all that still.
SettledStays ==
    \A b \in Buys : buy[b].settled =>
       /\ Store!Drawn /\ buyer # Nobody /\ NoSyncs(queue)
       /\ identity = buyer /\ buy[b].by = buyer /\ buy[b].on \in {Nobody, buyer}

StoreInv ==
    /\ StoreTypes
    /\ QueueAwaited
    /\ LastIsTheUsers
    /\ Identified
    /\ SettledStays

-----------------------------------------------------------------------------
(* Queues *)

LEMMA Appended ==
    ASSUME NEW q \in Seq(Entry), NEW e \in Entry
    PROVE  /\ Append(q, e) \in Seq(Entry) /\ Len(q) \in Nat
           /\ Len(Append(q, e)) = Len(q) + 1
           /\ \A i \in 1 .. Len(q) : Append(q, e)[i] = q[i]
           /\ Append(q, e)[Len(q) + 1] = e
BY AppendProperties, LenProperties

LEMMA Taken ==
    ASSUME NEW q \in Seq(Entry), q # <<>>
    PROVE  /\ Tail(q) \in Seq(Entry) /\ Len(q) \in Nat /\ Len(q) >= 1
           /\ Len(Tail(q)) = Len(q) - 1
           /\ \A i \in 1 .. Len(q) - 1 : Tail(q)[i] = q[i + 1]
           /\ Head(q) = q[1]
           /\ \A i \in 1 .. Len(q) : q[i] \in Entry
BY HeadTailProperties, LenProperties, ElementOfSeq, EmptySeq

\* What a queue says of its tail.
LEMMA SyncsOfTail ==
    ASSUME NEW q \in Seq(Entry), q # <<>>
    PROVE  /\ \A i \in 1 .. Len(Tail(q)) :
                i + 1 \in 1 .. Len(q) /\ Tail(q)[i] = q[i + 1]
           /\ \A i \in 1 .. Len(Tail(q)) : LastSync(Tail(q), i) => LastSync(q, i + 1)
           /\ NoSyncs(Tail(q)) <=> \A i \in 1 .. Len(q) : i > 1 => ~IsSync(q, i)
           /\ NoSyncs(Tail(q)) /\ IsSync(q, 1) => LastSync(q, 1)
           /\ NoSyncs(Tail(q)) /\ ~IsSync(q, 1) => NoSyncs(q)
<1> DEFINE t == Tail(q)
<1>1. /\ Len(q) \in Nat /\ Len(q) >= 1 /\ Len(t) = Len(q) - 1
      /\ \A i \in 1 .. Len(q) - 1 : t[i] = q[i + 1]
    BY Taken
<1> HIDE DEF t
<1>2. \A i \in 1 .. Len(t) : i + 1 \in 1 .. Len(q) /\ t[i] = q[i + 1]
    BY <1>1
<1>3. \A j \in 1 .. Len(q) : j > 1 => j - 1 \in 1 .. Len(t) /\ t[j - 1] = q[j]
    BY <1>1
<1>4. \A i \in 1 .. Len(t) : IsSync(t, i) <=> IsSync(q, i + 1)
    BY <1>2 DEF IsSync
<1>5. \A j \in 1 .. Len(q) : j > 1 => (IsSync(t, j - 1) <=> IsSync(q, j))
    BY <1>3 DEF IsSync
<1>6. ASSUME NEW i \in 1 .. Len(t), LastSync(t, i)
      PROVE  LastSync(q, i + 1)
  <2>1. IsSync(q, i + 1)
      BY <1>4, <1>6 DEF LastSync
  <2>2. ASSUME NEW j \in 1 .. Len(q), j > i + 1
        PROVE  ~IsSync(q, j)
    <3>1. j > 1 /\ j - 1 \in 1 .. Len(t) /\ j - 1 > i
        BY <2>2, <1>1
    <3> QED
        BY <3>1, <1>5, <1>6 DEF LastSync
  <2> QED
      BY <2>1, <2>2 DEF LastSync
<1>7. NoSyncs(t) <=> \A i \in 1 .. Len(q) : i > 1 => ~IsSync(q, i)
  <2>1. ASSUME NoSyncs(t), NEW i \in 1 .. Len(q), i > 1
        PROVE  ~IsSync(q, i)
      BY <2>1, <1>3, <1>5 DEF NoSyncs
  <2>2. ASSUME \A i \in 1 .. Len(q) : i > 1 => ~IsSync(q, i), NEW i \in 1 .. Len(t)
        PROVE  ~IsSync(t, i)
    <3>1. i + 1 \in 1 .. Len(q) /\ i + 1 > 1
        BY <1>2
    <3> QED
        BY <3>1, <2>2, <1>4
  <2> QED
      BY <2>1, <2>2 DEF NoSyncs
<1>8. NoSyncs(t) /\ IsSync(q, 1) => LastSync(q, 1)
    BY <1>7 DEF LastSync
<1>9. NoSyncs(t) /\ ~IsSync(q, 1) => NoSyncs(q)
  <2>1. \A i \in 1 .. Len(q) : i = 1 \/ i > 1
      BY <1>1
  <2> QED
      BY <2>1, <1>7 DEF NoSyncs
<1> QED
    BY <1>2, <1>6, <1>7, <1>8, <1>9 DEF t

-----------------------------------------------------------------------------
(* One lemma per action *)

LEMMA SessionChangesKeeps ==
    ASSUME StoreInv, NEW u \in Users \cup {Nobody}, Store!SessionChanges(u)
    PROVE  StoreInv'
<1>1. StoreTypes'
    BY ZenonT(60) DEF StoreInv, StoreTypes, Store!SessionChanges
<1>2. \A b \in Buys : /\ buy'[b].on = buy[b].on /\ buy'[b].at = buy[b].at
                      /\ buy'[b].settled = FALSE
    BY DEF StoreInv, StoreTypes, Store!SessionChanges
<1>3. ~Store!Drawn'
    BY DEF Store!Drawn, Store!SessionChanges
<1>4. QueueAwaited'
    BY <1>2 DEF StoreInv, QueueAwaited, IsSync, Store!SessionChanges
<1> QED
    BY <1>1, <1>2, <1>3, <1>4 DEF StoreInv, LastIsTheUsers, Identified, SettledStays

LEMMA ViewUpdatesKeeps ==
    ASSUME StoreInv, NEW s \in Syncs, Store!ViewUpdates(s)
    PROVE  StoreInv'
<1>1. StoreTypes'
    BY DEF StoreInv, StoreTypes, Store!ViewUpdates
<1>2. sync' = [sync EXCEPT ![s].at = "scheduled"] /\ sync[s].at = "unused"
    BY DEF Store!ViewUpdates
<1>3. sync'[s].at = "scheduled" /\ \A o \in Syncs \ {s} : sync'[o] = sync[o]
    BY <1>2 DEF StoreInv, StoreTypes
<1>4. ~Store!Drawn' /\ ~Store!Drawn
    BY <1>3 DEF Store!Drawn, Store!ViewUpdates
<1>5. QueueAwaited'
    BY <1>2, <1>3 DEF StoreInv, QueueAwaited, IsSync, Store!ViewUpdates
<1> QED
    BY <1>1, <1>4, <1>5
    DEF StoreInv, LastIsTheUsers, Identified, SettledStays, Store!ViewUpdates

\* A task of the view sends a request.
LEMMA SendsKeeps ==
    ASSUME StoreInv, NEW s \in Syncs, NEW e \in Entry, sync[s].at = "scheduled",
           e.op # "receipt", e.for = s, queue' = Append(queue, e),
           StoreTypes', sync'[s].at = "sent", \A o \in Syncs \ {s} : sync'[o] = sync[o],
           buyer # Nobody => e.op = "logIn" /\ e.as = buyer,
           UNCHANGED <<buyer, seen, buy>>
    PROVE  StoreInv'
<1>1. /\ Len(queue) \in Nat /\ Len(queue') = Len(queue) + 1
      /\ \A i \in 1 .. Len(queue) : queue'[i] = queue[i]
      /\ queue'[Len(queue) + 1] = e
    BY Appended DEF StoreInv, StoreTypes
<1>2. \A i \in 1 .. Len(queue') : i \in 1 .. Len(queue) \/ i = Len(queue) + 1
    BY <1>1
<1>3. IsSync(queue', Len(queue) + 1)
    BY <1>1 DEF IsSync
<1>4. Len(queue) + 1 \in 1 .. Len(queue')
    BY <1>1
<1>5. \A i \in 1 .. Len(queue) : IsSync(queue', i) <=> IsSync(queue, i)
    BY <1>1 DEF IsSync
<1>6. \A i \in 1 .. Len(queue) : IsSync(queue, i) => queue[i].for # s
    BY DEF StoreInv, QueueAwaited
<1>7. QueueAwaited'
  <2>1. ASSUME NEW i \in 1 .. Len(queue')
        PROVE  IF IsSync(queue', i)
               THEN queue'[i].for \in Syncs /\ sync'[queue'[i].for].at = "sent"
               ELSE /\ queue'[i].for \in Buys /\ buy[queue'[i].for].on = queue'[i].as
                    /\ buy[queue'[i].for].at \in {"posted", "done"}
    <3>1. CASE i \in 1 .. Len(queue)
        BY <3>1, <1>1, <1>5, <1>6 DEF StoreInv, QueueAwaited
    <3>2. CASE i = Len(queue) + 1
        BY <3>2, <1>1, <1>3
    <3> QED
        BY <1>2, <3>1, <3>2
  <2>2. ASSUME NEW i \in 1 .. Len(queue'), NEW j \in 1 .. Len(queue'),
               IsSync(queue', i), IsSync(queue', j), queue'[i].for = queue'[j].for
        PROVE  i = j
    <3>1. CASE i \in 1 .. Len(queue) /\ j \in 1 .. Len(queue)
        BY <3>1, <2>2, <1>1, <1>5 DEF StoreInv, QueueAwaited
    <3>2. CASE i = Len(queue) + 1 /\ j \in 1 .. Len(queue)
        BY <3>2, <2>2, <1>1, <1>5, <1>6
    <3>3. CASE j = Len(queue) + 1 /\ i \in 1 .. Len(queue)
        BY <3>3, <2>2, <1>1, <1>5, <1>6
    <3> QED
        BY <1>2, <3>1, <3>2, <3>3
  <2>3. \A b \in Buys : buy'[b].at \in {"unused", "paying"} => buy'[b].on = Nobody
      BY DEF StoreInv, QueueAwaited
  <2> QED
      BY <2>1, <2>2, <2>3 DEF QueueAwaited
<1>8. LastIsTheUsers'
  <2> SUFFICES ASSUME buyer # Nobody, NEW i \in 1 .. Len(queue'), LastSync(queue', i)
               PROVE  queue'[i].op = "logIn" /\ queue'[i].as = buyer
      BY DEF LastIsTheUsers
  <2>1. i = Len(queue) + 1
      BY <1>1, <1>2, <1>3, <1>4 DEF LastSync
  <2> QED
      BY <2>1, <1>1
<1>9. ~NoSyncs(queue')
    BY <1>3, <1>4 DEF NoSyncs
<1>10. \A b \in Buys : buy[b].settled = FALSE
    BY DEF StoreInv, SettledStays, StoreTypes, Store!Drawn
<1> QED
    BY <1>7, <1>8, <1>9, <1>10 DEF StoreInv, Identified, SettledStays

LEMMA IdentifyKeeps ==
    ASSUME StoreInv, NEW s \in Syncs, Store!Identify(s)
    PROVE  StoreInv'
<1> DEFINE e == [op |-> "logIn", for |-> s, as |-> buyer]
<1>1. e \in Entry /\ e.op = "logIn" /\ e.for = s /\ e.as = buyer
    BY DEF StoreInv, StoreTypes, Store!Identify, Entry
<1>2. /\ sync[s].at = "scheduled"
      /\ sync' = [sync EXCEPT ![s] = [at |-> "sent", as |-> buyer]]
      /\ queue' = Append(queue, e)
      /\ UNCHANGED <<buyer, seen, buy, identity, synced>>
    BY DEF Store!Identify
<1> HIDE DEF e
<1>3. sync'[s].at = "sent" /\ \A o \in Syncs \ {s} : sync'[o] = sync[o]
    BY <1>2 DEF StoreInv, StoreTypes
<1>4. queue' \in Seq(Entry)
    BY <1>1, <1>2, Appended DEF StoreInv, StoreTypes
<1>5. StoreTypes'
    BY <1>2, <1>4 DEF StoreInv, StoreTypes
<1> QED
    BY <1>1, <1>2, <1>3, <1>5, SendsKeeps

LEMMA ResetKeeps ==
    ASSUME StoreInv, NEW s \in Syncs, Store!Reset(s)
    PROVE  StoreInv'
<1>1. /\ sync[s].at = "scheduled" /\ buyer = Nobody
      /\ UNCHANGED <<buyer, seen, buy>>
    BY DEF Store!Reset
<1>2. CASE /\ sync' = [sync EXCEPT ![s].at = "done"]
           /\ synced' = FALSE
           /\ UNCHANGED <<identity, queue>>
  <2>1. sync'[s].at = "done" /\ \A o \in Syncs \ {s} : sync'[o] = sync[o]
      BY <1>2 DEF StoreInv, StoreTypes
  <2>2. StoreTypes'
      BY <1>1, <1>2 DEF StoreInv, StoreTypes
  <2>3. QueueAwaited'
      BY <1>1, <1>2, <2>1 DEF StoreInv, QueueAwaited, IsSync
  <2>4. \A b \in Buys : ~buy[b].settled
      BY <1>1 DEF StoreInv, SettledStays
  <2> QED
      BY <1>1, <2>2, <2>3, <2>4 DEF StoreInv, LastIsTheUsers, Identified, SettledStays
<1>3. CASE /\ identity' = Anonymous
           /\ queue' = Append(queue, [op |-> "logOut", for |-> s, as |-> Anonymous])
           /\ sync' = [sync EXCEPT ![s].at = "sent"]
           /\ UNCHANGED synced
  <2> DEFINE e == [op |-> "logOut", for |-> s, as |-> Anonymous]
  <2>1. e \in Entry /\ e.op = "logOut" /\ e.for = s
      BY DEF Entry
  <2>2. queue' = Append(queue, e)
      BY <1>3
  <2> HIDE DEF e
  <2>3. sync'[s].at = "sent" /\ \A o \in Syncs \ {s} : sync'[o] = sync[o]
      BY <1>3 DEF StoreInv, StoreTypes
  <2>4. queue' \in Seq(Entry)
      BY <2>1, <2>2, Appended DEF StoreInv, StoreTypes
  <2>5. StoreTypes'
      BY <1>1, <1>3, <2>4 DEF StoreInv, StoreTypes
  <2> QED
      BY <1>1, <2>1, <2>2, <2>3, <2>5, SendsKeeps
<1> QED
    BY <1>2, <1>3 DEF Store!Reset

\* The head of the queue, a log-in or a log-out, is answered.
LEMMA AnswerFacts ==
    ASSUME StoreInv, queue # <<>>, Head(queue).op \in {"logIn", "logOut"},
           queue' = Tail(queue), sync' = [sync EXCEPT ![Head(queue).for].at = "done"],
           UNCHANGED <<buyer, seen, buy>>
    PROVE  /\ queue \in Seq(Entry) /\ queue' \in Seq(Entry)
           /\ Len(queue) \in Nat /\ Len(queue) >= 1
           /\ Head(queue) = queue[1] /\ queue[1] \in Entry
           /\ IsSync(queue, 1) /\ queue[1].for \in Syncs
           /\ sync' \in [Syncs -> [at : {"unused", "scheduled", "sent", "done"},
                                   as : Users \cup {Nobody}]]
           /\ Store!Drawn' <=> Store!Drawn
           /\ QueueAwaited' /\ LastIsTheUsers'
           /\ \A b \in Buys : ~buy[b].settled
<1> DEFINE s == queue[1].for
<1>1. queue \in Seq(Entry)
    BY DEF StoreInv, StoreTypes
<1>2. /\ queue' \in Seq(Entry) /\ Len(queue) \in Nat /\ Len(queue) >= 1
      /\ Len(queue') = Len(queue) - 1
      /\ Head(queue) = queue[1] /\ queue[1] \in Entry
    BY <1>1, Taken
<1>3. 1 \in 1 .. Len(queue) /\ IsSync(queue, 1)
    BY <1>2 DEF IsSync
<1>4. s \in Syncs /\ sync[s].at = "sent"
    BY <1>3 DEF StoreInv, QueueAwaited
<1>5. /\ sync' = [sync EXCEPT ![s].at = "done"]
      /\ sync \in [Syncs -> [at : {"unused", "scheduled", "sent", "done"},
                             as : Users \cup {Nobody}]]
    BY <1>2 DEF StoreInv, StoreTypes
<1> HIDE DEF s
<1>6. /\ sync'[s].at = "done" /\ \A o \in Syncs \ {s} : sync'[o] = sync[o]
      /\ sync' \in [Syncs -> [at : {"unused", "scheduled", "sent", "done"},
                              as : Users \cup {Nobody}]]
    BY <1>4, <1>5
<1>7. Store!Drawn' <=> Store!Drawn
    BY <1>4, <1>6 DEF Store!Drawn
<1>8. /\ \A i \in 1 .. Len(queue') : i + 1 \in 1 .. Len(queue) /\ queue'[i] = queue[i + 1]
      /\ \A i \in 1 .. Len(queue') : LastSync(queue', i) => LastSync(queue, i + 1)
    BY <1>1, SyncsOfTail
<1>9. QueueAwaited'
  <2>1. ASSUME NEW i \in 1 .. Len(queue')
        PROVE  IF IsSync(queue', i)
               THEN queue'[i].for \in Syncs /\ sync'[queue'[i].for].at = "sent"
               ELSE /\ queue'[i].for \in Buys /\ buy[queue'[i].for].on = queue'[i].as
                    /\ buy[queue'[i].for].at \in {"posted", "done"}
    <3>1. i + 1 \in 1 .. Len(queue) /\ queue'[i] = queue[i + 1] /\ i + 1 # 1
        BY <1>8, <1>2
    <3>2. IsSync(queue', i) <=> IsSync(queue, i + 1)
        BY <3>1 DEF IsSync
    <3>3. CASE IsSync(queue, i + 1)
      <4>1. queue[i + 1].for \in Syncs /\ sync[queue[i + 1].for].at = "sent"
          BY <3>1, <3>3 DEF StoreInv, QueueAwaited
      <4>2. queue[i + 1].for # s
          BY <3>1, <3>3, <1>3 DEF StoreInv, QueueAwaited, s
      <4> QED
          BY <4>1, <4>2, <3>1, <3>2, <3>3, <1>6
    <3>4. CASE ~IsSync(queue, i + 1)
        BY <3>1, <3>2, <3>4 DEF StoreInv, QueueAwaited
    <3> QED
        BY <3>3, <3>4
  <2>2. ASSUME NEW i \in 1 .. Len(queue'), NEW j \in 1 .. Len(queue'),
               IsSync(queue', i), IsSync(queue', j), queue'[i].for = queue'[j].for
        PROVE  i = j
    <3>1. IsSync(queue, i + 1) /\ IsSync(queue, j + 1)
          /\ queue[i + 1].for = queue[j + 1].for
        BY <2>2, <1>8 DEF IsSync
    <3>2. i + 1 = j + 1
        BY <3>1, <1>8 DEF StoreInv, QueueAwaited
    <3> QED
        BY <3>2, <1>2
  <2>3. \A b \in Buys : buy'[b].at \in {"unused", "paying"} => buy'[b].on = Nobody
      BY DEF StoreInv, QueueAwaited
  <2> QED
      BY <2>1, <2>2, <2>3 DEF QueueAwaited
<1>10. LastIsTheUsers'
    BY <1>7, <1>8 DEF StoreInv, LastIsTheUsers
<1>11. \A b \in Buys : ~buy[b].settled
    BY <1>3 DEF StoreInv, SettledStays, NoSyncs
<1> QED
    BY <1>1, <1>2, <1>3, <1>4, <1>6, <1>7, <1>9, <1>10, <1>11 DEF s

LEMMA SyncFailsKeeps ==
    ASSUME StoreInv, Store!SyncFails
    PROVE  StoreInv'
<1>1. /\ queue # <<>> /\ Head(queue).op \in {"logIn", "logOut"}
      /\ queue' = Tail(queue) /\ sync' = [sync EXCEPT ![Head(queue).for].at = "done"]
      /\ UNCHANGED <<buyer, seen, buy, identity>> /\ synced' = FALSE
    BY DEF Store!SyncFails
<1>2. /\ queue' \in Seq(Entry) /\ QueueAwaited' /\ LastIsTheUsers'
      /\ sync' \in [Syncs -> [at : {"unused", "scheduled", "sent", "done"},
                              as : Users \cup {Nobody}]]
      /\ \A b \in Buys : ~buy[b].settled
    BY <1>1, AnswerFacts
<1>3. StoreTypes'
    BY <1>1, <1>2 DEF StoreInv, StoreTypes
<1> QED
    BY <1>1, <1>2, <1>3 DEF StoreInv, Identified, SettledStays

LEMMA SyncSucceedsKeeps ==
    ASSUME StoreInv, Store!SyncSucceeds
    PROVE  StoreInv'
<1>1. /\ queue # <<>> /\ Head(queue).op \in {"logIn", "logOut"}
      /\ queue' = Tail(queue) /\ sync' = [sync EXCEPT ![Head(queue).for].at = "done"]
      /\ identity' = (IF Head(queue).op = "logIn" THEN Head(queue).as ELSE identity)
      /\ info' = Head(queue).as /\ synced' = (Head(queue).op = "logIn")
      /\ UNCHANGED <<buyer, seen, buy>>
    BY DEF Store!SyncSucceeds
<1>2. /\ queue \in Seq(Entry) /\ queue' \in Seq(Entry) /\ QueueAwaited' /\ LastIsTheUsers'
      /\ Len(queue) \in Nat /\ Len(queue) >= 1
      /\ Head(queue) = queue[1] /\ queue[1] \in Entry /\ IsSync(queue, 1)
      /\ sync' \in [Syncs -> [at : {"unused", "scheduled", "sent", "done"},
                              as : Users \cup {Nobody}]]
      /\ Store!Drawn' <=> Store!Drawn
      /\ \A b \in Buys : ~buy[b].settled
    BY <1>1, AnswerFacts
<1>3. identity' \in Users \cup {Anonymous} /\ synced' \in BOOLEAN
    BY <1>1, <1>2 DEF StoreInv, StoreTypes, Entry
<1>4. StoreTypes'
    BY <1>1, <1>2, <1>3 DEF StoreInv, StoreTypes
<1>5. Identified'
  <2> SUFFICES ASSUME Store!Drawn', buyer # Nobody, NoSyncs(queue')
               PROVE  identity' = buyer /\ info' = buyer
      BY <1>1 DEF Identified
  <2>1. LastSync(queue, 1)
      BY <1>1, <1>2, SyncsOfTail
  <2>2. queue[1].op = "logIn" /\ queue[1].as = buyer
      BY <2>1, <1>2 DEF StoreInv, LastIsTheUsers
  <2> QED
      BY <2>2, <1>1, <1>2
<1> QED
    BY <1>1, <1>2, <1>4, <1>5 DEF StoreInv, SettledStays

LEMMA LoadOfferingsKeeps ==
    ASSUME StoreInv, Store!LoadOfferings
    PROVE  StoreInv'
BY DEF StoreInv, StoreTypes, QueueAwaited, LastIsTheUsers, Identified, SettledStays, NoSyncs,
       LastSync, IsSync, Store!Drawn, Store!LoadOfferings

\* At rest there is no log-in and no log-out under way.
LEMMA RestIsQuiet ==
    ASSUME StoreInv, Store!AtRest
    PROVE  NoSyncs(queue)
BY DEF StoreInv, QueueAwaited, NoSyncs, Store!AtRest

LEMMA StartPurchaseKeeps ==
    ASSUME StoreInv, NEW b \in Buys, Store!StartPurchase(b)
    PROVE  StoreInv'
<1> DEFINE p == [at |-> "paying", by |-> buyer, on |-> Nobody,
                 settled |-> Store!AtRest /\ synced]
<1>1. /\ buyer # Nobody /\ buy[b].at = "unused"
      /\ buy' = [buy EXCEPT ![b] = p]
      /\ UNCHANGED <<buyer, seen, sync, identity, queue, info, synced>>
    BY DEF Store!StartPurchase
<1>2. Store!AtRest \in BOOLEAN
    BY DEF Store!AtRest, Store!Drawn
<1>3. /\ p.at = "paying" /\ p.by = buyer /\ p.on = Nobody
      /\ p.settled = (Store!AtRest /\ synced)
      /\ p \in [at : {"unused", "paying", "posted", "done"}, by : Users \cup {Nobody},
                on : Users \cup {Anonymous, Nobody}, settled : BOOLEAN]
    BY <1>2 DEF StoreInv, StoreTypes
<1> HIDE DEF p
<1>4. buy'[b] = p /\ \A o \in Buys \ {b} : buy'[o] = buy[o]
    BY <1>1 DEF StoreInv, StoreTypes
<1>5. StoreTypes'
    BY <1>1, <1>3 DEF StoreInv, StoreTypes
<1>6. QueueAwaited'
  <2>1. \A i \in 1 .. Len(queue) : ~IsSync(queue, i) => queue[i].for # b
      BY <1>1 DEF StoreInv, QueueAwaited
  <2>2. \A o \in Buys : buy'[o].at \in {"unused", "paying"} => buy'[o].on = Nobody
      BY <1>3, <1>4 DEF StoreInv, QueueAwaited
  <2>3. \A i \in 1 .. Len(queue) :
           ~IsSync(queue, i) => /\ queue[i].for \in Buys /\ buy'[queue[i].for].on = queue[i].as
                                /\ buy'[queue[i].for].at \in {"posted", "done"}
      BY <1>4, <2>1 DEF StoreInv, QueueAwaited
  <2> QED
      BY <1>1, <2>2, <2>3 DEF StoreInv, QueueAwaited, IsSync
<1>7. Store!Drawn' <=> Store!Drawn
    BY <1>1 DEF Store!Drawn
<1>8. LastIsTheUsers'
    BY <1>1, <1>7 DEF StoreInv, LastIsTheUsers, LastSync, IsSync
<1>9. Identified'
  <2>1. NoSyncs(queue)' <=> NoSyncs(queue)
      BY <1>1 DEF NoSyncs, IsSync
  <2>2. \A o \in Buys : buy[o].on \notin {Nobody, buyer} /\ o # b => buy'[o].on = buy[o].on
      BY <1>4
  <2>3. buy[b].on = Nobody
      BY <1>1 DEF StoreInv, QueueAwaited
  <2> QED
      BY <1>1, <1>7, <2>1, <2>2, <2>3 DEF StoreInv, Identified
<1>10. SettledStays'
  <2>1. NoSyncs(queue)' <=> NoSyncs(queue)
      BY <1>1 DEF NoSyncs, IsSync
  <2>2. ASSUME Store!AtRest /\ synced
        PROVE  Store!Drawn /\ NoSyncs(queue) /\ identity = buyer
      BY <2>2, <1>1, RestIsQuiet DEF StoreInv, Identified, Store!AtRest
  <2>3. ASSUME NEW o \in Buys, buy'[o].settled
        PROVE  /\ Store!Drawn' /\ buyer # Nobody /\ NoSyncs(queue)
               /\ identity = buyer /\ buy'[o].by = buyer /\ buy'[o].on \in {Nobody, buyer}
    <3>1. CASE o = b
        BY <3>1, <2>2, <2>3, <1>1, <1>3, <1>4, <1>7
    <3>2. CASE o # b
        BY <3>2, <2>3, <1>1, <1>4, <1>7 DEF StoreInv, SettledStays
    <3> QED
        BY <3>1, <3>2
  <2> QED
      BY <2>1, <2>3, <1>1 DEF SettledStays
<1> QED
    BY <1>5, <1>6, <1>8, <1>9, <1>10 DEF StoreInv

LEMMA PaidKeeps ==
    ASSUME StoreInv, NEW b \in Buys, Store!Paid(b)
    PROVE  StoreInv'
<1> DEFINE e == [op |-> "receipt", for |-> b, as |-> identity]
<1>1. /\ buy[b].at = "paying"
      /\ buy' = [buy EXCEPT ![b].at = "posted", ![b].on = identity]
      /\ queue' = Append(queue, e)
      /\ UNCHANGED <<buyer, seen, sync, identity, info, synced>>
    BY DEF Store!Paid
<1>2. e \in Entry /\ e.op = "receipt" /\ e.for = b /\ e.as = identity
    BY DEF StoreInv, StoreTypes, Entry
<1> HIDE DEF e
<1>3. /\ buy'[b].at = "posted" /\ buy'[b].on = identity
      /\ buy'[b].by = buy[b].by /\ buy'[b].settled = buy[b].settled
      /\ \A o \in Buys \ {b} : buy'[o] = buy[o]
    BY <1>1 DEF StoreInv, StoreTypes
<1>4. /\ queue' \in Seq(Entry) /\ Len(queue) \in Nat /\ Len(queue') = Len(queue) + 1
      /\ \A i \in 1 .. Len(queue) : queue'[i] = queue[i]
      /\ queue'[Len(queue) + 1] = e
    BY <1>1, <1>2, Appended DEF StoreInv, StoreTypes
<1>5. /\ \A i \in 1 .. Len(queue') : i \in 1 .. Len(queue) \/ i = Len(queue) + 1
      /\ \A i \in 1 .. Len(queue) : i \in 1 .. Len(queue')
    BY <1>4
<1>6. /\ \A i \in 1 .. Len(queue) : IsSync(queue', i) <=> IsSync(queue, i)
      /\ ~IsSync(queue', Len(queue) + 1)
    BY <1>2, <1>4 DEF IsSync
<1>7. StoreTypes'
  <2>1. buy' \in [Buys -> [at : {"unused", "paying", "posted", "done"}, by : Users \cup {Nobody},
                          on : Users \cup {Anonymous, Nobody}, settled : BOOLEAN]]
      BY <1>1, ZenonT(60) DEF StoreInv, StoreTypes
  <2> QED
      BY <2>1, <1>1, <1>4 DEF StoreInv, StoreTypes
<1>8. Store!Drawn' <=> Store!Drawn
    BY <1>1 DEF Store!Drawn
<1>9. NoSyncs(queue') <=> NoSyncs(queue)
    BY <1>5, <1>6 DEF NoSyncs
<1>10. QueueAwaited'
  <2>1. ASSUME NEW i \in 1 .. Len(queue')
        PROVE  IF IsSync(queue', i)
               THEN queue'[i].for \in Syncs /\ sync[queue'[i].for].at = "sent"
               ELSE /\ queue'[i].for \in Buys /\ buy'[queue'[i].for].on = queue'[i].as
                    /\ buy'[queue'[i].for].at \in {"posted", "done"}
    <3>1. CASE i \in 1 .. Len(queue) /\ IsSync(queue, i)
        BY <3>1, <1>4, <1>6 DEF StoreInv, QueueAwaited
    <3>2. CASE i \in 1 .. Len(queue) /\ ~IsSync(queue, i)
      <4>1. /\ queue[i].for \in Buys /\ buy[queue[i].for].on = queue[i].as
            /\ buy[queue[i].for].at \in {"posted", "done"}
          BY <3>2 DEF StoreInv, QueueAwaited
      <4>2. queue[i].for # b
          BY <4>1, <1>1
      <4> QED
          BY <4>1, <4>2, <3>2, <1>3, <1>4, <1>6
    <3>3. CASE i = Len(queue) + 1
        BY <3>3, <1>2, <1>3, <1>4, <1>6
    <3> QED
        BY <1>5, <3>1, <3>2, <3>3
  <2>2. ASSUME NEW i \in 1 .. Len(queue'), NEW j \in 1 .. Len(queue'),
               IsSync(queue', i), IsSync(queue', j), queue'[i].for = queue'[j].for
        PROVE  i = j
    <3>1. i \in 1 .. Len(queue) /\ j \in 1 .. Len(queue)
        BY <2>2, <1>5, <1>6
    <3> QED
        BY <3>1, <2>2, <1>4, <1>6 DEF StoreInv, QueueAwaited
  <2>3. \A o \in Buys : buy'[o].at \in {"unused", "paying"} => buy'[o].on = Nobody
      BY <1>3 DEF StoreInv, QueueAwaited
  <2> QED
      BY <2>1, <2>2, <2>3, <1>1 DEF QueueAwaited
<1>11. LastIsTheUsers'
  <2> SUFFICES ASSUME Store!Drawn, buyer # Nobody, NEW i \in 1 .. Len(queue'),
                      LastSync(queue', i)
               PROVE  queue'[i].op = "logIn" /\ queue'[i].as = buyer
      BY <1>1, <1>8 DEF LastIsTheUsers
  <2>1. i \in 1 .. Len(queue) /\ LastSync(queue, i)
      BY <1>5, <1>6 DEF LastSync
  <2> QED
      BY <2>1, <1>4 DEF StoreInv, LastIsTheUsers
<1>12. buy[b].on = Nobody
    BY <1>1 DEF StoreInv, QueueAwaited
<1>13. Identified'
    BY <1>1, <1>3, <1>8, <1>9, <1>12 DEF StoreInv, Identified
<1>14. SettledStays'
    BY <1>1, <1>3, <1>8, <1>9 DEF StoreInv, SettledStays
<1> QED
    BY <1>7, <1>10, <1>11, <1>13, <1>14 DEF StoreInv

\* A purchase ends: only where it is changes.
LEMMA EndsKeeps ==
    ASSUME StoreInv, NEW b \in Buys, buy' = [buy EXCEPT ![b].at = "done"],
           UNCHANGED <<buyer, seen, sync, identity, queue, info, synced>>
    PROVE  StoreInv'
<1>1. /\ buy'[b].at = "done" /\ buy'[b].on = buy[b].on
      /\ buy'[b].by = buy[b].by /\ buy'[b].settled = buy[b].settled
      /\ \A o \in Buys \ {b} : buy'[o] = buy[o]
    BY DEF StoreInv, StoreTypes
<1>2. \A o \in Buys : /\ buy'[o].on = buy[o].on /\ buy'[o].by = buy[o].by
                      /\ buy'[o].settled = buy[o].settled
                      /\ buy'[o].at \in {buy[o].at, "done"}
    BY <1>1
<1>3. StoreTypes'
    BY SMTT(30) DEF StoreInv, StoreTypes
<1>4. QueueAwaited'
    BY <1>2 DEF StoreInv, QueueAwaited, IsSync
<1>5. Store!Drawn' <=> Store!Drawn
    BY DEF Store!Drawn
<1>6. NoSyncs(queue)' <=> NoSyncs(queue)
    BY DEF NoSyncs, IsSync
<1>7. LastIsTheUsers'
    BY <1>5 DEF StoreInv, LastIsTheUsers, LastSync, IsSync
<1>8. Identified'
    BY <1>2, <1>5, <1>6 DEF StoreInv, Identified
<1>9. SettledStays'
    BY <1>2, <1>5, <1>6 DEF StoreInv, SettledStays
<1> QED
    BY <1>3, <1>4, <1>7, <1>8, <1>9 DEF StoreInv

LEMMA PurchaseFailsKeeps ==
    ASSUME StoreInv, NEW b \in Buys, Store!PurchaseFails(b)
    PROVE  StoreInv'
BY EndsKeeps DEF Store!PurchaseFails

\* A receipt sent as another user is remembered, if its answer is shown.
LEMMA ReceiptTakenKeeps ==
    ASSUME StoreInv, Store!ReceiptTaken
    PROVE  StoreInv'
<1> DEFINE b == queue[1].for
<1>1. /\ queue # <<>> /\ Head(queue).op = "receipt" /\ queue' = Tail(queue)
      /\ buy' = [buy EXCEPT ![Head(queue).for].at = "done"]
      /\ info' \in {info, Head(queue).as}
      /\ UNCHANGED <<buyer, seen, sync, identity, synced>>
    BY DEF Store!ReceiptTaken
<1>2. queue \in Seq(Entry)
    BY DEF StoreInv, StoreTypes
<1>3. /\ queue' \in Seq(Entry) /\ Len(queue) \in Nat /\ Len(queue) >= 1
      /\ Head(queue) = queue[1] /\ queue[1] \in Entry
    BY <1>1, <1>2, Taken
<1>4. 1 \in 1 .. Len(queue) /\ ~IsSync(queue, 1)
    BY <1>1, <1>3 DEF IsSync
<1>5. b \in Buys /\ buy[b].on = queue[1].as /\ queue[1].as # Nobody
    BY <1>3, <1>4, NobodyAssumption DEF StoreInv, QueueAwaited, Entry
<1>6. buy' = [buy EXCEPT ![b].at = "done"]
    BY <1>1, <1>3
<1> HIDE DEF b
<1>7. /\ buy'[b].at = "done" /\ buy'[b].on = buy[b].on
      /\ buy'[b].by = buy[b].by /\ buy'[b].settled = buy[b].settled
      /\ \A o \in Buys \ {b} : buy'[o] = buy[o]
    BY <1>5, <1>6 DEF StoreInv, StoreTypes
<1>8. \A o \in Buys : /\ buy'[o].on = buy[o].on /\ buy'[o].by = buy[o].by
                      /\ buy'[o].settled = buy[o].settled
                      /\ buy'[o].at \in {buy[o].at, "done"}
    BY <1>7
<1>9. StoreTypes'
  <2>1. buy' \in [Buys -> [at : {"unused", "paying", "posted", "done"}, by : Users \cup {Nobody},
                          on : Users \cup {Anonymous, Nobody}, settled : BOOLEAN]]
      BY <1>6, ZenonT(60) DEF StoreInv, StoreTypes
  <2> QED
      BY <2>1, <1>1, <1>3 DEF StoreInv, StoreTypes
<1>10. /\ \A i \in 1 .. Len(queue') : i + 1 \in 1 .. Len(queue) /\ queue'[i] = queue[i + 1]
       /\ \A i \in 1 .. Len(queue') : LastSync(queue', i) => LastSync(queue, i + 1)
       /\ NoSyncs(queue') => NoSyncs(queue)
       /\ NoSyncs(queue) => NoSyncs(queue')
    BY <1>1, <1>2, <1>4, SyncsOfTail DEF NoSyncs
<1>11. QueueAwaited'
  <2>1. \A i \in 1 .. Len(queue') : IsSync(queue', i) <=> IsSync(queue, i + 1)
      BY <1>10 DEF IsSync
  <2>2. ASSUME NEW i \in 1 .. Len(queue')
        PROVE  IF IsSync(queue', i)
               THEN queue'[i].for \in Syncs /\ sync[queue'[i].for].at = "sent"
               ELSE /\ queue'[i].for \in Buys /\ buy'[queue'[i].for].on = queue'[i].as
                    /\ buy'[queue'[i].for].at \in {"posted", "done"}
      BY <2>1, <1>8, <1>10 DEF StoreInv, QueueAwaited
  <2>3. ASSUME NEW i \in 1 .. Len(queue'), NEW j \in 1 .. Len(queue'),
               IsSync(queue', i), IsSync(queue', j), queue'[i].for = queue'[j].for
        PROVE  i = j
    <3>1. i + 1 = j + 1
        BY <2>1, <2>3, <1>10 DEF StoreInv, QueueAwaited
    <3> QED
        BY <3>1, <1>3
  <2>4. \A o \in Buys : buy'[o].at \in {"unused", "paying"} => buy'[o].on = Nobody
      BY <1>8 DEF StoreInv, QueueAwaited
  <2> QED
      BY <2>2, <2>3, <2>4, <1>1 DEF QueueAwaited
<1>12. Store!Drawn' <=> Store!Drawn
    BY <1>1 DEF Store!Drawn
<1>13. LastIsTheUsers'
    BY <1>1, <1>10, <1>12 DEF StoreInv, LastIsTheUsers
<1>14. Identified'
  <2> SUFFICES ASSUME Store!Drawn, buyer # Nobody, NoSyncs(queue), synced
               PROVE  /\ identity = buyer
                      /\ info' = buyer \/ \E o \in Buys : buy'[o].on \notin {Nobody, buyer}
      BY <1>1, <1>10, <1>12 DEF Identified
  <2>1. /\ identity = buyer
        /\ info = buyer \/ \E o \in Buys : buy[o].on \notin {Nobody, buyer}
      BY DEF StoreInv, Identified
  <2>2. CASE info' = info
      BY <2>1, <2>2, <1>8
  <2>3. CASE info' = queue[1].as
      BY <2>1, <2>3, <1>5, <1>8
  <2> QED
      BY <2>2, <2>3, <1>1, <1>3
<1>15. SettledStays'
    BY <1>1, <1>8, <1>10, <1>12 DEF StoreInv, SettledStays
<1> QED
    BY <1>9, <1>11, <1>13, <1>14, <1>15 DEF StoreInv

-----------------------------------------------------------------------------
(* The theorems *)

LEMMA StorePart == AppSpec => Store!Init /\ [][Store!Next]_store_vars
<1>1. AppInit => Store!Init
    BY DEF AppInit
<1>2. [AppNext]_<<part, vars, store_vars, screen_vars>> => [Store!Next]_store_vars
    BY DEF AppNext
<1> QED
    BY <1>1, <1>2, PTL DEF AppSpec

LEMMA StoreInvInitial == Store!Init => StoreInv
<1> SUFFICES ASSUME Store!Init PROVE StoreInv
    OBVIOUS
<1>1. StoreTypes
    BY EmptySeq DEF Store!Init, Store!NoSync, Store!NoBuy, StoreTypes
<1>2. queue = <<>> /\ Len(queue) = 0 /\ buyer = Nobody
    BY EmptySeq DEF Store!Init
<1>3. \A b \in Buys : ~buy[b].settled /\ buy[b].on = Nobody
    BY DEF Store!Init, Store!NoBuy
<1> QED
    BY <1>1, <1>2, <1>3
    DEF StoreInv, QueueAwaited, LastIsTheUsers, Identified, SettledStays

LEMMA StoreInvStep == StoreInv /\ [Store!Next]_store_vars => StoreInv'
<1> SUFFICES ASSUME StoreInv, [Store!Next]_store_vars PROVE StoreInv'
    OBVIOUS
<1>1. CASE UNCHANGED store_vars
    BY <1>1 DEF StoreInv, StoreTypes, QueueAwaited, LastIsTheUsers, Identified, SettledStays,
                NoSyncs, LastSync, IsSync, Store!Drawn, store_vars
<1>2. CASE Store!Next
    BY <1>2, SessionChangesKeeps, ViewUpdatesKeeps, IdentifyKeeps, ResetKeeps, SyncFailsKeeps,
       SyncSucceedsKeeps, LoadOfferingsKeeps, ReceiptTakenKeeps, StartPurchaseKeeps, PaidKeeps,
       PurchaseFailsKeeps
    DEF Store!Next
<1> QED
    BY <1>1, <1>2

\* The invariant holds in every state.
THEOREM StoreInductive == AppSpec => []StoreInv
<1> QED
    BY StorePart, StoreInvInitial, StoreInvStep, PTL

\* Once the last log-in has succeeded and no task is left, RevenueCat's identity is
\* the user's, whatever sign-ins and sign-outs came in between: the SDK serves its
\* requests in order, and a task reads the user it was started for.
THEOREM AppSignedInIsIdentified == AppSpec => []SignedInIsIdentified
<1>1. StoreInv => SignedInIsIdentified
    BY RestIsQuiet DEF StoreInv, Identified, SignedInIsIdentified, Store!SignedInIsIdentified,
                       Store!AtRest
<1> QED
    BY <1>1, StoreInductive, PTL

\* A purchase begun while the identity was settled, in a session that lasts, is
\* written to its user: nothing changes the identity until the session does.
THEOREM AppEntitlementsFollowTheAccount == AppSpec => []EntitlementsFollowTheAccount
<1>1. StoreInv => EntitlementsFollowTheAccount
    BY DEF StoreInv, SettledStays, EntitlementsFollowTheAccount,
           Store!EntitlementsFollowTheAccount
<1> QED
    BY <1>1, StoreInductive, PTL


-----------------------------------------------------------------------------
(* What holds of all sequences *)

\* A set of natural numbers has a least one.
LEMMA LeastOne ==
    ASSUME NEW T \in SUBSET Nat, T # {}
    PROVE  \E m \in T : \A n \in T : m <= n
<1> DEFINE Less == {ss \in Nat \X Nat : ss[1] < ss[2]}
<1>1. IsWellFoundedOn(Less, Nat)
    BY NatLessThanWellFounded DEF OpToRel
<1>2. ASSUME NEW x \in Nat, NEW y \in Nat, x < y
      PROVE  <<x, y>> \in Less
    <2>1. <<x, y>> \in Nat \X Nat /\ <<x, y>>[1] = x /\ <<x, y>>[2] = y
        OBVIOUS
    <2> QED
        BY <1>2, <2>1, Zenon
<1> HIDE DEF Less
<1>3. PICK x \in T : \A y \in T : ~ (<<y, x>> \in Less)
    BY <1>1, WFMin
<1>4. \A y \in T : ~(y < x)
    BY <1>2, <1>3, Zenon
<1> QED
    BY <1>4

\* What holds of the empty sequence, and of a longer one if of the shorter, holds
\* of all.
LEMMA SeqsGrow ==
    ASSUME NEW S, NEW G, <<>> \in G,
           \A s \in Seq(S), e \in S : s \in G => Append(s, e) \in G
    PROVE  Seq(S) \subseteq G
<1> SUFFICES ASSUME NEW t \in Seq(S), t \notin G
             PROVE  FALSE
    OBVIOUS
<1> DEFINE T == {n \in Nat : \E s \in Seq(S) : Len(s) = n /\ s \notin G}
<1>1. T \in SUBSET Nat /\ T # {}
    BY LenProperties
<1>2. PICK m \in T : \A n \in T : m <= n
    BY <1>1, LeastOne, Zenon
<1>3. PICK s \in Seq(S) : Len(s) = m /\ s \notin G
    OBVIOUS
<1>4. s # <<>>
    BY <1>3
<1>5. PICK f \in Seq(S), e \in S : s = Append(f, e)
    BY <1>4, SequenceEmptyOrAppend
<1>6. f \notin G
    BY <1>3, <1>5
<1>7. Len(f) \in Nat /\ Len(f) \in T /\ Len(s) = Len(f) + 1
    BY <1>5, <1>6, AppendProperties, LenProperties
<1> HIDE DEF T
<1> QED
    BY <1>2, <1>3, <1>7

-----------------------------------------------------------------------------
(* Taking notes out of a list *)

Sifts(f, s, T) ==
    f = [n \in 0 .. Len(s) |-> IF n = 0 THEN <<>>
                               ELSE IF s[n] \in T THEN Append(f[n - 1], s[n]) ELSE f[n - 1]]

\* What of s is in T.
Sifted(s, T) == (CHOOSE f : Sifts(f, s, T))[Len(s)]

OneSift(s, T) == \E f : Sifts(f, s, T) /\ \A g : Sifts(g, s, T) => g = f

LEMMA SiftOfEmpty ==
    ASSUME NEW T
    PROVE  OneSift(<<>>, T) /\ Sifted(<<>>, T) = <<>>
<1> DEFINE f == [n \in 0 .. 0 |-> <<>>]
<1>1. Len(<<>>) = 0 /\ \A n \in 0 .. 0 : n = 0
    OBVIOUS
<1>2. ASSUME NEW g
      PROVE  Sifts(g, <<>>, T) <=> g = f
  <2>1. f = [n \in 0 .. 0 |-> IF n = 0 THEN <<>>
              ELSE IF <<>>[n] \in T THEN Append(g[n - 1], <<>>[n]) ELSE g[n - 1]]
      BY <1>1
  <2> HIDE DEF f
  <2> QED
      BY <2>1, <1>1 DEF Sifts
<1>3. f[0] = <<>>
    BY <1>1
<1> HIDE DEF f
<1>4. \A h : h = (CHOOSE g : Sifts(g, <<>>, T)) => h = f
    BY <1>2
<1> QED
    BY <1>1, <1>2, <1>3, <1>4 DEF OneSift, Sifted

LEMMA SiftOfLonger ==
    ASSUME NEW S, NEW T, NEW s \in Seq(S), NEW e \in S, OneSift(s, T)
    PROVE  /\ OneSift(Append(s, e), T)
           /\ Sifted(Append(s, e), T) =
                IF e \in T THEN Append(Sifted(s, T), e) ELSE Sifted(s, T)
<1> DEFINE n == Len(s)
           longer == Append(s, e)
           Step(f, q, i) == IF i = 0 THEN <<>>
                            ELSE IF q[i] \in T THEN Append(f[i - 1], q[i]) ELSE f[i - 1]
<1>1. /\ n \in Nat /\ Len(longer) = n + 1 /\ longer[n + 1] = e
      /\ \A i \in 1 .. n : longer[i] = s[i]
    BY AppendProperties, LenProperties
<1>2. PICK g : Sifts(g, s, T) /\ \A h : Sifts(h, s, T) => h = g
    BY DEF OneSift
<1>3. g = [i \in 0 .. n |-> Step(g, s, i)]
    BY <1>2 DEF Sifts
<1>4. g = CHOOSE h : Sifts(h, s, T)
    BY <1>2
<1>5. Sifted(s, T) = g[n]
    BY <1>4 DEF Sifted
<1> DEFINE last == IF e \in T THEN Append(g[n], e) ELSE g[n]
           f == [i \in 0 .. n + 1 |-> IF i = n + 1 THEN last ELSE g[i]]
<1> HIDE DEF longer
<1>6. \A h : Sifts(h, longer, T) <=> h = [i \in 0 .. n + 1 |-> Step(h, longer, i)]
    BY <1>1 DEF Sifts
<1>7. DOMAIN f = 0 .. n + 1 /\ f[n + 1] = last /\ \A i \in 0 .. n : f[i] = g[i]
    BY <1>1
<1>8. \A i \in 0 .. n : i # 0 => i - 1 \in 0 .. n /\ i \in 1 .. n
    BY <1>1
<1>9. \A i \in 0 .. n + 1 : i \in 0 .. n \/ i = n + 1
    BY <1>1
<1>10. n + 1 # 0 /\ (n + 1) - 1 = n /\ n \in 0 .. n /\ n + 1 \in 0 .. n + 1
    BY <1>1
<1>11. f = [i \in 0 .. n + 1 |-> f[i]]
    OBVIOUS
<1> HIDE DEF f
<1>12. ASSUME NEW i \in 0 .. n
       PROVE  f[i] = Step(f, longer, i)
  <2>1. g[i] = Step(g, s, i)
      BY <1>3
  <2> QED
      BY <2>1, <1>7, <1>8, <1>1
<1>13. f[n + 1] = Step(f, longer, n + 1)
    BY <1>1, <1>7, <1>10
<1>14. Sifts(f, longer, T)
  <2>1. \A i \in 0 .. n + 1 : f[i] = Step(f, longer, i)
      BY <1>9, <1>12, <1>13
  <2> HIDE DEF Step
  <2> QED
      BY <2>1, <1>6, <1>11
<1>15. ASSUME NEW h, Sifts(h, longer, T)
       PROVE  h = f
  <2>1. h = [i \in 0 .. n + 1 |-> Step(h, longer, i)]
      BY <1>15, <1>6
  <2> DEFINE k == [i \in 0 .. n |-> h[i]]
  <2>2. \A i \in 0 .. n : k[i] = h[i] /\ i \in 0 .. n + 1
      BY <1>1
  <2>3. k = [i \in 0 .. n |-> k[i]]
      OBVIOUS
  <2> HIDE DEF k
  <2>4. ASSUME NEW i \in 0 .. n
        PROVE  k[i] = Step(k, s, i)
    <3>1. h[i] = Step(h, longer, i)
        BY <2>1, <2>2
    <3> QED
        BY <3>1, <2>2, <1>8, <1>1
  <2>5. k = [i \in 0 .. n |-> Step(k, s, i)]
    <3> HIDE DEF Step
    <3> QED
        BY <2>3, <2>4
  <2>6. k = g
      BY <2>5, <1>2 DEF Sifts
  <2>7. h[n + 1] = Step(h, longer, n + 1)
      BY <2>1, <1>10
  <2>8. h[n] = g[n]
      BY <2>6, <2>2, <1>10
  <2>9. h[n + 1] = last
      BY <2>7, <2>8, <1>10, <1>1
  <2>10. \A i \in 0 .. n + 1 : h[i] = f[i]
      BY <2>9, <2>2, <2>6, <1>7, <1>9
  <2>11. h = [i \in 0 .. n + 1 |-> h[i]]
    <3> HIDE DEF Step
    <3> QED
        BY <2>1
  <2> HIDE DEF last, Step
  <2> QED
      BY <2>10, <2>11, <1>11
<1>16. f = CHOOSE h : Sifts(h, longer, T)
    BY <1>14, <1>15
<1>17. Sifted(longer, T) = last
    BY <1>16, <1>7, <1>1 DEF Sifted
<1> HIDE DEF last
<1>18. OneSift(longer, T)
    BY <1>14, <1>15 DEF OneSift
<1> QED
    BY <1>5, <1>17, <1>18 DEF last, longer

LEMMA SiftIsOne ==
    ASSUME NEW S, NEW T
    PROVE  \A s \in Seq(S) : OneSift(s, T)
<1> DEFINE G == {s \in Seq(S) : OneSift(s, T)}
<1>1. <<>> \in G
    BY SiftOfEmpty, EmptySeq
<1>2. \A s \in Seq(S), e \in S : s \in G => Append(s, e) \in G
    BY SiftOfLonger, AppendProperties
<1>3. Seq(S) \subseteq G
  <2> HIDE DEF G
  <2> QED
      BY <1>1, <1>2, SeqsGrow
<1> QED
    BY <1>3

LEMMA SiftOfAppend ==
    ASSUME NEW S, NEW T, NEW s \in Seq(S), NEW e \in S
    PROVE  Sifted(Append(s, e), T) = IF e \in T THEN Append(Sifted(s, T), e) ELSE Sifted(s, T)
<1>1. OneSift(s, T)
    BY SiftIsOne
<1> QED
    BY <1>1, SiftOfLonger

LEMMA SiftIsPart ==
    ASSUME NEW S, NEW T, NEW s \in Seq(S)
    PROVE  /\ Sifted(s, T) \in Seq(S)
           /\ \A i \in DOMAIN Sifted(s, T) : \E j \in DOMAIN s : Sifted(s, T)[i] = s[j]
<1> DEFINE Part(q, l) == /\ q \in Seq(S)
                         /\ \A i \in 1 .. Len(q) : \E j \in 1 .. Len(l) : q[i] = l[j]
           G == {l \in Seq(S) : Part(Sifted(l, T), l)}
<1>1. <<>> \in G
    BY SiftOfEmpty, EmptySeq
<1>2. ASSUME NEW l \in Seq(S), NEW e \in S, l \in G
      PROVE  Append(l, e) \in G
  <2> DEFINE q == Sifted(l, T)
             n == Append(l, e)
  <2>1. /\ Len(l) \in Nat /\ Len(n) = Len(l) + 1 /\ n[Len(l) + 1] = e
        /\ \A j \in 1 .. Len(l) : n[j] = l[j]
        /\ n \in Seq(S)
      BY AppendProperties, LenProperties
  <2>2. Part(q, l)
      BY <1>2
  <2>3. \A i \in 1 .. Len(q) : \E j \in 1 .. Len(n) : q[i] = n[j]
      BY <2>1, <2>2
  <2>4. Sifted(n, T) = IF e \in T THEN Append(q, e) ELSE q
      BY SiftOfAppend
  <2> HIDE DEF q, n
  <2>5. /\ Len(q) \in Nat /\ Append(q, e) \in Seq(S) /\ Len(Append(q, e)) = Len(q) + 1
        /\ Append(q, e)[Len(q) + 1] = e
        /\ \A i \in 1 .. Len(q) : Append(q, e)[i] = q[i]
      BY <2>2, AppendProperties, LenProperties
  <2>6. ASSUME NEW i \in 1 .. Len(Append(q, e))
        PROVE  \E j \in 1 .. Len(n) : Append(q, e)[i] = n[j]
    <3>1. CASE i = Len(q) + 1
      <4>1. Len(l) + 1 \in 1 .. Len(n)
          BY <2>1
      <4> QED
          BY <4>1, <3>1, <2>1, <2>5
    <3>2. CASE i # Len(q) + 1
      <4>1. i \in 1 .. Len(q)
          BY <3>2, <2>5
      <4> QED
          BY <4>1, <2>3, <2>5
    <3> QED
        BY <3>1, <3>2
  <2>7. Part(Sifted(n, T), n)
      BY <2>2, <2>3, <2>4, <2>5, <2>6
  <2> QED
      BY <2>1, <2>7 DEF n
<1>3. Seq(S) \subseteq G
  <2> HIDE DEF G
  <2> QED
      BY <1>1, <1>2, SeqsGrow
<1>4. Part(Sifted(s, T), s)
    BY <1>3
<1> QED
    BY <1>4, LenProperties

LEMMA SiftOfAll ==
    ASSUME NEW S, NEW T, S \subseteq T
    PROVE  \A s \in Seq(S) : Sifted(s, T) = s
<1> DEFINE G == {s \in Seq(S) : Sifted(s, T) = s}
<1>1. <<>> \in G
    BY SiftOfEmpty, EmptySeq
<1>2. ASSUME NEW s \in Seq(S), NEW e \in S, s \in G
      PROVE  Append(s, e) \in G
    BY <1>2, SiftOfAppend, AppendProperties
<1>3. Seq(S) \subseteq G
  <2> HIDE DEF G
  <2> QED
      BY <1>1, <1>2, SeqsGrow
<1> QED
    BY <1>3

LEMMA SiftTwice ==
    ASSUME NEW S, NEW T, NEW U
    PROVE  \A s \in Seq(S) : Sifted(Sifted(s, T), U) = Sifted(s, T \cap U)
<1> DEFINE G == {s \in Seq(S) : Sifted(Sifted(s, T), U) = Sifted(s, T \cap U)}
<1>1. <<>> \in G
    BY SiftOfEmpty, EmptySeq
<1>2. ASSUME NEW s \in Seq(S), NEW e \in S, s \in G
      PROVE  Append(s, e) \in G
  <2>1. Sifted(s, T) \in Seq(S) /\ Append(s, e) \in Seq(S)
      BY SiftIsPart, AppendProperties
  <2>2. Sifted(Append(s, e), T) = IF e \in T THEN Append(Sifted(s, T), e) ELSE Sifted(s, T)
      BY SiftOfAppend
  <2>3. Sifted(Append(s, e), T \cap U) =
          IF e \in T \cap U THEN Append(Sifted(s, T \cap U), e) ELSE Sifted(s, T \cap U)
      BY SiftOfAppend
  <2>4. Sifted(Append(Sifted(s, T), e), U) =
          IF e \in U THEN Append(Sifted(Sifted(s, T), U), e) ELSE Sifted(Sifted(s, T), U)
      BY <2>1, SiftOfAppend
  <2>5. Sifted(Sifted(s, T), U) = Sifted(s, T \cap U)
      BY <1>2
  <2>6. CASE e \in T
    <3>1. Sifted(Sifted(Append(s, e), T), U) = Sifted(Append(Sifted(s, T), e), U)
        BY <2>2, <2>6
    <3>2. Sifted(Append(Sifted(s, T), e), U) = Sifted(Append(s, e), T \cap U)
        BY <2>3, <2>4, <2>5, <2>6
    <3> QED
        BY <2>1, <3>1, <3>2
  <2>7. CASE e \notin T
      BY <2>2, <2>3, <2>5, <2>7, <2>1
  <2> QED
      BY <2>6, <2>7
<1>3. Seq(S) \subseteq G
  <2> HIDE DEF G
  <2> QED
      BY <1>1, <1>2, SeqsGrow
<1> QED
    BY <1>3

\* What stays at the head.
LEMMA SiftBehindHead ==
    ASSUME NEW S, NEW T, NEW h \in S, h \in T
    PROVE  \A s \in Seq(S) : Sifted(<<h>> \o s, T) = <<h>> \o Sifted(s, T)
<1> DEFINE G == {s \in Seq(S) : Sifted(<<h>> \o s, T) = <<h>> \o Sifted(s, T)}
<1>0. <<h>> \in Seq(S) /\ <<h>> = Append(<<>>, h) /\ <<>> \in Seq(S)
    OBVIOUS
<1>1. <<>> \in G
  <2>1. Sifted(<<h>>, T) = <<h>>
      BY <1>0, SiftOfAppend, SiftOfEmpty
  <2>2. <<h>> \o <<>> = <<h>>
      BY <1>0, ConcatEmptySeq
  <2> QED
      BY <2>1, <2>2, SiftOfEmpty, EmptySeq
<1>2. ASSUME NEW s \in Seq(S), NEW e \in S, s \in G
      PROVE  Append(s, e) \in G
  <2>1. Sifted(s, T) \in Seq(S) /\ Append(s, e) \in Seq(S) /\ <<h>> \o s \in Seq(S)
      BY <1>0, SiftIsPart, AppendProperties, ConcatProperties
  <2>2. <<h>> \o Append(s, e) = Append(<<h>> \o s, e)
      BY <1>0
  <2>3. <<h>> \o Append(Sifted(s, T), e) = Append(<<h>> \o Sifted(s, T), e)
      BY <1>0, <2>1
  <2>4. Sifted(Append(s, e), T) = IF e \in T THEN Append(Sifted(s, T), e) ELSE Sifted(s, T)
      BY SiftOfAppend
  <2> DEFINE q == <<h>> \o s
  <2>5. Sifted(Append(q, e), T) = IF e \in T THEN Append(Sifted(q, T), e) ELSE Sifted(q, T)
    <3>1. q \in Seq(S)
        BY <2>1
    <3> HIDE DEF q
    <3> QED
        BY <3>1, SiftOfAppend
  <2> QED
      BY <1>2, <2>1, <2>2, <2>3, <2>4, <2>5
<1>3. Seq(S) \subseteq G
  <2> HIDE DEF G
  <2> QED
      BY <1>1, <1>2, SeqsGrow
<1> QED
    BY <1>3

-----------------------------------------------------------------------------
(* Giving a note another title, and taking one out *)

Titled == [id : Ops \cup {Before}, title : Ops \cup {Before}]

\* The notes whose id is not in ids.
Other(ids) == {n \in Titled : n.id \notin ids}

Titles == Ops \cup {Before}

One(e, id, title) == IF e.id = id THEN Screen!Note(id, title) ELSE e

LEMMA OneIsTitled ==
    ASSUME NEW e \in Titled, NEW id \in Titles, NEW title \in Titles
    PROVE  One(e, id, title) \in Titled /\ One(e, id, title).id = e.id
BY DEF One, Titled, Titles, Screen!Note

LEMMA RetitledIs ==
    ASSUME NEW s \in Seq(Titled), NEW id \in Titles, NEW title \in Titles
    PROVE  /\ Screen!Retitled(s, id, title) \in Seq(Titled)
           /\ Len(Screen!Retitled(s, id, title)) = Len(s)
           /\ DOMAIN Screen!Retitled(s, id, title) = DOMAIN s
           /\ \A i \in 1 .. Len(s) :
                /\ s[i] \in Titled
                /\ Screen!Retitled(s, id, title)[i] = One(s[i], id, title)
                /\ Screen!Retitled(s, id, title)[i].id = s[i].id
<1> DEFINE t == Screen!Retitled(s, id, title)
<1>1. Len(s) \in Nat /\ DOMAIN s = 1 .. Len(s) /\ \A i \in 1 .. Len(s) : s[i] \in Titled
    BY LenProperties, ElementOfSeq
<1>2. t = [i \in 1 .. Len(s) |-> One(s[i], id, title)]
    BY <1>1 DEF Screen!Retitled, One
<1> HIDE DEF t
<1>3. \A i \in 1 .. Len(s) : t[i] = One(s[i], id, title) /\ t[i] \in Titled /\ t[i].id = s[i].id
    BY <1>1, <1>2, OneIsTitled
<1>4. DOMAIN t = 1 .. Len(s)
    BY <1>2
<1>5. t = [i \in 1 .. Len(s) |-> t[i]]
    BY <1>2, <1>4
<1>6. t \in Seq(Titled)
    BY <1>1, <1>3, <1>5, IsASeq
<1>7. Len(t) = Len(s)
    BY <1>1, <1>4, <1>6, LenProperties
<1> QED
    BY <1>1, <1>3, <1>4, <1>6, <1>7 DEF t

LEMMA RetitledAppend ==
    ASSUME NEW s \in Seq(Titled), NEW e \in Titled, NEW id \in Titles, NEW title \in Titles
    PROVE  Screen!Retitled(Append(s, e), id, title)
             = Append(Screen!Retitled(s, id, title), One(e, id, title))
<1> DEFINE l == Screen!Retitled(Append(s, e), id, title)
           r == Append(Screen!Retitled(s, id, title), One(e, id, title))
           n == Len(s)
<1>1. /\ n \in Nat /\ Append(s, e) \in Seq(Titled) /\ Len(Append(s, e)) = n + 1
      /\ Append(s, e)[n + 1] = e /\ \A i \in 1 .. n : Append(s, e)[i] = s[i]
    BY AppendProperties, LenProperties
<1>2. /\ l \in Seq(Titled) /\ Len(l) = n + 1
      /\ \A i \in 1 .. n + 1 : l[i] = One(Append(s, e)[i], id, title)
  <2> DEFINE a == Append(s, e)
  <2>1. a \in Seq(Titled) /\ Len(a) = n + 1
      BY <1>1
  <2> HIDE DEF a
  <2>2. /\ Screen!Retitled(a, id, title) \in Seq(Titled)
        /\ Len(Screen!Retitled(a, id, title)) = n + 1
        /\ \A i \in 1 .. n + 1 : Screen!Retitled(a, id, title)[i] = One(a[i], id, title)
    <3>1. /\ Screen!Retitled(a, id, title) \in Seq(Titled)
          /\ Len(Screen!Retitled(a, id, title)) = Len(a)
          /\ \A i \in 1 .. Len(a) : Screen!Retitled(a, id, title)[i] = One(a[i], id, title)
        BY <2>1, RetitledIs
    <3> QED
        BY <2>1, <3>1
  <2> QED
      BY <2>2 DEF a
<1>3. /\ Screen!Retitled(s, id, title) \in Seq(Titled) /\ Len(Screen!Retitled(s, id, title)) = n
      /\ \A i \in 1 .. n : Screen!Retitled(s, id, title)[i] = One(s[i], id, title)
    BY RetitledIs
<1>4. One(e, id, title) \in Titled
    BY OneIsTitled
<1>5. /\ r \in Seq(Titled) /\ Len(r) = n + 1 /\ r[n + 1] = One(e, id, title)
      /\ \A i \in 1 .. n : r[i] = One(s[i], id, title)
    BY <1>3, <1>4, AppendProperties
<1> HIDE DEF l, r
<1>6. \A i \in 1 .. n + 1 : i \in 1 .. n \/ i = n + 1
    BY <1>1
<1>7. \A i \in 1 .. n : i \in 1 .. n + 1
    BY <1>1
<1>8. n + 1 \in 1 .. n + 1
    BY <1>1
<1>9. \A i \in 1 .. n + 1 : l[i] = r[i]
    BY <1>1, <1>2, <1>5, <1>6, <1>7, <1>8
<1>10. l = r
    BY <1>2, <1>5, <1>9, SeqEqual
<1> QED
    BY <1>10 DEF l, r

LEMMA RetitledEmpty == ASSUME NEW id, NEW title PROVE Screen!Retitled(<<>>, id, title) = <<>>
BY DEF Screen!Retitled

\* A note with another id at the head.
LEMMA RetitledBehindHead ==
    ASSUME NEW h \in Titled, NEW id \in Titles, NEW title \in Titles, h.id # id
    PROVE  \A s \in Seq(Titled) :
              Screen!Retitled(<<h>> \o s, id, title) = <<h>> \o Screen!Retitled(s, id, title)
<1> DEFINE T(s) == Screen!Retitled(s, id, title)
           G == {s \in Seq(Titled) : T(<<h>> \o s) = <<h>> \o T(s)}
<1>0. <<h>> \in Seq(Titled) /\ <<h>> = Append(<<>>, h) /\ <<>> \in Seq(Titled)
    OBVIOUS
<1>1. <<>> \in G
  <2>1. One(h, id, title) = h
      BY DEF One
  <2>2. T(<<h>>) = <<h>>
    <3>1. T(Append(<<>>, h)) = Append(T(<<>>), One(h, id, title))
        BY <1>0, RetitledAppend
    <3>2. T(<<>>) = <<>>
        BY RetitledEmpty
    <3> HIDE DEF T
    <3> QED
        BY <3>1, <3>2, <2>1, <1>0
  <2>3. <<h>> \o <<>> = <<h>>
      BY <1>0, ConcatEmptySeq
  <2> QED
      BY <2>2, <2>3, RetitledEmpty, EmptySeq
<1>2. ASSUME NEW s \in Seq(Titled), NEW e \in Titled, s \in G
      PROVE  Append(s, e) \in G
  <2> DEFINE q == <<h>> \o s
             o == One(e, id, title)
  <2>1. T(s) \in Seq(Titled) /\ Append(s, e) \in Seq(Titled) /\ q \in Seq(Titled) /\ o \in Titled
      BY <1>0, RetitledIs, OneIsTitled, AppendProperties, ConcatProperties
  <2>2. <<h>> \o Append(s, e) = Append(q, e)
      BY <1>0
  <2>3. <<h>> \o Append(T(s), o) = Append(<<h>> \o T(s), o)
    <3> HIDE DEF o, T
    <3> QED
        BY <1>0, <2>1
  <2>4. T(Append(s, e)) = Append(T(s), o)
      BY RetitledAppend
  <2>5. T(q) = <<h>> \o T(s)
      BY <1>2
  <2>6. T(Append(q, e)) = Append(T(q), o)
    <3> HIDE DEF q
    <3> QED
        BY <2>1, RetitledAppend
  <2>7. T(<<h>> \o Append(s, e)) = <<h>> \o T(Append(s, e))
    <3> HIDE DEF q, o, T
    <3> QED
        BY <2>2, <2>3, <2>4, <2>5, <2>6
  <2> QED
      BY <2>1, <2>7
<1>3. Seq(Titled) \subseteq G
  <2> HIDE DEF G
  <2> QED
      BY <1>1, <1>2, SeqsGrow
<1> QED
    BY <1>3

LEMMA RetitledSift ==
    ASSUME NEW id \in Titles, NEW title \in Titles, NEW ids
    PROVE  \A s \in Seq(Titled) :
              Screen!Retitled(Sifted(s, Other(ids)), id, title)
                = Sifted(Screen!Retitled(s, id, title), Other(ids))
<1> DEFINE T(s) == Screen!Retitled(s, id, title)
           F(s) == Sifted(s, Other(ids))
           G == {s \in Seq(Titled) : T(F(s)) = F(T(s))}
<1>1. <<>> \in G
    BY SiftOfEmpty, RetitledEmpty, EmptySeq
<1>2. ASSUME NEW s \in Seq(Titled), NEW e \in Titled, s \in G
      PROVE  Append(s, e) \in G
  <2> DEFINE o == One(e, id, title)
  <2>1. o \in Titled /\ o.id = e.id
      BY OneIsTitled
  <2>2. e \in Other(ids) <=> o \in Other(ids)
      BY <2>1 DEF Other
  <2>3. F(s) \in Seq(Titled) /\ T(s) \in Seq(Titled) /\ Append(s, e) \in Seq(Titled)
      BY SiftIsPart, RetitledIs, AppendProperties
  <2>4. F(Append(s, e)) = IF e \in Other(ids) THEN Append(F(s), e) ELSE F(s)
      BY SiftOfAppend
  <2>5. F(Append(T(s), o)) = IF o \in Other(ids) THEN Append(F(T(s)), o) ELSE F(T(s))
    <3> HIDE DEF T, o
    <3> QED
        BY <2>1, <2>3, SiftOfAppend
  <2>6. T(Append(s, e)) = Append(T(s), o)
      BY RetitledAppend
  <2>7. T(Append(F(s), e)) = Append(T(F(s)), o)
    <3> HIDE DEF F
    <3> QED
        BY <2>3, RetitledAppend
  <2>8. T(F(s)) = F(T(s))
      BY <1>2
  <2>9. T(F(Append(s, e))) = F(T(Append(s, e)))
    <3> HIDE DEF F, T, o
    <3>1. CASE e \in Other(ids)
      <4>1. T(F(Append(s, e))) = Append(T(F(s)), o)
          BY <3>1, <2>4, <2>7
      <4>2. F(T(Append(s, e))) = Append(F(T(s)), o)
          BY <3>1, <2>2, <2>5, <2>6
      <4> QED
          BY <4>1, <4>2, <2>8
    <3>2. CASE e \notin Other(ids)
        BY <3>2, <2>2, <2>4, <2>5, <2>6, <2>8
    <3> QED
        BY <3>1, <3>2
  <2> QED
      BY <2>3, <2>9
<1>3. Seq(Titled) \subseteq G
  <2> HIDE DEF G
  <2> QED
      BY <1>1, <1>2, SeqsGrow
<1> QED
    BY <1>3

LEMMA WithoutSifts ==
    ASSUME NEW s \in Seq(Titled), NEW id
    PROVE  Screen!Without(s, id) = Sifted(s, Other({id}))
<1> DEFINE Body(f) == f = [n \in 0 .. Len(s) |->
                             IF n = 0 THEN <<>>
                             ELSE IF s[n].id # id THEN Append(f[n - 1], s[n]) ELSE f[n - 1]]
<1>1. Len(s) \in Nat /\ \A n \in 1 .. Len(s) : s[n] \in Titled
    BY LenProperties, ElementOfSeq
<1>2. \A n \in 0 .. Len(s) : n # 0 => n \in 1 .. Len(s)
    BY <1>1
<1>3. \A n \in 0 .. Len(s) : n # 0 => (s[n].id # id <=> s[n] \in Other({id}))
    BY <1>1, <1>2 DEF Other
<1>4. ASSUME NEW f
      PROVE  Body(f) <=> Sifts(f, s, Other({id}))
  <2>1. [n \in 0 .. Len(s) |->
            IF n = 0 THEN <<>>
            ELSE IF s[n].id # id THEN Append(f[n - 1], s[n]) ELSE f[n - 1]]
        = [n \in 0 .. Len(s) |->
            IF n = 0 THEN <<>>
            ELSE IF s[n] \in Other({id}) THEN Append(f[n - 1], s[n]) ELSE f[n - 1]]
      BY <1>3
  <2> QED
      BY <2>1 DEF Sifts
<1>5. PICK g : Sifts(g, s, Other({id})) /\ \A h : Sifts(h, s, Other({id})) => h = g
  <2>1. OneSift(s, Other({id}))
      BY SiftIsOne
  <2> QED
      BY <2>1 DEF OneSift
<1>6. g = CHOOSE h : Sifts(h, s, Other({id}))
    BY <1>5
<1>7. g = CHOOSE h : Body(h)
  <2> HIDE DEF Body
  <2> QED
      BY <1>4, <1>5
<1> QED
    BY <1>6, <1>7 DEF Sifted, Screen!Without

-----------------------------------------------------------------------------
(* The inductive invariant of the screen *)

Kinds == {"fetch", "create", "update", "delete"}
Changes == {"create", "update", "delete"}

ScreenCall == [at : {"unused", "sent", "answered", "lost", "done"}, op : Kinds \cup {"none"},
               id : Titles, reply : Seq(Titled), clean : BOOLEAN]

ScreenTypes ==
    /\ notes \in Seq(Titled) /\ server \in Seq(Titled)
    /\ op \in [Ops -> ScreenCall]
    /\ agreed \in BOOLEAN
    /\ \A c \in Ops : op[c].at # "unused" => op[c].op \in Kinds

Ids(s) == {s[i].id : i \in DOMAIN s}
Answered(kind) == {c \in Ops : op[c].op = kind /\ op[c].at = "answered"}

\* The buttons of a create and of an update are disabled while one runs.
OneAtATime ==
    \A c, d \in Ops :
       (/\ op[c].op = op[d].op /\ op[c].op \in {"create", "update"}
        /\ op[c].at \in {"sent", "answered"} /\ op[d].at \in {"sent", "answered"}) => c = d

\* Nobody knows a note that the backend has not made.
Unmade(c) == op[c].at = "unused" \/ (op[c].op = "create" /\ op[c].at \in {"sent", "lost"})
UnmadeIsUnknown ==
    \A c \in Ops : Unmade(c) =>
       /\ c \notin Ids(notes) /\ c \notin Ids(server)
       /\ \A d \in Ops : c \notin Ids(op[d].reply) /\ (d # c => op[d].id # c)

CreatesAreOwn ==
    \A c \in Ops : op[c].op = "create" =>
       op[c].id = c /\ (op[c].at = "answered" => op[c].reply = <<Screen!Note(c, c)>>)

\* A note made and not shown yet is neither listed nor being changed.
NewIsTop ==
    agreed => \A c \in Answered("create") :
                 c \notin Ids(notes) /\ \A d \in Ops \ {c} : op[d].id # c

\* No change was made since the backend answered a fetch that is clean.
CleanFetches ==
    \A f \in Ops :
       (op[f].op = "fetch" /\ op[f].clean /\ op[f].at \in {"sent", "answered"}) =>
          /\ \A kind \in Changes : Answered(kind) = {}
          /\ op[f].at = "answered" => op[f].reply = server

\* The list with the answers under way applied to it is the server's.
Gone == {op[c].id : c \in Answered("delete")}
Kept == Sifted(notes, Other(Gone))
Settles(rest) ==
    /\ Answered("update") = {} => rest = Kept
    /\ \A u \in Answered("update") : rest = Screen!Retitled(Kept, op[u].id, u)
Tops(rest) ==
    /\ Answered("create") = {} => server = rest
    /\ \A c \in Answered("create") : server = <<Screen!Note(c, c)>> \o rest
AnswersMakeIt == agreed => \E rest \in Seq(Titled) : Settles(rest) /\ Tops(rest)

ScreenInv ==
    /\ ScreenTypes
    /\ OneAtATime
    /\ UnmadeIsUnknown
    /\ CreatesAreOwn
    /\ NewIsTop
    /\ CleanFetches
    /\ AnswersMakeIt

-----------------------------------------------------------------------------
(* The screen's part of a behaviour, and its steps *)

LEMMA ScreenPart == AppSpec => Screen!Init /\ [][Screen!Next]_screen_vars
<1>1. AppInit => Screen!Init
    BY DEF AppInit
<1>2. [AppNext]_<<part, vars, store_vars, screen_vars>> => [Screen!Next]_screen_vars
    BY DEF AppNext
<1> QED
    BY <1>1, <1>2, PTL DEF AppSpec

\* The fields of a call, and of one that moves.
LEMMA CallFields ==
    ASSUME ScreenTypes, NEW c \in Ops
    PROVE  /\ op[c] \in ScreenCall
           /\ op[c].at \in {"unused", "sent", "answered", "lost", "done"}
           /\ op[c].op \in Kinds \cup {"none"} /\ op[c].id \in Titles
           /\ op[c].reply \in Seq(Titled) /\ op[c].clean \in BOOLEAN
BY DEF ScreenTypes, ScreenCall

LEMMA CallMoves ==
    ASSUME NEW q \in ScreenCall, NEW at \in {"unused", "sent", "answered", "lost", "done"}
    PROVE  LET n == [q EXCEPT !.at = at] IN
           /\ n \in ScreenCall /\ n.at = at /\ n.op = q.op /\ n.id = q.id
           /\ n.reply = q.reply /\ n.clean = q.clean
BY DEF ScreenCall

\* Nothing answered, nothing shown and nothing stored changes.
LEMMA SameAnswers ==
    ASSUME AnswersMakeIt, agreed' => agreed, notes' = notes, server' = server,
           \A c \in Ops : op'[c].id = op[c].id \/ op[c].at # "answered",
           agreed' => \A kind \in Changes : Answered(kind)' = Answered(kind)
    PROVE  AnswersMakeIt'
<1> SUFFICES ASSUME agreed'
             PROVE  \E rest \in Seq(Titled) : Settles(rest)' /\ Tops(rest)'
    BY DEF AnswersMakeIt
<1>1. PICK rest \in Seq(Titled) : Settles(rest) /\ Tops(rest)
    BY DEF AnswersMakeIt
<1>2. /\ Answered("create")' = Answered("create") /\ Answered("update")' = Answered("update")
      /\ Answered("delete")' = Answered("delete")
    BY DEF Changes
<1>3. \A kind \in Changes : \A c \in Answered(kind) : c \in Ops /\ op'[c].id = op[c].id
    BY DEF Answered
<1>4. Gone' = Gone
    BY <1>2, <1>3 DEF Gone, Changes
<1>5. Kept' = Kept
    BY <1>4 DEF Kept
<1>6. Settles(rest)'
    BY <1>1, <1>2, <1>3, <1>5 DEF Settles, Changes
<1>7. Tops(rest)'
    BY <1>1, <1>2 DEF Tops
<1> QED
    BY <1>6, <1>7

LEMMA ScreenInitial == Screen!Init => ScreenInv
<1> SUFFICES ASSUME Screen!Init
             PROVE  ScreenInv
    OBVIOUS
<1>1. \A c \in Ops : op[c] = Screen!NoCall
    BY DEF Screen!Init
<1>2. /\ Screen!NoCall.at = "unused" /\ Screen!NoCall.op = "none" /\ Screen!NoCall.id = Before
      /\ Screen!NoCall.reply = <<>> /\ Screen!NoCall.clean = FALSE
    BY DEF Screen!NoCall
<1>3. Screen!NoCall \in ScreenCall
    BY EmptySeq DEF Screen!NoCall, ScreenCall, Titles
<1>4. Screen!Note(Before, Before) \in Titled /\ Screen!Note(Before, Before).id = Before
    BY DEF Titled, Screen!Note
<1>5. <<Screen!Note(Before, Before)>> \in Seq(Titled) /\ <<>> \in Seq(Titled)
  <2> DEFINE n == Screen!Note(Before, Before)
  <2>1. n \in Titled
      BY <1>4
  <2> HIDE DEF n
  <2>2. <<n>> \in Seq(Titled)
      BY <2>1
  <2> QED
      BY <2>2, EmptySeq DEF n
<1>6. Ids(<<>>) = {} /\ Ids(<<Screen!Note(Before, Before)>>) = {Before}
  <2>1. DOMAIN <<Screen!Note(Before, Before)>> = {1}
      OBVIOUS
  <2> QED
      BY <2>1, <1>4 DEF Ids
<1>7. ScreenTypes
    BY <1>1, <1>2, <1>3, <1>5 DEF Screen!Init, ScreenTypes
<1>8. OneAtATime /\ CreatesAreOwn /\ CleanFetches
    BY <1>1, <1>2 DEF OneAtATime, CreatesAreOwn, CleanFetches
<1>9. UnmadeIsUnknown
    BY <1>1, <1>2, <1>6, BeforeAssumption DEF UnmadeIsUnknown, Screen!Init
<1>10. NewIsTop /\ AnswersMakeIt
    BY DEF NewIsTop, AnswersMakeIt, Screen!Init
<1> QED
    BY <1>7, <1>8, <1>9, <1>10 DEF ScreenInv

LEMMA BeginKeeps ==
    ASSUME ScreenInv, NEW c \in Ops, NEW kind \in Kinds, NEW id \in Titles,
           Screen!Begin(c, kind, id),
           kind \in {"create", "update"} => Screen!Open(kind) = {},
           IF kind = "create" THEN id = c ELSE id = Before \/ id \in Screen!Listed
    PROVE  ScreenInv'
<1> DEFINE new == [at |-> "sent", op |-> kind, id |-> id, reply |-> <<>>,
                   clean |-> Screen!Pending = {}]
<1>1. /\ op[c].at = "unused" /\ op' = [op EXCEPT ![c] = new]
      /\ notes' = notes /\ server' = server /\ agreed' = agreed
    BY DEF Screen!Begin
<1>2. /\ new \in ScreenCall /\ new.at = "sent" /\ new.op = kind /\ new.id = id
      /\ new.reply = <<>> /\ new.clean = (Screen!Pending = {})
    BY EmptySeq DEF ScreenCall
<1> HIDE DEF new
<1>3. op'[c] = new /\ \A d \in Ops \ {c} : op'[d] = op[d]
    BY <1>1 DEF ScreenInv, ScreenTypes
<1>4. ScreenTypes'
    BY <1>1, <1>2, <1>3 DEF ScreenInv, ScreenTypes
<1>5. \A d \in Ops : op'[d].at = "answered" <=> op[d].at = "answered"
    BY <1>1, <1>2, <1>3
<1>6. \A k \in Changes : Answered(k)' = Answered(k)
    BY <1>1, <1>2, <1>3 DEF Answered
<1>7. OneAtATime'
  <2>1. ASSUME NEW d \in Ops, d # c, kind \in {"create", "update"}, op[d].op = kind
        PROVE  op[d].at \notin {"sent", "answered"}
      BY <2>1 DEF Screen!Open
  <2> QED
      BY <1>2, <1>3, <2>1 DEF OneAtATime, ScreenInv
<1>8. Unmade(c)
    BY <1>1 DEF Unmade
<1>9. \A d \in Ops : Unmade(d)' => Unmade(d)
    BY <1>8, <1>2, <1>3 DEF Unmade
<1>10. Ids(<<>>) = {}
    BY DEF Ids
<1>11. Screen!Listed = Ids(notes)
    BY DEF Screen!Listed, Ids
<1>12. \A d \in Ops \ {c} : Unmade(d) => id # d
    BY <1>11, BeforeAssumption DEF ScreenInv, UnmadeIsUnknown
<1>13. UnmadeIsUnknown'
  <2> SUFFICES ASSUME NEW d \in Ops, Unmade(d)'
               PROVE  /\ d \notin Ids(notes) /\ d \notin Ids(server)
                      /\ \A e \in Ops : d \notin Ids(op'[e].reply) /\ (e # d => op'[e].id # d)
      BY <1>1 DEF UnmadeIsUnknown
  <2>1. Unmade(d)
      BY <1>9
  <2>2. /\ d \notin Ids(notes) /\ d \notin Ids(server)
        /\ \A e \in Ops : d \notin Ids(op[e].reply) /\ (e # d => op[e].id # d)
      BY <2>1 DEF ScreenInv, UnmadeIsUnknown
  <2> QED
      BY <2>1, <2>2, <1>2, <1>3, <1>10, <1>12
<1>14. CreatesAreOwn'
    BY <1>2, <1>3 DEF CreatesAreOwn, ScreenInv
<1>15. NewIsTop'
  <2> SUFFICES ASSUME agreed, NEW d \in Answered("create")
               PROVE  d \notin Ids(notes) /\ \A e \in Ops \ {d} : op'[e].id # d
      BY <1>1, <1>6 DEF NewIsTop, Changes
  <2>1. d \in Ops /\ op[d].at = "answered" /\ op[d].op = "create" /\ d # c
      BY <1>1 DEF Answered
  <2>2. d \notin Ids(notes) /\ \A e \in Ops \ {d} : op[e].id # d
      BY DEF ScreenInv, NewIsTop
  <2>3. id # d
      BY <2>1, <2>2, <1>11, BeforeAssumption
  <2> QED
      BY <2>1, <2>2, <2>3, <1>2, <1>3
<1>16. CleanFetches'
  <2>1. Screen!Pending = {} => \A k \in Changes : Answered(k) = {}
      BY DEF Screen!Pending, Answered, Changes
  <2> QED
      BY <2>1, <1>1, <1>2, <1>3, <1>6 DEF CleanFetches, ScreenInv
<1>17. AnswersMakeIt'
    BY <1>1, <1>3, <1>6, SameAnswers DEF ScreenInv
<1> QED
    BY <1>4, <1>7, <1>13, <1>14, <1>15, <1>16, <1>17 DEF ScreenInv

\* A call that is lost, refused, or never served; an answer that is.
LEMMA SetAsideKeeps ==
    ASSUME ScreenInv, NEW c \in Ops, NEW at \in {"lost", "done"},
           op[c].at \in {"sent", "answered", "lost"}, op' = [op EXCEPT ![c].at = at],
           at = "lost" => op[c].at = "sent",
           notes' = notes, server' = server, agreed' \in BOOLEAN,
           agreed' => agreed /\ (op[c].at = "answered" => op[c].op = "fetch")
    PROVE  ScreenInv'
<1>1. /\ op[c] \in ScreenCall /\ op[c].op \in Kinds
      /\ \A d \in Ops : op[d].at \in {"unused", "sent", "answered", "lost", "done"}
    BY CallFields DEF ScreenInv, ScreenTypes
<1>2. \A d \in Ops \ {c} : op'[d] = op[d]
    BY DEF ScreenInv, ScreenTypes
<1>3. /\ op'[c] \in ScreenCall /\ op'[c].at = at /\ op'[c].op = op[c].op
      /\ op'[c].id = op[c].id /\ op'[c].reply = op[c].reply /\ op'[c].clean = op[c].clean
  <2>1. op'[c] = [op[c] EXCEPT !.at = at]
      BY DEF ScreenInv, ScreenTypes
  <2> DEFINE q == op[c]
  <2>2. q \in ScreenCall /\ at \in {"unused", "sent", "answered", "lost", "done"}
      BY <1>1
  <2> HIDE DEF q
  <2>3. LET n == [q EXCEPT !.at = at] IN
        /\ n \in ScreenCall /\ n.at = at /\ n.op = q.op /\ n.id = q.id
        /\ n.reply = q.reply /\ n.clean = q.clean
      BY <2>2, CallMoves
  <2> QED
      BY <2>1, <2>3 DEF q
<1>4. /\ \A d \in Ops : op'[d].op = op[d].op /\ op'[d].id = op[d].id
                        /\ op'[d].reply = op[d].reply /\ op'[d].clean = op[d].clean
      /\ \A d \in Ops \ {c} : op'[d].at = op[d].at
    BY <1>2, <1>3
<1>5. ScreenTypes'
  <2>1. op' \in [Ops -> ScreenCall]
      BY <1>3 DEF ScreenInv, ScreenTypes
  <2>2. \A d \in Ops : op'[d].at # "unused" => op'[d].op \in Kinds
      BY <1>1, <1>4 DEF ScreenInv, ScreenTypes
  <2> QED
      BY <2>1, <2>2 DEF ScreenInv, ScreenTypes
<1>6. \A k \in Changes : Answered(k)' \subseteq Answered(k)
    BY <1>3, <1>4 DEF Answered
<1>7. agreed' => \A k \in Changes : Answered(k)' = Answered(k)
    BY <1>3, <1>4 DEF Answered, Changes
<1>8. OneAtATime'
    BY <1>3, <1>4 DEF OneAtATime, ScreenInv
<1>9. \A d \in Ops : Unmade(d)' => Unmade(d)
    BY <1>3, <1>4 DEF Unmade
<1>10. UnmadeIsUnknown'
    BY <1>4, <1>9 DEF UnmadeIsUnknown, ScreenInv
<1>11. CreatesAreOwn'
    BY <1>3, <1>4 DEF CreatesAreOwn, ScreenInv
<1>12. NewIsTop'
    BY <1>4, <1>7 DEF NewIsTop, ScreenInv, Changes
<1>13. CleanFetches'
    BY <1>3, <1>4, <1>6 DEF CleanFetches, ScreenInv
<1>14. AnswersMakeIt'
    BY <1>4, <1>7, SameAnswers DEF ScreenInv
<1> QED
    BY <1>5, <1>8, <1>10, <1>11, <1>12, <1>13, <1>14 DEF ScreenInv

LEMMA RefuseKeeps ==
    ASSUME ScreenInv, NEW c \in Ops,
           Screen!Refuse(c) \/ Screen!Lose(c) \/ Screen!NeverServed(c)
    PROVE  ScreenInv'
<1>0. op[c].op \in Kinds \cup {"none"} /\ op \in [Ops -> ScreenCall] /\ agreed \in BOOLEAN
    BY CallFields DEF ScreenInv, ScreenTypes
<1>1. CASE Screen!Refuse(c)
  <2>1. /\ op[c].at \in {"sent", "lost"} /\ op' = [op EXCEPT ![c].at = "done"]
        /\ notes' = notes /\ server' = server /\ agreed' = agreed
      BY <1>1 DEF Screen!Refuse
  <2> QED
      BY <2>1, <1>0, SetAsideKeeps
<1>2. CASE Screen!Lose(c)
  <2> DEFINE at == IF op[c].at = "sent" THEN "lost" ELSE "done"
  <2>1. /\ op[c].at \in {"sent", "answered"} /\ op' = [op EXCEPT ![c].at = at]
        /\ notes' = notes /\ server' = server
        /\ agreed' = (agreed /\ (op[c].at = "answered" => op[c].op = "fetch"))
      BY <1>2 DEF Screen!Lose
  <2>2. at \in {"lost", "done"} /\ (at = "lost" => op[c].at = "sent")
      OBVIOUS
  <2>3. agreed' \in BOOLEAN /\ (agreed' => agreed /\ (op[c].at = "answered" => op[c].op = "fetch"))
      BY <2>1
  <2> HIDE DEF at
  <2> QED
      BY <2>1, <2>2, <2>3, SetAsideKeeps
<1>3. CASE Screen!NeverServed(c)
  <2>1. /\ op[c].at = "lost" /\ op' = [op EXCEPT ![c].at = "done"]
        /\ notes' = notes /\ server' = server /\ agreed' = agreed
      BY <1>3 DEF Screen!NeverServed
  <2> QED
      BY <2>1, <1>0, SetAsideKeeps
<1> QED
    BY <1>1, <1>2, <1>3

-----------------------------------------------------------------------------
(* Notes by their ids *)

LEMMA IdsOfRetitled ==
    ASSUME NEW s \in Seq(Titled), NEW id \in Titles, NEW title \in Titles
    PROVE  Ids(Screen!Retitled(s, id, title)) = Ids(s)
<1> DEFINE t == Screen!Retitled(s, id, title)
<1>1. DOMAIN t = DOMAIN s /\ DOMAIN s = 1 .. Len(s) /\ \A i \in 1 .. Len(s) : t[i].id = s[i].id
    BY RetitledIs, LenProperties
<1> HIDE DEF t
<1>2. Ids(t) = Ids(s)
    BY <1>1 DEF Ids
<1> QED
    BY <1>2 DEF t

LEMMA IdsOfWithout ==
    ASSUME NEW s \in Seq(Titled), NEW id
    PROVE  Screen!Without(s, id) \in Seq(Titled) /\ Ids(Screen!Without(s, id)) \subseteq Ids(s)
<1> DEFINE T == Other({id})
           t == Sifted(s, T)
<1> HIDE DEF T
<1>1. t \in Seq(Titled) /\ \A i \in DOMAIN t : \E j \in DOMAIN s : t[i] = s[j]
    BY SiftIsPart
<1> HIDE DEF t
<1>2. Ids(t) \subseteq Ids(s)
    BY <1>1 DEF Ids
<1> QED
    BY <1>1, <1>2, WithoutSifts DEF t, T

LEMMA IdsOfJoined ==
    ASSUME NEW s \in Seq(Titled), NEW t \in Seq(Titled)
    PROVE  s \o t \in Seq(Titled) /\ Ids(s \o t) \subseteq Ids(s) \cup Ids(t)
<1> DEFINE j == s \o t
<1>1. /\ j \in Seq(Titled) /\ Len(j) = Len(s) + Len(t) /\ Len(s) \in Nat /\ Len(t) \in Nat
      /\ \A i \in 1 .. Len(j) : j[i] = IF i <= Len(s) THEN s[i] ELSE t[i - Len(s)]
    BY ConcatProperties, LenProperties
<1>2. DOMAIN j = 1 .. Len(j) /\ DOMAIN s = 1 .. Len(s) /\ DOMAIN t = 1 .. Len(t)
    BY <1>1, LenProperties
<1> HIDE DEF j
<1>3. ASSUME NEW i \in DOMAIN j
      PROVE  j[i].id \in Ids(s) \cup Ids(t)
  <2>1. CASE i <= Len(s)
    <3>1. i \in DOMAIN s /\ j[i] = s[i]
        BY <2>1, <1>1, <1>2
    <3> QED
        BY <3>1 DEF Ids
  <2>2. CASE ~(i <= Len(s))
    <3>1. i - Len(s) \in DOMAIN t /\ j[i] = t[i - Len(s)]
        BY <2>2, <1>1, <1>2
    <3> QED
        BY <3>1 DEF Ids
  <2> QED
      BY <2>1, <2>2
<1>4. Ids(j) \subseteq Ids(s) \cup Ids(t)
    BY <1>3 DEF Ids
<1> QED
    BY <1>1, <1>4 DEF j

LEMMA IdsOfOne ==
    ASSUME NEW id \in Titles, NEW title \in Titles
    PROVE  /\ Screen!Note(id, title) \in Titled /\ Screen!Note(id, title).id = id
           /\ <<Screen!Note(id, title)>> \in Seq(Titled)
           /\ Ids(<<Screen!Note(id, title)>>) = {id}
<1> DEFINE n == Screen!Note(id, title)
<1>1. n \in Titled /\ n.id = id
    BY DEF Titled, Titles, Screen!Note
<1> HIDE DEF n
<1>2. <<n>> \in Seq(Titled) /\ DOMAIN <<n>> = {1} /\ <<n>>[1] = n
    BY <1>1
<1>3. Ids(<<n>>) = {id}
    BY <1>1, <1>2 DEF Ids
<1> QED
    BY <1>1, <1>2, <1>3 DEF n

-----------------------------------------------------------------------------
(* The backend serves a call *)

LEMMA KeptTwice ==
    ASSUME NEW s \in Seq(Titled), NEW ids, NEW id
    PROVE  /\ Sifted(s, Other(ids)) \in Seq(Titled)
           /\ Screen!Without(Sifted(s, Other(ids)), id) = Sifted(s, Other(ids \cup {id}))
           /\ Sifted(Screen!Without(s, id), Other(ids)) = Sifted(s, Other(ids \cup {id}))
<1> DEFINE A == Other(ids)
           B == Other({id})
           k == Sifted(s, A)
<1>1. A \cap B = Other(ids \cup {id}) /\ B \cap A = Other(ids \cup {id})
    BY DEF Other
<1> HIDE DEF A, B
<1>2. k \in Seq(Titled)
    BY SiftIsPart
<1>3. Sifted(Sifted(s, A), B) = Sifted(s, A \cap B)
    BY SiftTwice
<1>4. Sifted(Sifted(s, B), A) = Sifted(s, B \cap A)
    BY SiftTwice
<1>5. Screen!Without(s, id) = Sifted(s, B)
    BY WithoutSifts DEF B
<1>6. Screen!Without(k, id) = Sifted(k, B)
  <2> HIDE DEF k
  <2> QED
      BY <1>2, WithoutSifts DEF B
<1>7. Screen!Without(Sifted(s, A), id) = Sifted(s, Other(ids \cup {id}))
    BY <1>1, <1>3, <1>6
<1>8. Sifted(Screen!Without(s, id), A) = Sifted(s, Other(ids \cup {id}))
    BY <1>1, <1>4, <1>5
<1> QED
    BY <1>2, <1>7, <1>8 DEF A

\* What the backend's serving a call leaves of the calls.
LEMMA ServeMoves ==
    ASSUME ScreenInv, NEW c \in Ops, Screen!Serve(c), Screen!Served(c).reply \in Seq(Titled)
    PROVE  /\ op[c].at \in {"sent", "lost"} /\ op[c].op \in Kinds
           /\ op' \in [Ops -> ScreenCall]
           /\ op'[c].at = IF op[c].at = "lost" THEN "done" ELSE "answered"
           /\ op'[c].reply = Screen!Served(c).reply /\ op'[c].clean = op[c].clean
           /\ \A d \in Ops : op'[d].op = op[d].op /\ op'[d].id = op[d].id
           /\ \A d \in Ops \ {c} : /\ op'[d].at = op[d].at /\ op'[d].reply = op[d].reply
                                   /\ op'[d].clean = (op[d].clean /\ op[c].op = "fetch")
<1> DEFINE r == Screen!Served(c).reply
           at == IF op[c].at = "lost" THEN "done" ELSE "answered"
           moved == [op[c] EXCEPT !.at = at, !.reply = r]
           rest(d) == [op[d] EXCEPT !.clean = @ /\ op[c].op = "fetch"]
<1>1. op[c].at \in {"sent", "lost"} /\ op' = [d \in Ops |-> IF d = c THEN moved ELSE rest(d)]
    BY DEF Screen!Serve
<1>2. \A d \in Ops : op[d] \in ScreenCall
    BY CallFields DEF ScreenInv
<1>3. op[c].op \in Kinds
    BY <1>1 DEF ScreenInv, ScreenTypes
<1> HIDE DEF r
<1>4. /\ moved \in ScreenCall /\ moved.at = at /\ moved.reply = r /\ moved.op = op[c].op
      /\ moved.id = op[c].id /\ moved.clean = op[c].clean
  <2> DEFINE q == op[c]
             t == at
  <2>1. q \in ScreenCall /\ t \in {"done", "answered"} /\ r \in Seq(Titled)
      BY <1>2 DEF r
  <2> HIDE DEF q, t
  <2> DEFINE m == [q EXCEPT !.at = t, !.reply = r]
  <2>2. /\ m \in ScreenCall /\ m.at = t /\ m.reply = r /\ m.op = q.op
        /\ m.id = q.id /\ m.clean = q.clean
      BY <2>1 DEF ScreenCall
  <2> QED
      BY <2>2 DEF q, t
<1>5. ASSUME NEW d \in Ops
      PROVE  /\ rest(d) \in ScreenCall /\ rest(d).at = op[d].at /\ rest(d).op = op[d].op
             /\ rest(d).id = op[d].id /\ rest(d).reply = op[d].reply
             /\ rest(d).clean = (op[d].clean /\ op[c].op = "fetch")
  <2> DEFINE q == op[d]
             b == op[d].clean /\ op[c].op = "fetch"
  <2>1. q \in ScreenCall /\ b \in BOOLEAN
      BY <1>2 DEF ScreenCall
  <2>2. rest(d) = [q EXCEPT !.clean = b]
      OBVIOUS
  <2> HIDE DEF q, b
  <2> DEFINE m == [q EXCEPT !.clean = b]
  <2>3. /\ m \in ScreenCall /\ m.at = q.at /\ m.reply = q.reply /\ m.op = q.op
        /\ m.id = q.id /\ m.clean = b
      BY <2>1 DEF ScreenCall
  <2> QED
      BY <2>2, <2>3 DEF q, b
<1>6. op'[c] = moved /\ \A d \in Ops \ {c} : op'[d] = rest(d)
    BY <1>1
<1> HIDE DEF moved, rest, at
<1>7. op' \in [Ops -> ScreenCall]
    BY <1>1, <1>4, <1>5
<1> QED
    BY <1>1, <1>3, <1>4, <1>5, <1>6, <1>7 DEF at, r

\* What all four have in common: nobody hears of a note that is not made.
LEMMA ServeTells ==
    ASSUME ScreenInv, NEW c \in Ops, Screen!Serve(c),
           server' \in Seq(Titled), Screen!Served(c).reply \in Seq(Titled),
           op[c].op = "create" => Screen!Served(c).reply = <<Screen!Note(c, c)>>,
           \A d \in Ops : (Unmade(d) /\ (d = c => op[c].op # "create")) =>
              d \notin Ids(server') /\ d \notin Ids(Screen!Served(c).reply)
    PROVE  ScreenTypes' /\ OneAtATime' /\ UnmadeIsUnknown' /\ CreatesAreOwn'
<1>1. /\ op[c].at \in {"sent", "lost"} /\ op[c].op \in Kinds
      /\ op' \in [Ops -> ScreenCall]
      /\ op'[c].at = IF op[c].at = "lost" THEN "done" ELSE "answered"
      /\ op'[c].reply = Screen!Served(c).reply
      /\ \A d \in Ops : op'[d].op = op[d].op /\ op'[d].id = op[d].id
      /\ \A d \in Ops \ {c} : op'[d].at = op[d].at /\ op'[d].reply = op[d].reply
    BY ServeMoves
<1>2. notes' = notes /\ agreed' \in BOOLEAN
    BY DEF Screen!Serve, ScreenInv, ScreenTypes
<1>3. ScreenTypes'
    BY <1>1, <1>2 DEF ScreenInv, ScreenTypes
<1>4. OneAtATime'
    BY <1>1 DEF ScreenInv, OneAtATime
<1>5. \A d \in Ops : Unmade(d)' => Unmade(d) /\ (d = c => op[c].op # "create")
    BY <1>1 DEF Unmade
<1>6. UnmadeIsUnknown'
    BY <1>1, <1>2, <1>5 DEF ScreenInv, UnmadeIsUnknown
<1>7. CreatesAreOwn'
    BY <1>1 DEF ScreenInv, CreatesAreOwn
<1> QED
    BY <1>3, <1>4, <1>6, <1>7

LEMMA ServeFetchKeeps ==
    ASSUME ScreenInv, NEW c \in Ops, Screen!Serve(c), op[c].op = "fetch"
    PROVE  ScreenInv'
<1>1. Screen!Served(c).rows = server /\ Screen!Served(c).reply = server
    BY DEF Screen!Served
<1>2. /\ server' = server /\ notes' = notes /\ server \in Seq(Titled)
      /\ agreed' => agreed
    BY <1>1 DEF Screen!Serve, ScreenInv, ScreenTypes
<1>3. ScreenTypes' /\ OneAtATime' /\ UnmadeIsUnknown' /\ CreatesAreOwn'
    BY <1>1, <1>2, ServeTells DEF ScreenInv, UnmadeIsUnknown
<1>4. /\ op[c].at \in {"sent", "lost"}
      /\ op'[c].at = IF op[c].at = "lost" THEN "done" ELSE "answered"
      /\ op'[c].reply = server /\ op'[c].clean = op[c].clean
      /\ \A d \in Ops : op'[d].op = op[d].op /\ op'[d].id = op[d].id
      /\ \A d \in Ops \ {c} : /\ op'[d].at = op[d].at /\ op'[d].reply = op[d].reply
                              /\ op'[d].clean = (op[d].clean /\ op[c].op = "fetch")
    BY <1>1, <1>2, ServeMoves
<1>5. \A k \in Changes : Answered(k)' = Answered(k)
    BY <1>4 DEF Answered, Changes
<1>6. NewIsTop'
    BY <1>2, <1>4, <1>5 DEF NewIsTop, ScreenInv, Changes
<1>7. CleanFetches'
    BY <1>2, <1>4, <1>5, ZenonT(60) DEF CleanFetches, ScreenInv
<1>8. AnswersMakeIt'
    BY <1>2, <1>4, <1>5, SameAnswers DEF ScreenInv
<1> QED
    BY <1>3, <1>6, <1>7, <1>8 DEF ScreenInv

\* A change leaves no fetch clean, and does not agree if its answer is lost.
LEMMA ServeSpoils ==
    ASSUME ScreenInv, NEW c \in Ops, Screen!Serve(c), NEW kind \in Changes, op[c].op = kind,
           Screen!Served(c).reply \in Seq(Titled)
    PROVE  /\ CleanFetches'
           /\ agreed' => agreed /\ op[c].at = "sent" /\ op'[c].at = "answered"
           /\ \A k \in Changes \ {kind} : Answered(k)' = Answered(k)
           /\ agreed' => Answered(kind)' = Answered(kind) \cup {c}
           /\ agreed' /\ kind \in {"create", "update"} =>
                Answered(kind) = {} /\ Answered(kind)' = {c}
<1>1. /\ op[c].at \in {"sent", "lost"}
      /\ op'[c].at = IF op[c].at = "lost" THEN "done" ELSE "answered"
      /\ \A d \in Ops : op'[d].op = op[d].op /\ op'[d].id = op[d].id
      /\ \A d \in Ops \ {c} : /\ op'[d].at = op[d].at
                              /\ op'[d].clean = (op[d].clean /\ op[c].op = "fetch")
    BY ServeMoves
<1>2. agreed' => agreed /\ op[c].at = "sent"
    BY <1>1 DEF Screen!Serve, Changes
<1>3. CleanFetches'
    BY <1>1 DEF CleanFetches, Changes
<1>4. \A k \in Changes \ {kind} : Answered(k)' = Answered(k)
    BY <1>1 DEF Answered
<1>5. agreed' => Answered(kind)' = Answered(kind) \cup {c}
    BY <1>1, <1>2 DEF Answered
<1>6. ASSUME agreed', kind \in {"create", "update"}
      PROVE  Answered(kind) = {}
    BY <1>2, <1>6 DEF Answered, ScreenInv, OneAtATime
<1> QED
    BY <1>1, <1>2, <1>3, <1>4, <1>5, <1>6

LEMMA ServeCreateKeeps ==
    ASSUME ScreenInv, NEW c \in Ops, Screen!Serve(c), op[c].op = "create"
    PROVE  ScreenInv'
<1> DEFINE top == <<Screen!Note(c, c)>>
<1>1. Screen!Served(c).rows = top \o server /\ Screen!Served(c).reply = top
    BY DEF Screen!Served
<1>2. server' = top \o server /\ notes' = notes /\ server \in Seq(Titled)
    BY <1>1 DEF Screen!Serve, ScreenInv, ScreenTypes
<1>3. /\ top \in Seq(Titled) /\ Ids(top) = {c}
      /\ server' \in Seq(Titled) /\ Ids(server') \subseteq {c} \cup Ids(server)
  <2>1. top \in Seq(Titled) /\ Ids(top) = {c}
      BY IdsOfOne DEF Titles
  <2> HIDE DEF top
  <2> QED
      BY <2>1, <1>2, IdsOfJoined
<1>4. /\ CleanFetches'
      /\ agreed' => agreed /\ op[c].at = "sent" /\ op'[c].at = "answered"
      /\ \A k \in Changes \ {"create"} : Answered(k)' = Answered(k)
      /\ agreed' => Answered("create") = {} /\ Answered("create")' = {c}
      /\ \A d \in Ops : op'[d].id = op[d].id
  <2> HIDE DEF top
  <2>1. "create" \in Changes /\ "create" \in {"create", "update"}
      BY DEF Changes
  <2>2. Screen!Served(c).reply \in Seq(Titled)
      BY <1>1, <1>3
  <2>3. \A d \in Ops : op'[d].id = op[d].id
      BY <2>2, ServeMoves
  <2>4. /\ CleanFetches'
        /\ agreed' => agreed /\ op[c].at = "sent" /\ op'[c].at = "answered"
        /\ \A k \in Changes \ {"create"} : Answered(k)' = Answered(k)
        /\ agreed' => Answered("create") = {} /\ Answered("create")' = {c}
      BY <2>1, <2>2, ServeSpoils
  <2> QED
      BY <2>1, <2>3, <2>4
<1>5. ScreenTypes' /\ OneAtATime' /\ UnmadeIsUnknown' /\ CreatesAreOwn'
  <2>1. ASSUME NEW d \in Ops, Unmade(d), d # c
        PROVE  d \notin Ids(server') /\ d \notin Ids(top)
      BY <2>1, <1>3 DEF ScreenInv, UnmadeIsUnknown
  <2> QED
      BY <1>1, <1>3, <2>1, ServeTells
<1>6. op[c].at \in {"sent", "lost"}
    BY DEF Screen!Serve
<1>7. /\ c \notin Ids(notes) /\ \A d \in Ops \ {c} : op[d].id # c
    BY <1>6 DEF ScreenInv, UnmadeIsUnknown, Unmade
<1>8. NewIsTop'
    BY <1>2, <1>4, <1>7 DEF NewIsTop
<1>9. AnswersMakeIt'
  <2> SUFFICES ASSUME agreed'
               PROVE  \E rest \in Seq(Titled) : Settles(rest)' /\ Tops(rest)'
      BY DEF AnswersMakeIt
  <2>1. PICK rest \in Seq(Titled) : Settles(rest) /\ Tops(rest)
      BY <1>4 DEF AnswersMakeIt, ScreenInv
  <2>2. Answered("update")' = Answered("update") /\ Answered("delete")' = Answered("delete")
      BY <1>4 DEF Changes
  <2>3. Gone' = Gone
      BY <2>2, <1>4 DEF Gone, Answered
  <2>4. Settles(rest)'
      BY <2>1, <2>2, <2>3, <1>2, <1>4 DEF Settles, Kept, Answered
  <2>5. Tops(rest)'
      BY <2>1, <1>2, <1>4 DEF Tops
  <2> QED
      BY <2>4, <2>5
<1> QED
    BY <1>4, <1>5, <1>8, <1>9 DEF ScreenInv

LEMMA ServeUpdateKeeps ==
    ASSUME ScreenInv, NEW c \in Ops, Screen!Serve(c), op[c].op = "update"
    PROVE  ScreenInv'
<1> DEFINE id == op[c].id
           one == <<Screen!Note(id, c)>>
<1>0. id \in Titles /\ c \in Titles
    BY CallFields DEF ScreenInv, Titles
<1>1. Screen!Served(c).rows = Screen!Retitled(server, id, c) /\ Screen!Served(c).reply = one
    BY DEF Screen!Served
<1>2. /\ server' = Screen!Retitled(server, id, c) /\ notes' = notes
      /\ server \in Seq(Titled) /\ notes \in Seq(Titled)
    BY <1>1 DEF Screen!Serve, ScreenInv, ScreenTypes
<1>3. /\ one \in Seq(Titled) /\ Ids(one) = {id}
      /\ server' \in Seq(Titled) /\ Ids(server') = Ids(server)
  <2>1. one \in Seq(Titled) /\ Ids(one) = {id}
      BY <1>0, IdsOfOne
  <2> HIDE DEF one, id
  <2>2. server' \in Seq(Titled)
      BY <1>0, <1>2, RetitledIs
  <2> QED
      BY <2>1, <2>2, <1>0, <1>2, IdsOfRetitled
<1>4. /\ CleanFetches'
      /\ agreed' => agreed /\ op[c].at = "sent" /\ op'[c].at = "answered"
      /\ \A k \in Changes \ {"update"} : Answered(k)' = Answered(k)
      /\ agreed' => Answered("update") = {} /\ Answered("update")' = {c}
      /\ \A d \in Ops : op'[d].id = op[d].id
  <2> HIDE DEF one
  <2>1. "update" \in Changes /\ "update" \in {"create", "update"}
      BY DEF Changes
  <2>2. Screen!Served(c).reply \in Seq(Titled)
      BY <1>1, <1>3
  <2>3. \A d \in Ops : op'[d].id = op[d].id
      BY <2>2, ServeMoves
  <2>4. /\ CleanFetches'
        /\ agreed' => agreed /\ op[c].at = "sent" /\ op'[c].at = "answered"
        /\ \A k \in Changes \ {"update"} : Answered(k)' = Answered(k)
        /\ agreed' => Answered("update") = {} /\ Answered("update")' = {c}
      BY <2>1, <2>2, ServeSpoils
  <2> QED
      BY <2>1, <2>3, <2>4
<1>5. ScreenTypes' /\ OneAtATime' /\ UnmadeIsUnknown' /\ CreatesAreOwn'
  <2>1. op[c].at \in {"sent", "lost"}
      BY DEF Screen!Serve
  <2>2. \A d \in Ops : Unmade(d) => d # c
      BY <2>1 DEF Unmade
  <2>3. \A d \in Ops : Unmade(d) => d \notin Ids(server') /\ d \notin Ids(one)
      BY <2>2, <1>3 DEF ScreenInv, UnmadeIsUnknown
  <2> HIDE DEF one
  <2> QED
      BY <1>1, <1>3, <2>3, ServeTells
<1>6. NewIsTop'
    BY <1>2, <1>4 DEF NewIsTop, ScreenInv, Changes
<1>7. AnswersMakeIt'
  <2> SUFFICES ASSUME agreed'
               PROVE  \E rest \in Seq(Titled) : Settles(rest)' /\ Tops(rest)'
      BY DEF AnswersMakeIt
  <2>1. PICK rest \in Seq(Titled) : Settles(rest) /\ Tops(rest)
      BY <1>4 DEF AnswersMakeIt, ScreenInv
  <2>0. PICK newer \in Seq(Titled) : newer = Screen!Retitled(rest, id, c)
    <3> HIDE DEF id
    <3> QED
        BY <1>0, RetitledIs
  <2>2. Answered("create")' = Answered("create") /\ Answered("delete")' = Answered("delete")
      BY <1>4 DEF Changes
  <2>3. Kept' = Kept /\ rest = Kept
    <3>1. Gone' = Gone
        BY <2>2, <1>4 DEF Gone, Answered
    <3> QED
        BY <3>1, <2>1, <1>2, <1>4 DEF Kept, Settles
  <2>4. Settles(newer)'
      BY <2>0, <2>3, <1>4 DEF Settles
  <2>6. ASSUME NEW d \in Answered("create")
        PROVE  server' = <<Screen!Note(d, d)>> \o newer
    <3> DEFINE n == Screen!Note(d, d)
    <3>1. d \in Ops /\ op[d].op = "create" /\ d # c
        BY DEF Answered
    <3>2. n \in Titled /\ n.id = d
        BY <3>1, IdsOfOne DEF Titles
    <3>3. id # d
        BY <3>1, <1>4 DEF NewIsTop, ScreenInv
    <3>4. server = <<n>> \o rest
        BY <2>1 DEF Tops
    <3> HIDE DEF n, id
    <3>5. Screen!Retitled(<<n>> \o rest, id, c) = <<n>> \o Screen!Retitled(rest, id, c)
        BY <3>2, <3>3, <1>0, RetitledBehindHead
    <3> QED
        BY <2>0, <3>4, <3>5, <1>2 DEF n
  <2>7. Answered("create") = {} => server' = newer
      BY <2>0, <2>1, <1>2 DEF Tops
  <2>8. Tops(newer)'
      BY <2>2, <2>6, <2>7 DEF Tops
  <2> QED
      BY <2>4, <2>8
<1> QED
    BY <1>4, <1>5, <1>6, <1>7 DEF ScreenInv

LEMMA ServeDeleteKeeps ==
    ASSUME ScreenInv, NEW c \in Ops, Screen!Serve(c), op[c].op = "delete"
    PROVE  ScreenInv'
<1> DEFINE id == op[c].id
<1>1. Screen!Served(c).rows = Screen!Without(server, id) /\ Screen!Served(c).reply = <<>>
    BY DEF Screen!Served
<1>2. /\ server' = Screen!Without(server, id) /\ notes' = notes
      /\ server \in Seq(Titled) /\ notes \in Seq(Titled)
    BY <1>1 DEF Screen!Serve, ScreenInv, ScreenTypes
<1>3. /\ <<>> \in Seq(Titled) /\ Ids(<<>>) = {}
      /\ server' \in Seq(Titled) /\ Ids(server') \subseteq Ids(server)
  <2>1. <<>> \in Seq(Titled) /\ Ids(<<>>) = {}
      BY EmptySeq DEF Ids
  <2> HIDE DEF id
  <2> QED
      BY <2>1, <1>2, IdsOfWithout
<1>4. /\ CleanFetches'
      /\ agreed' => agreed /\ op[c].at = "sent" /\ op'[c].at = "answered"
      /\ \A k \in Changes \ {"delete"} : Answered(k)' = Answered(k)
      /\ agreed' => Answered("delete")' = Answered("delete") \cup {c}
      /\ \A d \in Ops : op'[d].id = op[d].id
  <2>1. "delete" \in Changes
      BY DEF Changes
  <2>2. Screen!Served(c).reply \in Seq(Titled)
      BY <1>1, <1>3
  <2>3. \A d \in Ops : op'[d].id = op[d].id
      BY <2>2, ServeMoves
  <2>4. /\ CleanFetches'
        /\ agreed' => agreed /\ op[c].at = "sent" /\ op'[c].at = "answered"
        /\ \A k \in Changes \ {"delete"} : Answered(k)' = Answered(k)
        /\ agreed' => Answered("delete")' = Answered("delete") \cup {c}
      BY <2>1, <2>2, ServeSpoils
  <2> QED
      BY <2>1, <2>3, <2>4
<1>5. ScreenTypes' /\ OneAtATime' /\ UnmadeIsUnknown' /\ CreatesAreOwn'
  <2>1. \A d \in Ops : Unmade(d) => d \notin Ids(server') /\ d \notin Ids(<<>>)
      BY <1>3 DEF ScreenInv, UnmadeIsUnknown
  <2> QED
      BY <1>1, <1>3, <2>1, ServeTells
<1>6. NewIsTop'
    BY <1>2, <1>4 DEF NewIsTop, ScreenInv, Changes
<1>7. AnswersMakeIt'
  <2> SUFFICES ASSUME agreed'
               PROVE  \E rest \in Seq(Titled) : Settles(rest)' /\ Tops(rest)'
      BY DEF AnswersMakeIt
  <2>1. PICK rest \in Seq(Titled) : Settles(rest) /\ Tops(rest)
      BY <1>4 DEF AnswersMakeIt, ScreenInv
  <2>0. PICK fewer \in Seq(Titled) : fewer = Screen!Without(rest, id)
    <3> HIDE DEF id
    <3> QED
        BY IdsOfWithout
  <2>2. Answered("create")' = Answered("create") /\ Answered("update")' = Answered("update")
      BY <1>4 DEF Changes
  <2>3. Gone' = Gone \cup {id}
      BY <1>4 DEF Gone, Answered
  <2>4. Kept \in Seq(Titled) /\ Kept' = Screen!Without(Kept, id)
    <3> HIDE DEF id
    <3> QED
        BY <1>2, <2>3, KeptTwice DEF Kept
  <2>5. ASSUME NEW u \in Answered("update")
        PROVE  fewer = Screen!Retitled(Kept', op[u].id, u)
    <3> DEFINE x == op[u].id
               B == Other({id})
    <3>1. x \in Titles /\ u \in Titles
        BY CallFields DEF ScreenInv, Answered, Titles
    <3>2. rest = Screen!Retitled(Kept, x, u)
        BY <2>1 DEF Settles
    <3> HIDE DEF x, id
    <3>3. Screen!Without(rest, id) = Sifted(rest, B) /\ Screen!Without(Kept, id) = Sifted(Kept, B)
        BY <2>4, WithoutSifts
    <3>4. Screen!Retitled(Sifted(Kept, B), x, u) = Sifted(Screen!Retitled(Kept, x, u), B)
        BY <2>4, <3>1, RetitledSift
    <3> QED
        BY <2>0, <2>4, <3>2, <3>3, <3>4 DEF x
  <2>6. Answered("update") = {} => fewer = Kept'
      BY <2>0, <2>1, <2>4 DEF Settles
  <2>7. ASSUME NEW d \in Answered("create")
        PROVE  server' = <<Screen!Note(d, d)>> \o fewer
    <3> DEFINE n == Screen!Note(d, d)
               B == Other({id})
               l == <<n>> \o rest
    <3>1. d \in Ops /\ op[d].op = "create" /\ d # c
        BY DEF Answered
    <3>2. n \in Titled /\ n.id = d
        BY <3>1, IdsOfOne DEF Titles
    <3>3. id # d
        BY <3>1, <1>4 DEF NewIsTop, ScreenInv
    <3>4. n \in B
        BY <3>2, <3>3 DEF Other
    <3>5. server = l
        BY <2>1 DEF Tops
    <3> HIDE DEF n, id, B
    <3>6. Sifted(l, B) = <<n>> \o Sifted(rest, B)
        BY <3>2, <3>4, SiftBehindHead
    <3>7. l \in Seq(Titled)
        BY <3>5, <1>2
    <3> HIDE DEF l
    <3>8. Screen!Without(rest, id) = Sifted(rest, B) /\ Screen!Without(l, id) = Sifted(l, B)
        BY <3>7, WithoutSifts DEF B
    <3> QED
        BY <2>0, <3>5, <3>6, <3>8, <1>2 DEF n
  <2>8. Answered("create") = {} => server' = fewer
      BY <2>0, <2>1, <1>2 DEF Tops
  <2>9. Settles(fewer)'
      BY <2>2, <2>5, <2>6, <1>4 DEF Settles, Answered
  <2>10. Tops(fewer)'
      BY <2>2, <2>7, <2>8 DEF Tops
  <2> QED
      BY <2>9, <2>10
<1> QED
    BY <1>4, <1>5, <1>6, <1>7 DEF ScreenInv

-----------------------------------------------------------------------------
(* The app takes an answer *)

\* An answer that is taken: only what is listed may grow, by what the answer told.
LEMMA DeliverMoves ==
    ASSUME ScreenInv, NEW c \in Ops, Screen!Deliver(c), notes' \in Seq(Titled),
           Ids(notes') \subseteq Ids(notes) \cup Ids(op[c].reply)
    PROVE  /\ ScreenTypes' /\ OneAtATime' /\ UnmadeIsUnknown' /\ CreatesAreOwn' /\ CleanFetches'
           /\ op[c].at = "answered" /\ op[c].op \in Kinds /\ server' = server
           /\ agreed' = IF op[c].op = "fetch" THEN op[c].clean ELSE agreed
           /\ \A d \in Ops : op'[d].id = op[d].id
           /\ \A k \in Changes : Answered(k)' = Answered(k) \ {c}
<1>1. /\ op[c].at = "answered" /\ op' = [op EXCEPT ![c].at = "done"]
      /\ server' = server
      /\ agreed' = IF op[c].op = "fetch" THEN op[c].clean ELSE agreed
    BY DEF Screen!Deliver
<1>2. \A d \in Ops \ {c} : op'[d] = op[d]
    BY <1>1 DEF ScreenInv, ScreenTypes
<1>3. /\ op'[c] \in ScreenCall /\ op'[c].at = "done" /\ op'[c].op = op[c].op
      /\ op'[c].id = op[c].id /\ op'[c].reply = op[c].reply /\ op'[c].clean = op[c].clean
  <2> DEFINE q == op[c]
             m == [q EXCEPT !.at = "done"]
  <2>1. op'[c] = m
      BY <1>1 DEF ScreenInv, ScreenTypes
  <2>2. q \in ScreenCall
      BY CallFields DEF ScreenInv
  <2> HIDE DEF q
  <2>3. /\ m \in ScreenCall /\ m.at = "done" /\ m.op = q.op /\ m.id = q.id
        /\ m.reply = q.reply /\ m.clean = q.clean
      BY <2>2 DEF ScreenCall
  <2> QED
      BY <2>1, <2>3 DEF q
<1>4. /\ \A d \in Ops : op'[d].op = op[d].op /\ op'[d].id = op[d].id
                        /\ op'[d].reply = op[d].reply /\ op'[d].clean = op[d].clean
      /\ \A d \in Ops \ {c} : op'[d].at = op[d].at
    BY <1>2, <1>3
<1>5. op[c].op \in Kinds /\ op[c].clean \in BOOLEAN
    BY <1>1, CallFields DEF ScreenInv, ScreenTypes
<1>6. ScreenTypes'
  <2>1. op' \in [Ops -> ScreenCall]
      BY <1>1, <1>3 DEF ScreenInv, ScreenTypes
  <2>2. agreed' \in BOOLEAN
      BY <1>1, <1>5 DEF ScreenInv, ScreenTypes
  <2>3. \A d \in Ops : op'[d].at # "unused" => op'[d].op \in Kinds
      BY <1>4, <1>5 DEF ScreenInv, ScreenTypes
  <2> QED
      BY <2>1, <2>2, <2>3, <1>1 DEF ScreenInv, ScreenTypes
<1>7. \A k \in Changes : Answered(k)' = Answered(k) \ {c}
    BY <1>3, <1>4 DEF Answered
<1>8. OneAtATime'
    BY <1>3, <1>4 DEF OneAtATime, ScreenInv
<1>9. \A d \in Ops : Unmade(d)' => Unmade(d)
    BY <1>3, <1>4 DEF Unmade
<1>10. UnmadeIsUnknown'
    BY <1>1, <1>4, <1>9 DEF UnmadeIsUnknown, ScreenInv
<1>11. CreatesAreOwn'
    BY <1>3, <1>4 DEF CreatesAreOwn, ScreenInv
<1>12. CleanFetches'
    BY <1>1, <1>3, <1>4, <1>7 DEF CleanFetches, ScreenInv
<1> QED
    BY <1>1, <1>4, <1>5, <1>6, <1>7, <1>8, <1>10, <1>11, <1>12

LEMMA DeliverFetchKeeps ==
    ASSUME ScreenInv, NEW c \in Ops, Screen!Deliver(c), op[c].op = "fetch"
    PROVE  ScreenInv'
<1>1. notes' = op[c].reply /\ op[c].reply \in Seq(Titled)
    BY CallFields DEF Screen!Deliver, ScreenInv
<1>2. /\ ScreenTypes' /\ OneAtATime' /\ UnmadeIsUnknown' /\ CreatesAreOwn' /\ CleanFetches'
      /\ op[c].at = "answered" /\ server' = server /\ agreed' = op[c].clean
      /\ \A k \in Changes : Answered(k)' = Answered(k) \ {c}
  <2>1. notes' \in Seq(Titled) /\ Ids(notes') \subseteq Ids(notes) \cup Ids(op[c].reply)
      BY <1>1
  <2> QED
      BY <2>1, DeliverMoves
<1>3. agreed' => op[c].reply = server /\ \A k \in Changes : Answered(k)' = {}
    BY <1>2 DEF CleanFetches, ScreenInv
<1>4. NewIsTop'
    BY <1>3 DEF NewIsTop, Changes
<1>5. AnswersMakeIt'
  <2> SUFFICES ASSUME agreed'
               PROVE  \E rest \in Seq(Titled) : Settles(rest)' /\ Tops(rest)'
      BY DEF AnswersMakeIt
  <2>1. Answered("create")' = {} /\ Answered("update")' = {} /\ Answered("delete")' = {}
      BY <1>3 DEF Changes
  <2>2. notes' = server' /\ server' \in Seq(Titled)
      BY <1>1, <1>2, <1>3
  <2>3. Gone' = {}
      BY <2>1 DEF Gone
  <2>4. Kept' = server'
    <3>1. Titled \subseteq Other({})
        BY DEF Other
    <3>2. \A s \in Seq(Titled) : Sifted(s, Other({})) = s
        BY <3>1, SiftOfAll
    <3> QED
        BY <2>2, <2>3, <3>2 DEF Kept
  <2>5. PICK rest \in Seq(Titled) : rest = server'
      BY <2>2
  <2>6. Settles(rest)'
      BY <2>1, <2>4, <2>5 DEF Settles
  <2>7. Tops(rest)'
      BY <2>1, <2>5 DEF Tops
  <2> QED
      BY <2>6, <2>7
<1> QED
    BY <1>2, <1>4, <1>5 DEF ScreenInv

LEMMA DeliverCreateKeeps ==
    ASSUME ScreenInv, NEW c \in Ops, Screen!Deliver(c), op[c].op = "create"
    PROVE  ScreenInv'
<1> DEFINE n == Screen!Note(c, c)
           top == <<n>>
<1>1. op[c].at = "answered" /\ notes' = op[c].reply \o notes
    BY DEF Screen!Deliver
<1>2. op[c].reply = top
    BY <1>1 DEF CreatesAreOwn, ScreenInv
<1>3. /\ n \in Titled /\ n.id = c /\ top \in Seq(Titled)
      /\ notes \in Seq(Titled)
    BY IdsOfOne DEF Titles, ScreenInv, ScreenTypes
<1> HIDE DEF n
<1>4. notes' = top \o notes /\ notes' \in Seq(Titled)
      /\ Ids(notes') \subseteq Ids(notes) \cup Ids(op[c].reply)
  <2> HIDE DEF top
  <2> QED
      BY <1>1, <1>2, <1>3, IdsOfJoined
<1>5. /\ ScreenTypes' /\ OneAtATime' /\ UnmadeIsUnknown' /\ CreatesAreOwn' /\ CleanFetches'
      /\ server' = server /\ agreed' = agreed
      /\ \A d \in Ops : op'[d].id = op[d].id
      /\ \A k \in Changes : Answered(k)' = Answered(k) \ {c}
    BY <1>4, DeliverMoves
<1>6. c \in Answered("create") /\ Answered("create") = {c} /\ Answered("create")' = {}
  <2>1. c \in Answered("create")
      BY <1>1 DEF Answered
  <2>2. Answered("create") = {c}
      BY <2>1 DEF Answered, OneAtATime, ScreenInv
  <2> QED
      BY <2>2, <1>5 DEF Changes
<1>7. /\ Answered("update")' = Answered("update") /\ Answered("delete")' = Answered("delete")
    BY <1>5 DEF Answered, Changes
<1>8. NewIsTop'
    BY <1>6 DEF NewIsTop
<1>9. AnswersMakeIt'
  <2> SUFFICES ASSUME agreed'
               PROVE  \E rest \in Seq(Titled) : Settles(rest)' /\ Tops(rest)'
      BY DEF AnswersMakeIt
  <2>1. PICK rest \in Seq(Titled) : Settles(rest) /\ Tops(rest)
      BY <1>5 DEF AnswersMakeIt, ScreenInv
  <2>2. \A d \in Ops \ {c} : op[d].id # c
      BY <1>5, <1>6 DEF NewIsTop, ScreenInv
  <2>3. Gone' = Gone /\ n \in Other(Gone)
    <3>1. c \notin Gone
        BY <2>2 DEF Gone, Answered
    <3> QED
        BY <3>1, <1>3, <1>5, <1>7 DEF Gone, Answered, Other
  <2>4. Kept \in Seq(Titled) /\ Kept' = top \o Kept
    <3>1. Sifted(top \o notes, Other(Gone)) = top \o Sifted(notes, Other(Gone))
        BY <1>3, <2>3, SiftBehindHead
    <3>2. Sifted(notes, Other(Gone)) \in Seq(Titled)
        BY <1>3, SiftIsPart
    <3> QED
        BY <3>1, <3>2, <2>3, <1>4 DEF Kept
  <2>5. server = top \o rest
      BY <2>1, <1>6 DEF Tops, n
  <2>6. PICK longer \in Seq(Titled) : longer = server
      BY DEF ScreenInv, ScreenTypes
  <2>7. ASSUME NEW u \in Answered("update")
        PROVE  longer = Screen!Retitled(Kept', op[u].id, u)
    <3> DEFINE x == op[u].id
    <3>1. u \in Ops /\ u # c /\ x \in Titles /\ u \in Titles
        BY CallFields DEF ScreenInv, Answered, Titles
    <3>2. n.id # x
        BY <3>1, <2>2, <1>3
    <3>3. rest = Screen!Retitled(Kept, x, u)
        BY <2>1 DEF Settles
    <3> HIDE DEF x
    <3>4. Screen!Retitled(top \o Kept, x, u) = top \o Screen!Retitled(Kept, x, u)
        BY <1>3, <2>4, <3>1, <3>2, RetitledBehindHead
    <3> HIDE DEF top
    <3> QED
        BY <2>4, <2>5, <2>6, <3>3, <3>4 DEF x
  <2>8. Answered("update") = {} => longer = Kept'
      BY <2>1, <2>4, <2>5, <2>6 DEF Settles
  <2>9. Settles(longer)'
      BY <2>7, <2>8, <1>5, <1>7 DEF Settles, Answered
  <2>10. Tops(longer)'
      BY <2>6, <1>5, <1>6 DEF Tops
  <2> QED
      BY <2>9, <2>10
<1> QED
    BY <1>5, <1>8, <1>9 DEF ScreenInv

LEMMA DeliverUpdateKeeps ==
    ASSUME ScreenInv, NEW c \in Ops, Screen!Deliver(c), op[c].op = "update"
    PROVE  ScreenInv'
<1> DEFINE id == op[c].id
<1>1. op[c].at = "answered" /\ notes' = Screen!Retitled(notes, id, c)
    BY DEF Screen!Deliver
<1>2. id \in Titles /\ c \in Titles /\ notes \in Seq(Titled)
    BY CallFields DEF ScreenInv, ScreenTypes, Titles
<1>3. notes' \in Seq(Titled) /\ Ids(notes') = Ids(notes)
  <2> HIDE DEF id
  <2>1. notes' \in Seq(Titled)
      BY <1>1, <1>2, RetitledIs
  <2> QED
      BY <2>1, <1>1, <1>2, IdsOfRetitled
<1>4. /\ ScreenTypes' /\ OneAtATime' /\ UnmadeIsUnknown' /\ CreatesAreOwn' /\ CleanFetches'
      /\ server' = server /\ agreed' = agreed
      /\ \A d \in Ops : op'[d].id = op[d].id
      /\ \A k \in Changes : Answered(k)' = Answered(k) \ {c}
    BY <1>3, DeliverMoves
<1>5. c \in Answered("update") /\ Answered("update")' = {}
  <2>1. c \in Answered("update")
      BY <1>1 DEF Answered
  <2>2. Answered("update") = {c}
      BY <2>1 DEF Answered, OneAtATime, ScreenInv
  <2> QED
      BY <2>1, <2>2, <1>4 DEF Changes
<1>6. /\ Answered("create")' = Answered("create") /\ Answered("delete")' = Answered("delete")
    BY <1>4 DEF Answered, Changes
<1>7. NewIsTop'
    BY <1>3, <1>4, <1>6 DEF NewIsTop, ScreenInv
<1>8. AnswersMakeIt'
  <2> SUFFICES ASSUME agreed'
               PROVE  \E rest \in Seq(Titled) : Settles(rest)' /\ Tops(rest)'
      BY DEF AnswersMakeIt
  <2>1. PICK rest \in Seq(Titled) : Settles(rest) /\ Tops(rest)
      BY <1>4 DEF AnswersMakeIt, ScreenInv
  <2>2. Gone' = Gone
      BY <1>4, <1>6 DEF Gone, Answered
  <2>3. rest = Screen!Retitled(Kept, id, c)
      BY <2>1, <1>5 DEF Settles
  <2>4. Kept' = rest
    <3> HIDE DEF id
    <3>1. Screen!Retitled(Sifted(notes, Other(Gone)), id, c)
            = Sifted(Screen!Retitled(notes, id, c), Other(Gone))
        BY <1>2, RetitledSift
    <3> QED
        BY <3>1, <2>2, <2>3, <1>1 DEF Kept
  <2>5. Settles(rest)'
      BY <2>4, <1>5 DEF Settles
  <2>6. Tops(rest)'
      BY <2>1, <1>4, <1>6 DEF Tops
  <2> QED
      BY <2>5, <2>6
<1> QED
    BY <1>4, <1>7, <1>8 DEF ScreenInv

LEMMA DeliverDeleteKeeps ==
    ASSUME ScreenInv, NEW c \in Ops, Screen!Deliver(c), op[c].op = "delete"
    PROVE  ScreenInv'
<1> DEFINE id == op[c].id
<1>1. op[c].at = "answered" /\ notes' = Screen!Without(notes, id)
    BY DEF Screen!Deliver
<1>2. notes \in Seq(Titled)
    BY DEF ScreenInv, ScreenTypes
<1>3. notes' \in Seq(Titled) /\ Ids(notes') \subseteq Ids(notes)
  <2> HIDE DEF id
  <2> QED
      BY <1>1, <1>2, IdsOfWithout
<1>4. /\ ScreenTypes' /\ OneAtATime' /\ UnmadeIsUnknown' /\ CreatesAreOwn' /\ CleanFetches'
      /\ server' = server /\ agreed' = agreed
      /\ \A d \in Ops : op'[d].id = op[d].id
      /\ \A k \in Changes : Answered(k)' = Answered(k) \ {c}
    BY <1>3, DeliverMoves
<1>5. /\ Answered("create")' = Answered("create") /\ Answered("update")' = Answered("update")
    BY <1>4 DEF Answered, Changes
<1>6. NewIsTop'
    BY <1>3, <1>4, <1>5 DEF NewIsTop, ScreenInv
<1>7. Gone = Gone' \cup {id}
  <2>1. c \in Answered("delete") /\ Answered("delete")' = Answered("delete") \ {c}
      BY <1>1, <1>4 DEF Answered, Changes
  <2> QED
      BY <2>1, <1>4 DEF Gone, Answered
<1>8. Kept' = Kept
  <2> HIDE DEF id
  <2>1. PICK ids : ids = Gone'
      OBVIOUS
  <2>2. Sifted(Screen!Without(notes, id), Other(ids)) = Sifted(notes, Other(ids \cup {id}))
      BY <1>2, KeptTwice, SMTT(30)
  <2> QED
      BY <2>1, <2>2, <1>1, <1>7 DEF Kept
<1>9. AnswersMakeIt'
  <2> SUFFICES ASSUME agreed'
               PROVE  \E rest \in Seq(Titled) : Settles(rest)' /\ Tops(rest)'
      BY DEF AnswersMakeIt
  <2>1. PICK rest \in Seq(Titled) : Settles(rest) /\ Tops(rest)
      BY <1>4 DEF AnswersMakeIt, ScreenInv
  <2>2. Settles(rest)'
      BY <2>1, <1>4, <1>5, <1>8 DEF Settles, Answered
  <2>3. Tops(rest)'
      BY <2>1, <1>4, <1>5 DEF Tops
  <2> QED
      BY <2>2, <2>3
<1> QED
    BY <1>4, <1>6, <1>9 DEF ScreenInv

LEMMA ScreenInvStep == ScreenInv /\ [Screen!Next]_screen_vars => ScreenInv'
<1> SUFFICES ASSUME ScreenInv, [Screen!Next]_screen_vars
             PROVE  ScreenInv'
    OBVIOUS
<1>1. CASE UNCHANGED screen_vars
  <2>1. notes' = notes /\ server' = server /\ op' = op /\ agreed' = agreed
      BY <1>1 DEF screen_vars
  <2>2. ScreenTypes' /\ OneAtATime' /\ CreatesAreOwn'
      BY <2>1 DEF ScreenInv, ScreenTypes, OneAtATime, CreatesAreOwn
  <2>3. UnmadeIsUnknown'
      BY <2>1 DEF ScreenInv, UnmadeIsUnknown, Unmade
  <2>4. \A k \in Changes : Answered(k)' = Answered(k)
      BY <2>1 DEF Answered
  <2>5. NewIsTop' /\ CleanFetches'
      BY <2>1, <2>4 DEF ScreenInv, NewIsTop, CleanFetches, Changes
  <2>6. AnswersMakeIt'
      BY <2>1, <2>4, SameAnswers DEF ScreenInv
  <2> QED
      BY <2>2, <2>3, <2>5, <2>6 DEF ScreenInv
<1>2. ASSUME NEW c \in Ops, Screen!FetchNotes(c) \/ Screen!CreateNote(c)
      PROVE  ScreenInv'
  <2>1. CASE Screen!FetchNotes(c)
    <3>1. Screen!Begin(c, "fetch", Before) /\ "fetch" \in Kinds /\ Before \in Titles
        BY <2>1 DEF Screen!FetchNotes, Kinds, Titles
    <3> QED
        BY <3>1, BeginKeeps
  <2>2. CASE Screen!CreateNote(c)
    <3>1. /\ Screen!Begin(c, "create", c) /\ "create" \in Kinds /\ c \in Titles
          /\ Screen!Open("create") = {}
        BY <2>2 DEF Screen!CreateNote, Kinds, Titles
    <3> QED
        BY <3>1, BeginKeeps
  <2> QED
      BY <2>1, <2>2, <1>2
<1>3. ASSUME NEW c \in Ops, NEW id \in Screen!Listed,
             Screen!UpdateNote(c, id) \/ Screen!DeleteNote(c, id)
      PROVE  ScreenInv'
  <2>1. id \in Titles
    <3>1. PICK i \in DOMAIN notes : id = notes[i].id
        BY DEF Screen!Listed
    <3>2. notes[i] \in Titled
        BY LenProperties, ElementOfSeq DEF ScreenInv, ScreenTypes
    <3> QED
        BY <3>1, <3>2 DEF Titled, Titles
  <2>2. CASE Screen!UpdateNote(c, id)
    <3>1. Screen!Begin(c, "update", id) /\ "update" \in Kinds /\ Screen!Open("update") = {}
        BY <2>2 DEF Screen!UpdateNote, Kinds
    <3> QED
        BY <3>1, <2>1, BeginKeeps
  <2>3. CASE Screen!DeleteNote(c, id)
    <3>1. Screen!Begin(c, "delete", id) /\ "delete" \in Kinds
        BY <2>3 DEF Screen!DeleteNote, Kinds
    <3> QED
        BY <3>1, <2>1, BeginKeeps
  <2> QED
      BY <2>2, <2>3, <1>3
<1>4. ASSUME NEW c \in Ops, Screen!Serve(c)
      PROVE  ScreenInv'
  <2>1. op[c].op \in Kinds
      BY <1>4 DEF Screen!Serve, ScreenInv, ScreenTypes
  <2> QED
      BY <1>4, <2>1, ServeFetchKeeps, ServeCreateKeeps, ServeUpdateKeeps, ServeDeleteKeeps
      DEF Kinds
<1>5. ASSUME NEW c \in Ops, Screen!Deliver(c)
      PROVE  ScreenInv'
  <2>1. op[c].op \in Kinds
      BY <1>5 DEF Screen!Deliver, ScreenInv, ScreenTypes
  <2> QED
      BY <1>5, <2>1, DeliverFetchKeeps, DeliverCreateKeeps, DeliverUpdateKeeps, DeliverDeleteKeeps
      DEF Kinds
<1> QED
    BY <1>1, <1>2, <1>3, <1>4, <1>5, RefuseKeeps DEF Screen!Next

\* The invariant holds in every state.
THEOREM ScreenInductive == AppSpec => []ScreenInv
<1> QED
    BY ScreenPart, ScreenInitial, ScreenInvStep, PTL

\* With nothing under way there is no answer left to apply: the list on screen is
\* the server's, if the last fetch overlapped no change and none has failed since,
\* whichever way the answers of the changes crossed.
THEOREM AppListAgrees == AppSpec => []ListAgrees
<1>1. ScreenInv => ListAgrees
  <2> SUFFICES ASSUME ScreenInv, agreed, Screen!Pending = {}
               PROVE  notes = server
      BY DEF ListAgrees, Screen!ListAgrees
  <2>1. PICK rest \in Seq(Titled) : Settles(rest) /\ Tops(rest)
      BY DEF ScreenInv, AnswersMakeIt
  <2>2. Answered("create") = {} /\ Answered("update") = {} /\ Answered("delete") = {}
      BY DEF Screen!Pending, Answered
  <2>3. Gone = {}
      BY <2>2 DEF Gone
  <2>4. Kept = notes
    <3>1. Titled \subseteq Other({})
        BY DEF Other
    <3>2. \A s \in Seq(Titled) : Sifted(s, Other({})) = s
        BY <3>1, SiftOfAll
    <3> QED
        BY <2>3, <3>2 DEF Kept, ScreenInv, ScreenTypes
  <2> QED
      BY <2>1, <2>2, <2>4 DEF Settles, Tops
<1> QED
    BY <1>1, ScreenInductive, PTL
===============================================================================

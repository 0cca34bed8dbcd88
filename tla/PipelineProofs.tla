---------------------------- MODULE PipelineProofs ----------------------------
(* Theorems about RequestPipeline, for any number of callers, addresses and *)
(* requests, any length of the window and any two limits.                   *)
EXTENDS MCNotesPipeline, SequenceTheorems, FiniteSetTheorems, TLAPS

-----------------------------------------------------------------------------
(* The inductive invariant of the limiter *)

Counter == [start : Nat, n : Nat]
HitsAre == [key : Pipeline!Keys, time : Nat, nth : Nat]

LimiterTypes ==
    /\ clock \in Nat
    /\ window \in [Pipeline!Keys -> {None} \cup Counter]
    /\ admitted \subseteq HitsAre

HitsOf(k) == {a \in admitted : a.key = k}

\* o has opened a window, and a was let through in it.
Opens(o, a) ==
    o.key = a.key /\ o.nth = 1 /\ o.time <= a.time /\ a.time < o.time + Window

\* A counter started at an opening, no hit is past its window, and the hits since
\* then are numbered up to it, none being left out below the limit.
CountersCount ==
    \A k \in Pipeline!Keys :
       /\ window[k] = None => HitsOf(k) = {}
       /\ window[k] # None =>
            /\ window[k].start <= clock /\ window[k].n >= 1
            /\ \A a \in HitsOf(k) :
                 /\ a.time <= clock /\ a.time < window[k].start + Window
                 /\ a.time >= window[k].start => a.nth <= window[k].n
            /\ \E o \in HitsOf(k) : o.nth = 1 /\ o.time = window[k].start
            /\ \A i \in 1 .. window[k].n : i <= Limits[k[2]] =>
                 \E a \in HitsOf(k) : a.nth = i /\ a.time >= window[k].start

NumbersFit == \A a \in admitted : a.nth >= 1 /\ a.nth <= Limits[a.key[2]]

HitsHaveOpenings == \A a \in admitted : \E o \in admitted : Opens(o, a)

OpeningsApart ==
    \A o, p \in admitted :
       (o.key = p.key /\ o.nth = 1 /\ p.nth = 1 /\ o.time < p.time) =>
          o.time + Window <= p.time

OneHitPerNumber ==
    \A o, a, b \in admitted : (Opens(o, a) /\ Opens(o, b) /\ a.nth = b.nth) => a = b

LimiterInv ==
    /\ LimiterTypes
    /\ CountersCount
    /\ NumbersFit
    /\ HitsHaveOpenings
    /\ OpeningsApart
    /\ OneHitPerNumber

-----------------------------------------------------------------------------
(* The inductive invariant of the requests *)

SaidSoFar == {<<>>} \cup {<<e>> : e \in {"http_exception", "validation_error",
                          "notes_limit_exceeded", "rate_limit_exceeded"}}

Places == {"unused", "identified", "routing", "refused", "returning", "raising", "answered"}
AnswerCodes == {"none", "2xx", "4xx", "422", "429", "500"}

Travelling == [at : Places, route : Pipeline!Routes \cup {"none"}, user : Callers \cup {None},
            ip : Ips \cup {None}, code : AnswerCodes, lines : SaidSoFar]

\* What a response on its way out says, by the way it left.
WayOut(q) ==
    /\ q.at \in {"identified", "routing"} =>
         q.route \in Pipeline!Routes /\ q.ip \in Ips /\ q.code = "none"
    /\ q.at = "refused" => q.code = "429" /\ q.lines \in {<<>>, <<"rate_limit_exceeded">>}
    /\ q.at = "returning" =>
         \/ q.code = "2xx" /\ q.lines = <<>>
         \/ q.code \in {"4xx", "422", "429"} /\ q.lines # <<>>
    /\ q.at = "raising" => q.code = "500" /\ q.lines = <<>>

RequestsInv ==
    /\ asked \in [Requests -> Travelling]
    /\ \A r \in Requests : WayOut(asked[r])

-----------------------------------------------------------------------------
(* The pipeline's part of a behaviour *)

LEMMA PipelinePart == PipelineSpec => Pipeline!Init /\ [][Pipeline!Next]_pipeline_vars
<1>1. PipelineInit => Pipeline!Init
    BY DEF PipelineInit
<1>2. [PipelineNext]_<<part, vars, pipeline_vars>> => [Pipeline!Next]_pipeline_vars
    BY DEF PipelineNext
<1> QED
    BY <1>1, <1>2, PTL DEF PipelineSpec

\* The routes with a limit, whose limits are positive.
LEMMA LimitsArePositive ==
    \A k \in Pipeline!Keys :
       /\ k[2] \in {"plain", "limited"}
       /\ Limits[k[2]] \in Nat /\ Limits[k[2]] >= 1
<1>1. DOMAIN Limits = {"plain", "limited"}
    BY DEF Limits
<1>2. Limits["plain"] = PlainLimit /\ Limits["limited"] = OwnLimit
    BY DEF Limits
<1> QED
    BY <1>1, <1>2, LimitsAssumption DEF Pipeline!Keys

\* The key of a counted request.
LEMMA CountedKeys ==
    ASSUME RequestsInv, NEW r \in Requests,
           asked[r].at \in {"identified", "routing"}, asked[r].route \in {"plain", "limited"}
    PROVE  /\ Pipeline!KeyOf(asked[r]) \in Pipeline!Keys
           /\ Pipeline!KeyOf(asked[r])[2] = asked[r].route
<1>1. asked[r].user \in Callers \cup {None} /\ asked[r].ip \in Ips
    BY DEF RequestsInv, Travelling, WayOut
<1>2. asked[r].route \in DOMAIN Limits
    BY DEF Limits
<1> QED
    BY <1>1, <1>2 DEF Pipeline!KeyOf, Pipeline!Keys

-----------------------------------------------------------------------------
(* The limiter's invariant is preserved *)

\* The window of a counter that has run out, or of none, is followed by a new one.
LEMMA NewWindow ==
    ASSUME LimiterInv, NEW k \in Pipeline!Keys,
           window[k] = None \/ clock >= window[k].start + Window
    PROVE  /\ Pipeline!Counted(k) = [start |-> clock, n |-> 1]
           /\ Pipeline!Fits(k)
           /\ \A a \in HitsOf(k) : a.time < clock /\ (a.nth = 1 => a.time + Window <= clock)
<1>1. Pipeline!Counted(k) = [start |-> clock, n |-> 1]
    BY DEF Pipeline!Counted
<1>2. Pipeline!Fits(k)
    BY <1>1, LimitsArePositive DEF Pipeline!Fits
<1>3. ASSUME NEW a \in HitsOf(k)
      PROVE  a.time < clock /\ (a.nth = 1 => a.time + Window <= clock)
  <2>1. /\ window[k] # None /\ window[k] \in Counter
        /\ clock >= window[k].start + Window /\ clock \in Nat
        /\ a \in admitted /\ a \in HitsAre /\ a.key = k
      BY <1>3 DEF LimiterInv, LimiterTypes, CountersCount, HitsOf
  <2>2. a.time < window[k].start + Window
      BY <1>3, <2>1 DEF LimiterInv, CountersCount
  <2>3. PICK o \in HitsOf(k) : o.nth = 1 /\ o.time = window[k].start
      BY <2>1 DEF LimiterInv, CountersCount
  <2>4. o \in admitted /\ o \in HitsAre /\ o.key = k
      BY DEF HitsOf, LimiterInv, LimiterTypes
  <2>5. window[k].start \in Nat /\ a.time \in Nat /\ o.time \in Nat /\ Window \in Nat
      BY <2>1, <2>4, LimitsAssumption DEF Counter, HitsAre
  <2>6. ASSUME a.nth = 1 PROVE a.time <= window[k].start
    <3>1. ~(o.time < a.time /\ a.time < o.time + Window)
        BY <2>1, <2>4, <2>3, <2>5, <2>6 DEF LimiterInv, OpeningsApart
    <3> QED
        BY <3>1, <2>2, <2>3, <2>5
  <2> QED
      BY <2>1, <2>2, <2>5, <2>6
<1> QED
    BY <1>1, <1>2, <1>3

\* A window that is still open counts on.
LEMMA SameWindow ==
    ASSUME LimiterInv, NEW k \in Pipeline!Keys,
           ~(window[k] = None \/ clock >= window[k].start + Window)
    PROVE  /\ window[k] # None /\ window[k] \in Counter
           /\ clock < window[k].start + Window
           /\ Pipeline!Counted(k) = [start |-> window[k].start, n |-> window[k].n + 1]
<1>1. window[k] # None /\ window[k] \in Counter /\ clock \in Nat
    BY DEF LimiterInv, LimiterTypes
<1>2. window[k].start \in Nat /\ Window \in Nat
    BY <1>1, LimitsAssumption DEF Counter
<1> QED
    BY <1>1, <1>2 DEF Pipeline!Counted

\* The first hit of a window.
LEMMA HitInNewWindow ==
    ASSUME LimiterInv, clock' = clock, NEW k \in Pipeline!Keys, Pipeline!Hit(k),
           window[k] = None \/ clock >= window[k].start + Window
    PROVE  LimiterInv'
<1> DEFINE h == [key |-> k, time |-> clock, nth |-> 1]
<1>1. /\ window' = [window EXCEPT ![k] = [start |-> clock, n |-> 1]]
      /\ admitted' = admitted \cup {h}
      /\ \A a \in HitsOf(k) : a.time < clock /\ (a.nth = 1 => a.time + Window <= clock)
  <2>1. /\ Pipeline!Counted(k) = [start |-> clock, n |-> 1]
        /\ Pipeline!Fits(k)
        /\ \A a \in HitsOf(k) : a.time < clock /\ (a.nth = 1 => a.time + Window <= clock)
      BY NewWindow
  <2>2. Pipeline!Counted(k).n = 1
      BY <2>1
  <2> QED
      BY <2>1, <2>2 DEF Pipeline!Hit
<1>2. /\ clock \in Nat /\ Window \in Nat /\ Window >= 1
      /\ window \in [Pipeline!Keys -> {None} \cup Counter]
      /\ admitted \subseteq HitsAre
      /\ Limits[k[2]] \in Nat /\ Limits[k[2]] >= 1
    BY LimitsAssumption, LimitsArePositive DEF LimiterInv, LimiterTypes
<1>3. [start |-> clock, n |-> 1] \in Counter /\ [start |-> clock, n |-> 1] # None
      /\ h \in HitsAre /\ h.key = k /\ h.time = clock /\ h.nth = 1
    BY <1>2, NoWindowAssumption DEF Counter, HitsAre
<1> HIDE DEF h
<1>4. LimiterTypes'
    BY <1>1, <1>2, <1>3 DEF LimiterTypes
<1>5. /\ \A j \in Pipeline!Keys \ {k} : window'[j] = window[j] /\ HitsOf(j)' = HitsOf(j)
      /\ window'[k] = [start |-> clock, n |-> 1]
      /\ HitsOf(k)' = HitsOf(k) \cup {h}
    BY <1>1, <1>2, <1>3 DEF HitsOf
<1>6. CountersCount'
  <2> SUFFICES ASSUME NEW j \in Pipeline!Keys
               PROVE  /\ window'[j] = None => HitsOf(j)' = {}
                      /\ window'[j] # None =>
                           /\ window'[j].start <= clock /\ window'[j].n >= 1
                           /\ \A a \in HitsOf(j)' :
                                /\ a.time <= clock /\ a.time < window'[j].start + Window
                                /\ a.time >= window'[j].start => a.nth <= window'[j].n
                           /\ \E o \in HitsOf(j)' : o.nth = 1 /\ o.time = window'[j].start
                           /\ \A i \in 1 .. window'[j].n : i <= Limits[j[2]] =>
                                \E a \in HitsOf(j)' : a.nth = i /\ a.time >= window'[j].start
      BY DEF CountersCount
  <2>1. CASE j # k
      BY <2>1, <1>5 DEF LimiterInv, CountersCount
  <2>2. CASE j = k
    <3>1. window'[k] # None /\ window'[k].start = clock /\ window'[k].n = 1
        BY <1>5, <1>3
    <3>2. \A a \in HitsOf(k)' : a = h \/ (a \in HitsOf(k) /\ a \in HitsAre)
        BY <1>5, <1>2 DEF HitsOf
    <3>3. ASSUME NEW a \in HitsOf(k)'
          PROVE  a.time <= clock /\ a.time < clock + Window
                 /\ (a.time >= clock => a.nth <= 1)
      <4>1. CASE a = h
          BY <4>1, <1>2, <1>3
      <4>2. CASE a \in HitsOf(k) /\ a \in HitsAre
          BY <4>2, <1>1, <1>2 DEF HitsAre
      <4> QED
          BY <3>2, <4>1, <4>2
    <3>4. h \in HitsOf(k)' /\ h.nth = 1 /\ h.time = clock
        BY <1>5, <1>3
    <3>5. \A i \in 1 .. 1 : i = 1
        OBVIOUS
    <3> QED
        BY <2>2, <3>1, <3>3, <3>4, <3>5, <1>2
  <2> QED
      BY <2>1, <2>2
<1>7. NumbersFit'
    BY <1>1, <1>2, <1>3 DEF LimiterInv, NumbersFit
<1>8. HitsHaveOpenings'
  <2>1. Opens(h, h)
      BY <1>2, <1>3 DEF Opens
  <2> QED
      BY <2>1, <1>1 DEF LimiterInv, HitsHaveOpenings
<1>9. \A a \in admitted : a.key = k => a \in HitsOf(k) /\ a.time \in Nat
    BY <1>2 DEF HitsOf, HitsAre
<1>10. OpeningsApart'
  <2> SUFFICES ASSUME NEW o \in admitted \cup {h}, NEW p \in admitted \cup {h},
                      o.key = p.key, o.nth = 1, p.nth = 1, o.time < p.time
               PROVE  o.time + Window <= p.time
      BY <1>1 DEF OpeningsApart
  <2>1. CASE o = h
      BY <2>1, <1>1, <1>2, <1>3, <1>9
  <2>2. CASE p = h /\ o \in admitted
      BY <2>2, <1>1, <1>2, <1>3, <1>9
  <2>3. CASE p \in admitted /\ o \in admitted
      BY <2>3 DEF LimiterInv, OpeningsApart
  <2> QED
      BY <2>1, <2>2, <2>3
<1>11. OneHitPerNumber'
  <2>1. \A a \in admitted : ~Opens(h, a)
      BY <1>1, <1>2, <1>3, <1>9 DEF Opens
  <2>2. \A o \in admitted : ~Opens(o, h)
      BY <1>1, <1>2, <1>3, <1>9 DEF Opens
  <2> QED
      BY <1>1, <2>1, <2>2 DEF LimiterInv, OneHitPerNumber
<1> QED
    BY <1>4, <1>6, <1>7, <1>8, <1>10, <1>11 DEF LimiterInv

\* A later hit of a window that is still open, let through or not.
LEMMA HitInSameWindow ==
    ASSUME LimiterInv, clock' = clock, NEW k \in Pipeline!Keys, Pipeline!Hit(k),
           ~(window[k] = None \/ clock >= window[k].start + Window)
    PROVE  LimiterInv'
<1> DEFINE c == [start |-> window[k].start, n |-> window[k].n + 1]
           h == [key |-> k, time |-> clock, nth |-> window[k].n + 1]
           L == Limits[k[2]]
<1>1. /\ window[k] # None /\ window[k] \in Counter /\ clock < window[k].start + Window
      /\ Pipeline!Counted(k) = c
    BY SameWindow
<1>2. /\ clock \in Nat /\ Window \in Nat /\ Window >= 1
      /\ window \in [Pipeline!Keys -> {None} \cup Counter]
      /\ admitted \subseteq HitsAre
      /\ L \in Nat /\ L >= 1
      /\ window[k].start \in Nat /\ window[k].n \in Nat
    BY <1>1, LimitsAssumption, LimitsArePositive DEF LimiterInv, LimiterTypes, Counter
<1>3. /\ window[k].start <= clock /\ window[k].n >= 1
      /\ \A a \in HitsOf(k) : /\ a.time <= clock /\ a.time < window[k].start + Window
                              /\ a.time >= window[k].start => a.nth <= window[k].n
      /\ \E o \in HitsOf(k) : o.nth = 1 /\ o.time = window[k].start
      /\ \A i \in 1 .. window[k].n : i <= L =>
           \E a \in HitsOf(k) : a.nth = i /\ a.time >= window[k].start
    BY <1>1 DEF LimiterInv, CountersCount
<1>4. /\ c \in Counter /\ c # None /\ c.start = window[k].start /\ c.n = window[k].n + 1
      /\ h \in HitsAre /\ h.key = k /\ h.time = clock /\ h.nth = window[k].n + 1
    BY <1>2, NoWindowAssumption DEF Counter, HitsAre
<1>5. /\ window' = [window EXCEPT ![k] = c]
      /\ \/ c.n <= L /\ admitted' = admitted \cup {h}
         \/ ~(c.n <= L) /\ admitted' = admitted
  <2>1. Pipeline!Fits(k) <=> c.n <= L
      BY <1>1 DEF Pipeline!Fits
  <2>2. Pipeline!Counted(k).n = window[k].n + 1
      BY <1>1, <1>4
  <2> QED
      BY <1>1, <2>1, <2>2 DEF Pipeline!Hit
<1> HIDE DEF c, h, L
<1>6. LimiterTypes'
    BY <1>2, <1>4, <1>5 DEF LimiterTypes
<1>7. /\ \A j \in Pipeline!Keys \ {k} : window'[j] = window[j] /\ HitsOf(j)' = HitsOf(j)
      /\ window'[k] = c
      /\ HitsOf(k) \subseteq HitsOf(k)'
      /\ \A a \in HitsOf(k)' : a \in HitsOf(k) \/ a = h
      /\ c.n <= L => h \in HitsOf(k)'
    BY <1>2, <1>4, <1>5 DEF HitsOf
<1>8. CountersCount'
  <2> SUFFICES ASSUME NEW j \in Pipeline!Keys
               PROVE  /\ window'[j] = None => HitsOf(j)' = {}
                      /\ window'[j] # None =>
                           /\ window'[j].start <= clock /\ window'[j].n >= 1
                           /\ \A a \in HitsOf(j)' :
                                /\ a.time <= clock /\ a.time < window'[j].start + Window
                                /\ a.time >= window'[j].start => a.nth <= window'[j].n
                           /\ \E o \in HitsOf(j)' : o.nth = 1 /\ o.time = window'[j].start
                           /\ \A i \in 1 .. window'[j].n : i <= Limits[j[2]] =>
                                \E a \in HitsOf(j)' : a.nth = i /\ a.time >= window'[j].start
      BY DEF CountersCount
  <2>1. CASE j # k
      BY <2>1, <1>7 DEF LimiterInv, CountersCount
  <2>2. CASE j = k
    <3>1. window'[k] # None /\ window'[k].start = window[k].start /\ window'[k].n = window[k].n + 1
        BY <1>7, <1>4
    <3>2. ASSUME NEW a \in HitsOf(k)'
          PROVE  /\ a.time <= clock /\ a.time < window[k].start + Window
                 /\ (a.time >= window[k].start => a.nth <= window[k].n + 1)
      <4>1. CASE a = h
          BY <4>1, <1>1, <1>2, <1>3, <1>4
      <4>2. CASE a \in HitsOf(k)
        <5>1. a.nth \in Nat
            BY <4>2, <1>2 DEF HitsOf, HitsAre
        <5> QED
            BY <4>2, <5>1, <1>2, <1>3
      <4> QED
          BY <1>7, <4>1, <4>2
    <3>3. \E o \in HitsOf(k)' : o.nth = 1 /\ o.time = window[k].start
        BY <1>3, <1>7
    <3>4. ASSUME NEW i \in 1 .. window[k].n + 1, i <= L
          PROVE  \E a \in HitsOf(k)' : a.nth = i /\ a.time >= window[k].start
      <4>1. CASE i = window[k].n + 1
          BY <4>1, <3>4, <1>2, <1>3, <1>4, <1>7
      <4>2. CASE i # window[k].n + 1
        <5>1. i \in 1 .. window[k].n
            BY <4>2, <1>2
        <5> QED
            BY <5>1, <3>4, <1>3, <1>7
      <4> QED
          BY <4>1, <4>2
    <3>5. window[k].start <= clock /\ window[k].n + 1 >= 1
        BY <1>2, <1>3
    <3> QED
        BY <2>2, <3>1, <3>2, <3>3, <3>4, <3>5 DEF L
  <2> QED
      BY <2>1, <2>2
<1>9. CASE ~(c.n <= L)
  <2>1. admitted' = admitted
      BY <1>5, <1>9
  <2> QED
      BY <1>6, <1>8, <2>1
      DEF LimiterInv, NumbersFit, HitsHaveOpenings, OpeningsApart, OneHitPerNumber
<1>10. CASE c.n <= L
  <2>1. admitted' = admitted \cup {h} /\ h.nth # 1
      BY <1>2, <1>3, <1>4, <1>5, <1>10
  <2>2. NumbersFit'
      BY <2>1, <1>2, <1>4, <1>10 DEF LimiterInv, NumbersFit, L
  <2>3. HitsHaveOpenings'
    <3>1. PICK o \in HitsOf(k) : o.nth = 1 /\ o.time = window[k].start
        BY <1>3
    <3>2. o \in admitted /\ Opens(o, h)
        BY <3>1, <1>1, <1>3, <1>4 DEF Opens, HitsOf
    <3> QED
        BY <2>1, <3>2 DEF LimiterInv, HitsHaveOpenings
  <2>4. OpeningsApart'
      BY <2>1 DEF LimiterInv, OpeningsApart
  <2>5. ASSUME NEW o \in admitted, Opens(o, h)
        PROVE  o.time = window[k].start
    <3>1. o \in HitsAre /\ o.time \in Nat /\ o.key = k /\ o.nth = 1 /\ clock < o.time + Window
        BY <2>5, <1>2, <1>4 DEF HitsAre, Opens
    <3>2. PICK p \in HitsOf(k) : p.nth = 1 /\ p.time = window[k].start
        BY <1>3
    <3>3. p \in admitted /\ p.key = k
        BY <3>2 DEF HitsOf
    <3>4. o \in HitsOf(k) /\ o.time < window[k].start + Window
        BY <3>1, <1>3 DEF HitsOf
    <3>5. ~(o.time < p.time)
      <4>1. SUFFICES ASSUME o.time < p.time PROVE FALSE
          OBVIOUS
      <4>2. o.time + Window <= p.time
          BY <4>1, <3>1, <3>2, <3>3 DEF LimiterInv, OpeningsApart
      <4> QED
          BY <4>2, <3>1, <3>2, <1>2, <1>3
    <3>6. ~(p.time < o.time)
      <4>1. SUFFICES ASSUME p.time < o.time PROVE FALSE
          OBVIOUS
      <4>2. p.time + Window <= o.time
          BY <4>1, <3>1, <3>2, <3>3 DEF LimiterInv, OpeningsApart
      <4> QED
          BY <4>2, <3>1, <3>2, <3>4, <1>2
    <3> QED
        BY <3>1, <3>2, <3>5, <3>6, <1>2
  <2>6. ASSUME NEW o \in admitted, NEW a \in admitted, Opens(o, a), Opens(o, h)
        PROVE  a.nth # h.nth
    <3>1. o.time = window[k].start /\ a.time >= o.time /\ a.key = k
        BY <2>6, <2>5, <1>2, <1>4 DEF Opens, HitsAre
    <3>2. a \in HitsOf(k) /\ a.nth <= window[k].n /\ a.nth \in Nat
        BY <3>1, <1>2, <1>3 DEF HitsOf, HitsAre
    <3> QED
        BY <3>2, <1>2, <1>4
  <2>7. \A a : ~Opens(h, a)
      BY <2>1 DEF Opens
  <2>8. OneHitPerNumber'
      BY <2>1, <2>6, <2>7 DEF LimiterInv, OneHitPerNumber
  <2> QED
      BY <1>6, <1>8, <2>2, <2>3, <2>4, <2>8 DEF LimiterInv
<1> QED
    BY <1>9, <1>10

LEMMA HitKeepsCount ==
    ASSUME LimiterInv, clock' = clock, NEW k \in Pipeline!Keys, Pipeline!Hit(k)
    PROVE  LimiterInv'
BY HitInNewWindow, HitInSameWindow

\* Time passes.
LEMMA TickKeepsCount ==
    ASSUME LimiterInv, clock' \in Nat, clock' >= clock, window' = window, admitted' = admitted
    PROVE  LimiterInv'
<1>1. LimiterTypes' /\ NumbersFit' /\ HitsHaveOpenings' /\ OpeningsApart' /\ OneHitPerNumber'
    BY DEF LimiterInv, LimiterTypes, NumbersFit, HitsHaveOpenings, OpeningsApart, OneHitPerNumber
<1>2. \A k : HitsOf(k)' = HitsOf(k)
    BY DEF HitsOf
<1>3. /\ clock \in Nat /\ \A a \in admitted : a.time \in Nat
      /\ \A k \in Pipeline!Keys : window[k] # None => window[k].start \in Nat
    BY DEF LimiterInv, LimiterTypes, HitsAre, Counter
<1>4. CountersCount'
  <2> SUFFICES ASSUME NEW k \in Pipeline!Keys, window[k] # None
               PROVE  /\ window[k].start <= clock'
                      /\ \A a \in HitsOf(k) : a.time <= clock'
      BY <1>2 DEF CountersCount, LimiterInv
  <2>1. window[k].start <= clock /\ \A a \in HitsOf(k) : a.time <= clock /\ a \in admitted
      BY DEF LimiterInv, CountersCount, HitsOf
  <2> QED
      BY <2>1, <1>3
<1> QED
    BY <1>1, <1>4 DEF LimiterInv

\* A process that has just started, or has ended, counts nothing.
LEMMA NothingCounted ==
    ASSUME clock \in Nat, window = [k \in Pipeline!Keys |-> None], admitted = {}
    PROVE  LimiterInv
<1>1. \A k : HitsOf(k) = {}
    BY DEF HitsOf
<1>2. \A k \in Pipeline!Keys : window[k] = None
    OBVIOUS
<1> QED
    BY <1>1, <1>2 DEF LimiterInv, LimiterTypes, CountersCount, NumbersFit, HitsHaveOpenings,
                      OpeningsApart, OneHitPerNumber

-----------------------------------------------------------------------------
(* Both invariants hold of the pipeline *)

PipelineInv == LimiterInv /\ RequestsInv

\* A request with these fields, and what EXCEPT makes of the one with no content.
Trip(at, route, user, ip, code, said) ==
    [at |-> at, route |-> route, user |-> user, ip |-> ip, code |-> code, lines |-> said]

LEMMA Trips ==
    ASSUME NEW at \in Places, NEW route \in Pipeline!Routes \cup {"none"},
           NEW user \in Callers \cup {None}, NEW ip \in Ips \cup {None},
           NEW code \in AnswerCodes, NEW said \in SaidSoFar
    PROVE  /\ Trip(at, route, user, ip, code, said) \in Travelling
           /\ Trip(at, route, user, ip, code, said).at = at
           /\ Trip(at, route, user, ip, code, said).route = route
           /\ Trip(at, route, user, ip, code, said).ip = ip
           /\ Trip(at, route, user, ip, code, said).code = code
           /\ Trip(at, route, user, ip, code, said).lines = said
BY DEF Travelling, Trip

LEMMA NoRequests ==
    /\ Pipeline!NoRequest = Trip("unused", "none", None, None, "none", <<>>)
    /\ Pipeline!Done = Trip("answered", "none", None, None, "none", <<>>)
BY DEF Pipeline!NoRequest, Pipeline!Done, Trip

LEMMA LeavingTrip ==
    ASSUME NEW at, NEW code, NEW said, NEW q,
           q = [Pipeline!NoRequest EXCEPT !.at = at, !.code = code, !.lines = said]
    PROVE  q = Trip(at, "none", None, None, code, said)
<1> DEFINE Fields == {"at", "route", "user", "ip", "code", "lines"}
<1>1. /\ DOMAIN q = Fields /\ q = [f \in Fields |-> q[f]]
      /\ q.at = at /\ q.route = "none" /\ q.user = None /\ q.ip = None
      /\ q.code = code /\ q.lines = said
    BY DEF Pipeline!NoRequest
<1> QED
    BY <1>1 DEF Trip

LEMMA ArrivingTrip ==
    ASSUME NEW at, NEW route, NEW user, NEW ip, NEW q,
           q = [Pipeline!NoRequest EXCEPT !.at = at, !.route = route, !.user = user, !.ip = ip]
    PROVE  q = Trip(at, route, user, ip, "none", <<>>)
<1> DEFINE Fields == {"at", "route", "user", "ip", "code", "lines"}
<1>1. /\ DOMAIN q = Fields /\ q = [f \in Fields |-> q[f]]
      /\ q.at = at /\ q.route = route /\ q.user = user /\ q.ip = ip
      /\ q.code = "none" /\ q.lines = <<>>
    BY DEF Pipeline!NoRequest
<1> QED
    BY <1>1 DEF Trip

\* A request moves on, the limiter counting it or not.
LEMMA Travels ==
    ASSUME RequestsInv, NEW r \in Requests, NEW q \in Travelling, WayOut(q),
           asked' = [asked EXCEPT ![r] = q]
    PROVE  RequestsInv'
BY DEF RequestsInv, WayOut

LEMMA LeavesTravels ==
    ASSUME RequestsInv, NEW r \in Requests, NEW at, NEW code, NEW said,
           Pipeline!Leaves(r, at, code, said),
           \/ at = "refused" /\ code = "429" /\ said \in {<<>>, <<"rate_limit_exceeded">>}
           \/ at = "returning" /\ code = "2xx" /\ said = <<>>
           \/ at = "returning" /\ code \in {"4xx", "422", "429"}
              /\ said \in {<<e>> : e \in {"http_exception", "validation_error",
                             "notes_limit_exceeded", "rate_limit_exceeded"}}
           \/ at = "raising" /\ code = "500" /\ said = <<>>
    PROVE  RequestsInv' /\ asked'[r].code = code
<1> DEFINE q == Trip(at, "none", None, None, code, said)
<1>1. asked' = [asked EXCEPT ![r] = q]
  <2>1. [Pipeline!NoRequest EXCEPT !.at = at, !.code = code, !.lines = said] = q
      BY LeavingTrip, Zenon
  <2> HIDE DEF q
  <2> QED
      BY <2>1 DEF Pipeline!Leaves
<1>2. said \in SaidSoFar
    BY DEF SaidSoFar
<1>3. /\ q \in Travelling
      /\ q.at = at /\ q.code = code /\ q.lines = said
  <2>1. /\ at \in Places /\ code \in AnswerCodes
        /\ "none" \in Pipeline!Routes \cup {"none"}
        /\ None \in Callers \cup {None} /\ None \in Ips \cup {None}
      BY DEF Places, AnswerCodes
  <2>2. q \in Travelling
      BY <1>2, <2>1, Trips
  <2>3. q.at = at /\ q.code = code /\ q.lines = said
      BY DEF Trip
  <2> QED
      BY <2>2, <2>3
<1> HIDE DEF q
<1>4. \A e : <<e>> # <<>>
    OBVIOUS
<1>5. WayOut(q)
    BY <1>3, <1>4 DEF WayOut
<1>6. asked'[r] = q
    BY <1>1 DEF RequestsInv
<1> QED
    BY <1>1, <1>3, <1>5, <1>6, Travels

LEMMA HandledTravels ==
    ASSUME RequestsInv, NEW r \in Requests, NEW exc \in DOMAIN Pipeline!Errors,
           Pipeline!Handled(r, exc)
    PROVE  RequestsInv' /\ asked'[r].code = Pipeline!CodeOf[exc]
<1>1. exc \in {"HTTPException", "RequestValidationError", "NotesLimitExceeded",
               "RateLimitExceeded"}
    BY DEF Pipeline!Errors
<1>2. /\ Pipeline!CodeOf[exc] \in {"4xx", "422", "429"}
      /\ Pipeline!Errors[exc] \in {"http_exception", "validation_error",
                                   "notes_limit_exceeded", "rate_limit_exceeded"}
    BY <1>1 DEF Pipeline!CodeOf, Pipeline!Errors
<1> QED
    BY <1>2, LeavesTravels DEF Pipeline!Handled

\* The request that is answered is done.
LEMMA DoneTravels ==
    ASSUME RequestsInv, NEW r \in Requests, asked' = [asked EXCEPT ![r] = Pipeline!Done]
    PROVE  RequestsInv' /\ asked'[r].code = "none"
<1> DEFINE q == Trip("answered", "none", None, None, "none", <<>>)
<1>1. asked' = [asked EXCEPT ![r] = q]
    BY NoRequests
<1>2. q \in Travelling /\ q.at = "answered" /\ q.code = "none"
    BY Trips DEF SaidSoFar, Places, AnswerCodes
<1> HIDE DEF q
<1>3. WayOut(q)
    BY <1>2 DEF WayOut
<1>4. asked'[r] = q
    BY <1>1 DEF RequestsInv
<1> QED
    BY <1>1, <1>2, <1>3, <1>4, Travels

\* What one step does to the requests: it changes the code of one at most.
LEMMA StepOfRequests ==
    ASSUME RequestsInv, NEW r \in Requests,
           \/ \E route \in Pipeline!Routes, user \in Callers \cup {None}, ip \in Ips :
                Pipeline!Arrive(r, route, user, ip)
           \/ Pipeline!Pass(r) \/ Pipeline!RefuseEarly(r) \/ Pipeline!InvalidBody(r)
           \/ Pipeline!RefuseLate(r) \/ Pipeline!RunRoute(r)
           \/ Pipeline!Return(r) \/ Pipeline!ReturnRefusal(r) \/ Pipeline!Raise(r) \/ Pipeline!Preflight(r)
    PROVE  /\ RequestsInv'
           /\ \A s \in Requests : asked'[s].code = "429" /\ asked[s].code # "429" =>
                 s = r /\ (Pipeline!RefuseEarly(r) \/ Pipeline!RefuseLate(r))
<1>1. ASSUME NEW route \in Pipeline!Routes, NEW user \in Callers \cup {None}, NEW ip \in Ips,
             Pipeline!Arrive(r, route, user, ip)
      PROVE  /\ RequestsInv' /\ asked'[r].code = "none"
             /\ \A s \in Requests \ {r} : asked'[s] = asked[s]
  <2> DEFINE q == Trip("identified", route, user, ip, "none", <<>>)
  <2>1. asked' = [asked EXCEPT ![r] = q]
    <3>1. [Pipeline!NoRequest EXCEPT !.at = "identified", !.route = route, !.user = user,
                                     !.ip = ip] = q
        BY ArrivingTrip, Zenon
    <3> HIDE DEF q
    <3> QED
        BY <1>1, <3>1 DEF Pipeline!Arrive
  <2>2. /\ q \in Travelling
        /\ q.at = "identified" /\ q.route = route /\ q.ip = ip /\ q.code = "none"
      BY Trips DEF SaidSoFar, Places, AnswerCodes
  <2> HIDE DEF q
  <2>4. WayOut(q)
      BY <2>2 DEF WayOut
  <2>3. asked'[r] = q /\ \A s \in Requests \ {r} : asked'[s] = asked[s]
      BY <2>1 DEF RequestsInv
  <2> QED
      BY <2>1, <2>2, <2>3, <2>4, Travels
<1>2. ASSUME Pipeline!Pass(r)
      PROVE  /\ RequestsInv' /\ asked'[r].code = asked[r].code
             /\ \A s \in Requests \ {r} : asked'[s] = asked[s]
  <2> DEFINE q == [asked[r] EXCEPT !.at = "routing"]
  <2>1. asked' = [asked EXCEPT ![r] = q]
      BY <1>2 DEF Pipeline!Pass
  <2>2. asked[r] \in Travelling /\ WayOut(asked[r]) /\ asked[r].at = "identified"
      BY <1>2 DEF RequestsInv, Pipeline!Pass
  <2>3. q \in Travelling
    <3>1. asked[r] \in Travelling
        BY <2>2
    <3> QED
        BY <3>1 DEF Travelling, Places
  <2>4. /\ q.at = "routing" /\ q.code = asked[r].code /\ q.route = asked[r].route
        /\ q.ip = asked[r].ip
      BY <2>2 DEF Travelling
  <2>5. WayOut(q)
      BY <2>2, <2>4 DEF WayOut
  <2>6. asked'[r] = q /\ \A s \in Requests \ {r} : asked'[s] = asked[s]
      BY <2>1 DEF RequestsInv
  <2> QED
      BY <2>1, <2>3, <2>4, <2>5, <2>6, Travels
<1>3. ASSUME Pipeline!RefuseEarly(r)
      PROVE  RequestsInv' /\ \A s \in Requests \ {r} : asked'[s] = asked[s]
  <2>1. PICK said \in {<<>>, <<"rate_limit_exceeded">>} :
          Pipeline!Leaves(r, "refused", "429", said)
      BY <1>3 DEF Pipeline!RefuseEarly
  <2> QED
      BY <2>1, LeavesTravels DEF Pipeline!Leaves, RequestsInv
<1>4. ASSUME Pipeline!InvalidBody(r)
      PROVE  /\ RequestsInv' /\ asked'[r].code = "422"
             /\ \A s \in Requests \ {r} : asked'[s] = asked[s]
  <2>1. Pipeline!Handled(r, "RequestValidationError")
        /\ "RequestValidationError" \in DOMAIN Pipeline!Errors
        /\ Pipeline!CodeOf["RequestValidationError"] = "422"
      BY <1>4 DEF Pipeline!InvalidBody, Pipeline!Errors, Pipeline!CodeOf
  <2>2. \A s \in Requests \ {r} : asked'[s] = asked[s]
      BY <2>1 DEF Pipeline!Handled, Pipeline!Leaves, RequestsInv
  <2> QED
      BY <2>1, <2>2, HandledTravels
<1>5. ASSUME Pipeline!RefuseLate(r)
      PROVE  RequestsInv' /\ \A s \in Requests \ {r} : asked'[s] = asked[s]
  <2>1. Pipeline!Handled(r, "RateLimitExceeded")
        /\ "RateLimitExceeded" \in DOMAIN Pipeline!Errors
      BY <1>5 DEF Pipeline!RefuseLate, Pipeline!Errors
  <2>2. \A s \in Requests \ {r} : asked'[s] = asked[s]
      BY <2>1 DEF Pipeline!Handled, Pipeline!Leaves, RequestsInv
  <2> QED
      BY <2>1, <2>2, HandledTravels
<1>6. ASSUME Pipeline!RunRoute(r)
      PROVE  /\ RequestsInv' /\ asked'[r].code # "429"
             /\ \A s \in Requests \ {r} : asked'[s] = asked[s]
  <2>1. \/ Pipeline!Leaves(r, "returning", "2xx", <<>>)
        \/ Pipeline!Handled(r, "HTTPException")
        \/ Pipeline!Handled(r, "NotesLimitExceeded")
        \/ Pipeline!Leaves(r, "raising", "500", <<>>)
      BY <1>6 DEF Pipeline!RunRoute, Pipeline!RouteEnds
  <2>2. /\ "HTTPException" \in DOMAIN Pipeline!Errors
        /\ "NotesLimitExceeded" \in DOMAIN Pipeline!Errors
        /\ Pipeline!CodeOf["HTTPException"] = "4xx"
        /\ Pipeline!CodeOf["NotesLimitExceeded"] = "422"
      BY DEF Pipeline!Errors, Pipeline!CodeOf
  <2>3. \A s \in Requests \ {r} : asked'[s] = asked[s]
      BY <2>1 DEF Pipeline!Handled, Pipeline!Leaves, RequestsInv
  <2>4. CASE Pipeline!Leaves(r, "returning", "2xx", <<>>)
      BY <2>3, <2>4, LeavesTravels
  <2>5. CASE Pipeline!Handled(r, "HTTPException")
      BY <2>2, <2>3, <2>5, HandledTravels
  <2>6. CASE Pipeline!Handled(r, "NotesLimitExceeded")
      BY <2>2, <2>3, <2>6, HandledTravels
  <2>7. CASE Pipeline!Leaves(r, "raising", "500", <<>>)
      BY <2>3, <2>7, LeavesTravels
  <2> QED
      BY <2>1, <2>4, <2>5, <2>6, <2>7
<1>7. ASSUME Pipeline!Return(r) \/ Pipeline!ReturnRefusal(r) \/ Pipeline!Raise(r)
      PROVE  /\ RequestsInv' /\ asked'[r].code = "none"
             /\ \A s \in Requests \ {r} : asked'[s] = asked[s]
  <2>1. PICK said : Pipeline!Answered(r, TRUE, said)
      BY <1>7 DEF Pipeline!Return, Pipeline!ReturnRefusal, Pipeline!Raise
  <2>2. \A s \in Requests \ {r} : asked'[s] = asked[s]
      BY <2>1 DEF Pipeline!Answered, RequestsInv
  <2> QED
      BY <2>1, <2>2, DoneTravels DEF Pipeline!Answered
<1>8. ASSUME Pipeline!Preflight(r)
      PROVE  /\ RequestsInv' /\ asked'[r].code = "none"
             /\ \A s \in Requests \ {r} : asked'[s] = asked[s]
  <2>1. asked' = [asked EXCEPT ![r] = Pipeline!Done]
      BY <1>8 DEF Pipeline!Preflight
  <2> QED
      BY <2>1, DoneTravels DEF RequestsInv
<1> QED
    BY <1>1, <1>2, <1>3, <1>4, <1>5, <1>6, <1>7, <1>8

\* A step of a request lets the limiter count it once, or leaves the limiter alone.
LEMMA StepOfCounters ==
    ASSUME PipelineInv, NEW r \in Requests,
           \/ \E route \in Pipeline!Routes, user \in Callers \cup {None}, ip \in Ips :
                Pipeline!Arrive(r, route, user, ip)
           \/ Pipeline!Pass(r) \/ Pipeline!RefuseEarly(r) \/ Pipeline!InvalidBody(r)
           \/ Pipeline!RefuseLate(r) \/ Pipeline!RunRoute(r)
           \/ Pipeline!Return(r) \/ Pipeline!ReturnRefusal(r) \/ Pipeline!Raise(r) \/ Pipeline!Preflight(r)
    PROVE  LimiterInv'
<1>1. clock' = clock
    BY DEF Pipeline!Arrive, Pipeline!Pass, Pipeline!RefuseEarly, Pipeline!InvalidBody,
           Pipeline!RefuseLate, Pipeline!RunRoute, Pipeline!Return, Pipeline!ReturnRefusal,
           Pipeline!Raise, Pipeline!Preflight
<1>2. \/ UNCHANGED <<window, admitted>>
      \/ /\ asked[r].at \in {"identified", "routing"}
         /\ asked[r].route \in {"plain", "limited"}
         /\ Pipeline!Hit(Pipeline!KeyOf(asked[r]))
    BY DEF Pipeline!Arrive, Pipeline!Pass, Pipeline!RefuseEarly, Pipeline!InvalidBody,
           Pipeline!RefuseLate, Pipeline!RunRoute, Pipeline!Return, Pipeline!ReturnRefusal,
           Pipeline!Raise, Pipeline!Preflight, Pipeline!CountsHere
<1>3. CASE UNCHANGED <<window, admitted>>
  <2>1. clock' \in Nat /\ clock' >= clock
      BY <1>1 DEF PipelineInv, LimiterInv, LimiterTypes
  <2> QED
      BY <1>3, <2>1, TickKeepsCount DEF PipelineInv
<1>4. CASE /\ asked[r].at \in {"identified", "routing"}
           /\ asked[r].route \in {"plain", "limited"}
           /\ Pipeline!Hit(Pipeline!KeyOf(asked[r]))
    BY <1>1, <1>4, CountedKeys, HitKeepsCount DEF PipelineInv
<1> QED
    BY <1>2, <1>3, <1>4

LEMMA PipelineInvInitial == Pipeline!Init => PipelineInv
<1> SUFFICES ASSUME Pipeline!Init PROVE PipelineInv
    OBVIOUS
<1>1. LimiterInv
    BY NothingCounted DEF Pipeline!Init
<1>2. RequestsInv
  <2> DEFINE q == Trip("unused", "none", None, None, "none", <<>>)
  <2>1. asked = [r \in Requests |-> q]
      BY NoRequests DEF Pipeline!Init
  <2>2. q \in Travelling /\ q.at = "unused"
      BY Trips DEF SaidSoFar, Places, AnswerCodes
  <2> HIDE DEF q
  <2>3. WayOut(q)
      BY <2>2 DEF WayOut
  <2> QED
      BY <2>1, <2>2, <2>3 DEF RequestsInv
<1> QED
    BY <1>1, <1>2 DEF PipelineInv

LEMMA PipelineInvStep == PipelineInv /\ [Pipeline!Next]_pipeline_vars => PipelineInv'
<1> SUFFICES ASSUME PipelineInv, [Pipeline!Next]_pipeline_vars PROVE PipelineInv'
    OBVIOUS
<1>1. CASE UNCHANGED pipeline_vars
  <2>1. UNCHANGED <<clock, window, admitted, asked>>
      BY <1>1 DEF pipeline_vars
  <2>2. RequestsInv'
      BY <2>1 DEF PipelineInv, RequestsInv
  <2>3. clock' \in Nat /\ clock' >= clock
      BY <2>1 DEF PipelineInv, LimiterInv, LimiterTypes
  <2> QED
      BY <2>1, <2>2, <2>3, TickKeepsCount DEF PipelineInv
<1>2. CASE Pipeline!Stop
  <2>1. LimiterInv'
    <3>1. clock' \in Nat /\ window' = [k \in Pipeline!Keys |-> None] /\ admitted' = {}
        BY <1>2 DEF Pipeline!Stop, PipelineInv, LimiterInv, LimiterTypes
    <3>2. \A k \in Pipeline!Keys : window'[k] = None
        BY <3>1
    <3> QED
        BY <3>1, <3>2 DEF LimiterInv, LimiterTypes, CountersCount, NumbersFit, HitsOf,
                          HitsHaveOpenings, OpeningsApart, OneHitPerNumber
  <2>2. RequestsInv'
    <3>1. asked' = [r \in Requests |-> IF asked[r].at = "unused" THEN Pipeline!NoRequest
                                                                 ELSE Pipeline!Done]
        BY <1>2 DEF Pipeline!Stop
    <3>2. ASSUME NEW at \in {"unused", "answered"}
          PROVE  Trip(at, "none", None, None, "none", <<>>) \in Travelling
                 /\ WayOut(Trip(at, "none", None, None, "none", <<>>))
      <4>1. /\ at \in Places /\ "none" \in AnswerCodes /\ <<>> \in SaidSoFar
            /\ "none" \in Pipeline!Routes \cup {"none"}
          BY DEF Places, AnswerCodes, SaidSoFar
      <4>2. Trip(at, "none", None, None, "none", <<>>).at = at
          BY DEF Trip
      <4>3. WayOut(Trip(at, "none", None, None, "none", <<>>))
          BY <4>2 DEF WayOut
      <4> QED
          BY <4>1, <4>3, Trips
    <3>3. /\ Pipeline!NoRequest \in Travelling /\ WayOut(Pipeline!NoRequest)
          /\ Pipeline!Done \in Travelling /\ WayOut(Pipeline!Done)
        BY <3>2, NoRequests
    <3> QED
        BY <3>1, <3>3 DEF RequestsInv
  <2> QED
      BY <2>1, <2>2 DEF PipelineInv
<1>3. CASE Pipeline!Tick
  <2>1. clock' \in Nat /\ clock' >= clock /\ window' = window /\ admitted' = admitted
      BY <1>3 DEF Pipeline!Tick, PipelineInv, LimiterInv, LimiterTypes
  <2>2. RequestsInv'
      BY <1>3 DEF Pipeline!Tick, PipelineInv, RequestsInv
  <2> QED
      BY <2>1, <2>2, TickKeepsCount DEF PipelineInv
<1>4. CASE \E e \in StartedWith : Pipeline!Start(e)
  <2>1. clock' \in Nat /\ clock' >= clock /\ window' = window /\ admitted' = admitted
      BY <1>4 DEF Pipeline!Start, PipelineInv, LimiterInv, LimiterTypes
  <2>2. RequestsInv'
      BY <1>4 DEF Pipeline!Start, PipelineInv, RequestsInv
  <2> QED
      BY <2>1, <2>2, TickKeepsCount DEF PipelineInv
<1>5. CASE \E r \in Requests :
             \/ \E route \in Pipeline!Routes, user \in Callers \cup {None}, ip \in Ips :
                  Pipeline!Arrive(r, route, user, ip)
             \/ Pipeline!Pass(r) \/ Pipeline!RefuseEarly(r) \/ Pipeline!InvalidBody(r)
             \/ Pipeline!RefuseLate(r) \/ Pipeline!RunRoute(r)
             \/ Pipeline!Return(r) \/ Pipeline!ReturnRefusal(r) \/ Pipeline!Raise(r) \/ Pipeline!Preflight(r)
    BY <1>5, StepOfRequests, StepOfCounters DEF PipelineInv
<1> QED
    BY <1>1, <1>2, <1>3, <1>4, <1>5 DEF Pipeline!Next

\* The invariants hold in every state.
THEOREM PipelineInductive == PipelineSpec => []PipelineInv
<1> QED
    BY PipelinePart, PipelineInvInitial, PipelineInvStep, PTL

-----------------------------------------------------------------------------
(* The limit of a window *)

\* The hits of a caller on a path in the window that o opened, numbered from l on.
LEMMA OfOneOpening ==
    ASSUME LimiterInv, NEW k \in Pipeline!Keys, NEW o \in admitted,
           NEW l \in Nat, NEW S \in SUBSET HitsOf(k),
           \A a \in S : Opens(o, a) /\ a.nth >= l
    PROVE  IsFiniteSet(S) /\ Cardinality(S) <= Cardinality(l .. Limits[k[2]])
<1> DEFINE f == [a \in S |-> a.nth]
           T == l .. Limits[k[2]]
<1>1. \A a \in S : a \in admitted /\ a.key = k /\ a.nth \in Nat
    BY DEF HitsOf, LimiterInv, LimiterTypes, HitsAre
<1>2. Limits[k[2]] \in Nat
    BY LimitsArePositive
<1>3. \A a \in S : a.nth \in T
    BY <1>1, <1>2 DEF LimiterInv, NumbersFit
<1>4. \A a, b \in S : a.nth = b.nth => a = b
    BY <1>1 DEF LimiterInv, OneHitPerNumber
<1>5. f \in Injection(S, T)
    BY <1>3, <1>4 DEF Injection, IsInjective
<1>6. IsFiniteSet(T)
    BY <1>2, FS_Interval, SMTT(30)
<1> QED
    BY <1>5, <1>6, FS_Injection

\* Two openings of a caller on a path less than a window apart are one.
LEMMA OneOpening ==
    ASSUME LimiterInv, NEW o \in admitted, NEW p \in admitted, o.key = p.key,
           o.nth = 1, p.nth = 1, o.time < p.time + Window, p.time < o.time + Window
    PROVE  o = p
<1>1. o.time \in Nat /\ p.time \in Nat /\ Window \in Nat
    BY LimitsAssumption DEF LimiterInv, LimiterTypes, HitsAre
<1>2. ~(o.time < p.time) /\ ~(p.time < o.time)
    BY <1>1 DEF LimiterInv, OpeningsApart
<1>3. Opens(o, o) /\ Opens(o, p)
    BY <1>1, <1>2, LimitsAssumption DEF Opens
<1> QED
    BY <1>3 DEF LimiterInv, OneHitPerNumber

\* The pipeline's module counts as this one does.
LEMMA SameCardinality == \A S : Pipeline!Cardinality(S) = Cardinality(S)
BY DEF Pipeline!Cardinality, Cardinality

LEMMA CountsAreBounded == PipelineInv => FewerThanTwice
<1> SUFFICES ASSUME PipelineInv PROVE FewerThanTwice
    OBVIOUS
<1>0. LimiterInv
    BY DEF PipelineInv
<1> SUFFICES ASSUME NEW k \in Pipeline!Keys, NEW t \in 0 .. MaxTime
             PROVE  /\ Cardinality(Pipeline!Admitted(k, t, t + Window)) < 2 * Limits[k[2]]
                    /\ window[k] # None =>
                         Cardinality(Pipeline!Admitted(k, window[k].start, window[k].start + Window))
                           <= Limits[k[2]]
    BY SameCardinality DEF FewerThanTwice, Pipeline!FewerThanTwice
<1> DEFINE L == Limits[k[2]]
           A == Pipeline!Admitted(k, t, t + Window)
           Early == {a \in A : \E o \in admitted : Opens(o, a) /\ o.time < t}
           Late == A \ Early
<1>1. L \in Nat /\ L >= 1 /\ t \in Nat /\ Window \in Nat /\ Window >= 1
    BY LimitsArePositive, LimitsAssumption
<1>2. \A a \in admitted : a.time \in Nat /\ a.nth \in Nat /\ a.nth >= 1
    BY <1>0 DEF LimiterInv, LimiterTypes, NumbersFit, HitsAre
<1>3. \A a \in A : a \in admitted /\ a.key = k /\ t <= a.time /\ a.time < t + Window
    BY DEF Pipeline!Admitted
<1>4. A \subseteq HitsOf(k)
    BY <1>3 DEF HitsOf
<1> HIDE DEF A, L
<1>5. Cardinality(2 .. L) = L - 1 /\ Cardinality(1 .. L) = L
  <2>1. Cardinality(2 .. L) = (IF 2 > L THEN 0 ELSE L - 2 + 1)
      BY <1>1, FS_Interval
  <2>2. Cardinality(1 .. L) = (IF 1 > L THEN 0 ELSE L - 1 + 1)
      BY <1>1, FS_Interval
  <2> QED
      BY <2>1, <2>2, <1>1
<1>6. IsFiniteSet(Early) /\ Cardinality(Early) <= L - 1
  <2>1. CASE Early = {}
      BY <2>1, <1>1, FS_EmptySet
  <2>2. CASE Early # {}
    <3>1. PICK b \in A, o \in admitted : Opens(o, b) /\ o.time < t
        BY <2>2
    <3>2. ASSUME NEW a \in Early
          PROVE  Opens(o, a) /\ a.nth >= 2
      <4>1. PICK p \in admitted : Opens(p, a) /\ p.time < t
          BY <3>2
      <4>2. /\ o.key = p.key /\ o.nth = 1 /\ p.nth = 1
            /\ o.time < p.time + Window /\ p.time < o.time + Window
          BY <4>1, <3>1, <1>1, <1>2, <1>3 DEF Opens
      <4>3. o = p
          BY <4>2, <1>0, OneOpening
      <4>4. a.nth # 1
        <5>1. SUFFICES ASSUME a.nth = 1 PROVE FALSE
            OBVIOUS
        <5>2. /\ a \in admitted /\ a.key = o.key
              /\ a.time < o.time + Window /\ o.time < a.time + Window
            BY <4>1, <4>3, <1>1, <1>2, <1>3 DEF Opens
        <5>3. a = o
            BY <5>1, <5>2, <4>2, <1>0, OneOpening
        <5> QED
            BY <5>2, <5>3, <3>1, <1>1, <1>2, <1>3
      <4> QED
          BY <4>1, <4>3, <4>4, <1>2, <1>3
    <3>3. Early \in SUBSET HitsOf(k)
        BY <1>4
    <3> HIDE DEF Early
    <3>4. IsFiniteSet(Early) /\ Cardinality(Early) <= Cardinality(2 .. Limits[k[2]])
        BY <3>2, <3>3, <1>0, OfOneOpening
    <3> QED
        BY <3>4, <1>5 DEF L
  <2> QED
      BY <2>1, <2>2
<1>7. IsFiniteSet(Late) /\ Cardinality(Late) <= L
  <2>1. CASE Late = {}
      BY <2>1, <1>1, FS_EmptySet
  <2>2. CASE Late # {}
    <3>1. PICK b \in Late : TRUE
        BY <2>2
    <3>2. PICK o \in admitted : Opens(o, b)
        BY <1>0, <1>3 DEF LimiterInv, HitsHaveOpenings
    <3>3. ASSUME NEW a \in Late
          PROVE  Opens(o, a) /\ a.nth >= 1
      <4>1. PICK p \in admitted : Opens(p, a)
          BY <1>0, <1>3 DEF LimiterInv, HitsHaveOpenings
      <4>2. o.time >= t /\ p.time >= t
          BY <3>1, <3>2, <3>3, <4>1, <1>1, <1>2
      <4>3. /\ o.key = p.key /\ o.nth = 1 /\ p.nth = 1
            /\ o.time < p.time + Window /\ p.time < o.time + Window
          BY <4>1, <4>2, <3>2, <1>1, <1>2, <1>3 DEF Opens
      <4>4. o = p
          BY <4>3, <1>0, OneOpening
      <4> QED
          BY <4>1, <4>4, <1>2, <1>3
    <3>4. Late \in SUBSET HitsOf(k)
        BY <1>4
    <3> HIDE DEF Late
    <3>5. IsFiniteSet(Late) /\ Cardinality(Late) <= Cardinality(1 .. Limits[k[2]])
        BY <3>3, <3>4, <1>0, OfOneOpening
    <3> QED
        BY <3>5, <1>5 DEF L
  <2> QED
      BY <2>1, <2>2
<1>8. Cardinality(A) < 2 * L
  <2>1. A = Early \cup Late /\ Early \cap Late = {}
      OBVIOUS
  <2> HIDE DEF Early, Late
  <2>2. Cardinality(Early \cup Late) = Cardinality(Early) + Cardinality(Late) - Cardinality({})
      BY <2>1, <1>6, <1>7, FS_Union
  <2>3. Cardinality(Early) \in Nat /\ Cardinality(Late) \in Nat /\ Cardinality({}) = 0
      BY <1>6, <1>7, FS_CardinalityType, FS_EmptySet
  <2> QED
      BY <2>1, <2>2, <2>3, <1>1, <1>6, <1>7
<1>9. ASSUME window[k] # None
      PROVE  Cardinality(Pipeline!Admitted(k, window[k].start, window[k].start + Window)) <= L
  <2> DEFINE B == Pipeline!Admitted(k, window[k].start, window[k].start + Window)
  <2>1. PICK o \in HitsOf(k) : o.nth = 1 /\ o.time = window[k].start
      BY <1>0, <1>9 DEF LimiterInv, CountersCount
  <2>2. o \in admitted /\ o.key = k
      BY DEF HitsOf
  <2>3. B \in SUBSET HitsOf(k)
      BY DEF Pipeline!Admitted, HitsOf
  <2>4. \A a \in B : Opens(o, a) /\ a.nth >= 1
      BY <2>1, <2>2, <1>2 DEF Pipeline!Admitted, Opens
  <2> HIDE DEF B
  <2>5. Cardinality(B) <= Cardinality(1 .. Limits[k[2]])
      BY <2>2, <2>3, <2>4, <1>0, OfOneOpening
  <2> QED
      BY <2>5, <1>5 DEF B, L
<1> QED
    BY <1>8, <1>9 DEF A, L

\* A caller is let through to a path fewer than twice the limit in any interval of
\* the window's length, and at most the limit from the start of a window on:
\* Counted opens a window with a hit and closes it by the clock alone.
THEOREM PipelineFewerThanTwice == PipelineSpec => []FewerThanTwice
<1> QED
    BY PipelineInductive, CountsAreBounded, PTL

-----------------------------------------------------------------------------
(* The refusals of the limiter *)

\* A window with no room for the hit is open, and holds as many hits as the limit.
LEMMA FullWindow ==
    ASSUME LimiterInv, NEW k \in Pipeline!Keys, ~Pipeline!Fits(k)
    PROVE  \E t \in 0 .. clock :
              /\ clock < t + Window
              /\ Cardinality(Pipeline!Admitted(k, t, t + Window)) >= Limits[k[2]]
<1> DEFINE L == Limits[k[2]]
           A == Pipeline!Admitted(k, window[k].start, window[k].start + Window)
<1>1. ~(window[k] = None \/ clock >= window[k].start + Window)
    BY NewWindow
<1>2. /\ window[k] # None /\ window[k] \in Counter /\ clock < window[k].start + Window
      /\ Pipeline!Counted(k) = [start |-> window[k].start, n |-> window[k].n + 1]
    BY <1>1, SameWindow
<1>3. /\ L \in Nat /\ L >= 1 /\ Window \in Nat /\ clock \in Nat
      /\ window[k].start \in Nat /\ window[k].n \in Nat
    BY <1>2, LimitsArePositive, LimitsAssumption DEF LimiterInv, LimiterTypes, Counter
<1>4. window[k].n >= L
  <2>1. Pipeline!Counted(k).n = window[k].n + 1
      BY <1>2
  <2> QED
      BY <2>1, <1>3 DEF Pipeline!Fits
<1>5. window[k].start \in 0 .. clock
    BY <1>2, <1>3 DEF LimiterInv, CountersCount
<1>6. ASSUME NEW i \in 1 .. L
      PROVE  \E a \in A : a.nth = i
  <2>1. i \in 1 .. window[k].n /\ i <= Limits[k[2]]
      BY <1>3, <1>4
  <2>2. PICK a \in HitsOf(k) : a.nth = i /\ a.time >= window[k].start
      BY <1>2, <2>1 DEF LimiterInv, CountersCount
  <2>3. a \in admitted /\ a.key = k /\ a.time < window[k].start + Window /\ a.time \in Nat
      BY <1>2 DEF LimiterInv, LimiterTypes, CountersCount, HitsOf, HitsAre
  <2> QED
      BY <2>2, <2>3, <1>3 DEF Pipeline!Admitted
<1>7. IsFiniteSet(A)
  <2>1. PICK o \in HitsOf(k) : o.nth = 1 /\ o.time = window[k].start
      BY <1>2 DEF LimiterInv, CountersCount
  <2>2. o \in admitted /\ o.key = k
      BY DEF HitsOf
  <2>3. A \in SUBSET HitsOf(k)
      BY DEF Pipeline!Admitted, HitsOf
  <2>4. \A a \in A : Opens(o, a) /\ a.nth >= 1
      BY <2>1, <2>2 DEF Pipeline!Admitted, Opens, LimiterInv, NumbersFit
  <2> HIDE DEF A
  <2> QED
      BY <2>2, <2>3, <2>4, OfOneOpening
<1>8. Cardinality(A) >= L
  <2> HIDE DEF A, L
  <2> DEFINE f == [i \in 1 .. L |-> CHOOSE a \in A : a.nth = i]
  <2>1. \A i \in 1 .. L : f[i] \in A /\ f[i].nth = i
      BY <1>6
  <2>2. f \in Injection(1 .. L, A)
      BY <2>1 DEF Injection, IsInjective
  <2>3. Cardinality(1 .. L) <= Cardinality(A)
      BY <2>2, <1>7, FS_Injection
  <2>4. Cardinality(1 .. L) = (IF 1 > L THEN 0 ELSE L - 1 + 1)
      BY <1>3, FS_Interval
  <2>5. Cardinality(A) \in Nat
      BY <1>7, FS_CardinalityType
  <2> QED
      BY <2>3, <2>4, <2>5, <1>3
<1> QED
    BY <1>2, <1>5, <1>8

\* Whoever is refused has used up a window that is still open: what a step refuses,
\* the limiter has just found not to fit.
THEOREM PipelineRefusedOnlyWhenFull == PipelineSpec => RefusedOnlyWhenFull
<1> DEFINE Refuses ==
      \A r \in Requests : (asked[r].code # "429" /\ asked'[r].code = "429") =>
          \E t \in 0 .. clock :
             /\ clock < t + Window
             /\ Pipeline!Cardinality(Pipeline!Admitted(Pipeline!KeyOf(asked[r]), t, t + Window))
                  >= Limits[asked[r].route]
<1>1. PipelineInv /\ [Pipeline!Next]_pipeline_vars => [Refuses]_pipeline_vars
  <2> SUFFICES ASSUME PipelineInv, Pipeline!Next,
                      NEW r \in Requests, asked[r].code # "429", asked'[r].code = "429"
               PROVE  \E t \in 0 .. clock :
                        /\ clock < t + Window
                        /\ Pipeline!Cardinality(Pipeline!Admitted(Pipeline!KeyOf(asked[r]), t, t + Window))
                             >= Limits[asked[r].route]
      OBVIOUS
  <2>1. Pipeline!RefuseEarly(r) \/ Pipeline!RefuseLate(r)
    <3>1. asked \in [Requests -> Travelling]
        BY DEF PipelineInv, RequestsInv
    <3>2. ~Pipeline!Stop
      <4>1. Pipeline!NoRequest.code # "429" /\ Pipeline!Done.code # "429"
          BY NoRequests DEF Trip
      <4> QED
          BY <4>1 DEF Pipeline!Stop
    <3>3. ~Pipeline!Tick /\ ~\E e \in StartedWith : Pipeline!Start(e)
        BY DEF Pipeline!Tick, Pipeline!Start
    <3>4. PICK s \in Requests :
             \/ \E route \in Pipeline!Routes, user \in Callers \cup {None}, ip \in Ips :
                  Pipeline!Arrive(s, route, user, ip)
             \/ Pipeline!Pass(s) \/ Pipeline!RefuseEarly(s) \/ Pipeline!InvalidBody(s)
             \/ Pipeline!RefuseLate(s) \/ Pipeline!RunRoute(s)
             \/ Pipeline!Return(s) \/ Pipeline!ReturnRefusal(s) \/ Pipeline!Raise(s) \/ Pipeline!Preflight(s)
        BY <3>2, <3>3 DEF Pipeline!Next
    <3> QED
        BY <3>4, StepOfRequests DEF PipelineInv
  <2>2. /\ asked[r].at \in {"identified", "routing"}
        /\ asked[r].route \in {"plain", "limited"}
        /\ ~Pipeline!Fits(Pipeline!KeyOf(asked[r]))
      BY <2>1 DEF Pipeline!RefuseEarly, Pipeline!RefuseLate, Pipeline!CountsHere
  <2>3. /\ Pipeline!KeyOf(asked[r]) \in Pipeline!Keys
        /\ Pipeline!KeyOf(asked[r])[2] = asked[r].route
      BY <2>2, CountedKeys DEF PipelineInv
  <2> QED
      BY <2>2, <2>3, FullWindow, SameCardinality DEF PipelineInv
<1>2. [Refuses]_pipeline_vars => 
        [\A r \in Requests : (asked[r].code # "429" /\ asked'[r].code = "429") =>
          \E t \in 0 .. clock :
             clock < t + Window /\ Pipeline!Cardinality(Pipeline!Admitted(Pipeline!KeyOf(asked[r]), t, t + Window))
                                     >= Limits[asked[r].route]]_Pipeline!vars
    BY DEF pipeline_vars, Pipeline!vars
<1> HIDE DEF Refuses
<1> QED
    BY <1>1, <1>2, PipelinePart, PipelineInductive, PTL
    DEF RefusedOnlyWhenFull, Pipeline!RefusedOnlyWhenFull

-----------------------------------------------------------------------------
(* The lines of an answer *)

Among(lines, events) == {i \in DOMAIN lines : lines[i] \in events}

LEMMA AmongFew ==
    ASSUME NEW events, NEW x, NEW y
    PROVE  /\ Cardinality(Among(<<>>, events)) = 0
           /\ Cardinality(Among(<<x>>, events)) = (IF x \in events THEN 1 ELSE 0)
           /\ ~(x \in events /\ y \in events) =>
                Cardinality(Among(<<x, y>>, events)) =
                  (IF x \in events \/ y \in events THEN 1 ELSE 0)
<1>1. /\ Cardinality({}) = 0 /\ Cardinality({1}) = 1 /\ Cardinality({2}) = 1
    BY FS_EmptySet, FS_Singleton
<1>2. Among(<<>>, events) = {}
    BY DEF Among
<1>3. Among(<<x>>, events) = IF x \in events THEN {1} ELSE {}
  <2>1. DOMAIN <<x>> = {1} /\ <<x>>[1] = x
      OBVIOUS
  <2> QED
      BY <2>1 DEF Among
<1>4. ~(x \in events /\ y \in events) =>
        Among(<<x, y>>, events) = IF x \in events THEN {1} ELSE IF y \in events THEN {2} ELSE {}
  <2>1. DOMAIN <<x, y>> = {1, 2} /\ <<x, y>>[1] = x /\ <<x, y>>[2] = y
      OBVIOUS
  <2> QED
      BY <2>1 DEF Among
<1> QED
    BY <1>1, <1>2, <1>3, <1>4

LEMMA TwoLines ==
    ASSUME NEW x, NEW y
    PROVE  <<x>> \o <<y>> = <<x, y>>
<1> DEFINE S == {x, y}
           s == <<x>> \o <<y>>
           t == <<x, y>>
<1>1. /\ <<x>> \in Seq(S) /\ Len(<<x>>) = 1 /\ <<x>>[1] = x
      /\ <<y>> \in Seq(S) /\ Len(<<y>>) = 1 /\ <<y>>[1] = y
    OBVIOUS
<1>2. t \in Seq(S) /\ Len(t) = 2 /\ t[1] = x /\ t[2] = y
    OBVIOUS
<1> HIDE DEF S
<1>3. s \in Seq(S) /\ Len(s) = 2 /\ s[1] = x /\ s[2] = y
    BY <1>1, ConcatProperties
<1> HIDE DEF s, t
<1>4. \A i \in 1 .. Len(s) : s[i] = t[i]
    BY <1>2, <1>3
<1>5. s = t
    BY <1>2, <1>3, <1>4, SeqEqual
<1> QED
    BY <1>5 DEF s, t

\* What AnsweredIsTraced says, of an answer a.
Traced(a) ==
    /\ a.marked
    /\ Cardinality(Among(a.lines, {"request_completed", "request_failed"}))
         = (IF a.from = "refused" THEN 0 ELSE 1)
    /\ a.from # "refused" => Len(a.lines) - 1 = (IF a.code = "2xx" THEN 0 ELSE 1)
    /\ Cardinality(Among(a.lines, {"unhandled_exception"})) = 1 <=> a.code = "500"

\* The answers there are.
AnswerOf(from, code, lines) == [from |-> from, code |-> code, marked |-> TRUE, lines |-> lines]

LEMMA AnswersAreTraced ==
    /\ Traced(AnswerOf("refused", "429", <<>>))
    /\ Traced(AnswerOf("refused", "429", <<"rate_limit_exceeded">>))
    /\ Traced(AnswerOf("returning", "2xx", <<"request_completed">>))
    /\ Traced(AnswerOf("raising", "500", <<"request_failed", "unhandled_exception">>))
    /\ \A e \in {"http_exception", "validation_error", "notes_limit_exceeded",
                 "rate_limit_exceeded"}, code \in {"4xx", "422", "429"} :
          Traced(AnswerOf("returning", code, <<e, "request_completed">>))
<1> DEFINE Access == {"request_completed", "request_failed"}
           Unhandled == {"unhandled_exception"}
<1>1. ASSUME NEW from, NEW code, NEW lines
      PROVE  Traced(AnswerOf(from, code, lines)) <=>
               /\ Cardinality(Among(lines, Access)) = (IF from = "refused" THEN 0 ELSE 1)
               /\ from # "refused" => Len(lines) - 1 = (IF code = "2xx" THEN 0 ELSE 1)
               /\ Cardinality(Among(lines, Unhandled)) = 1 <=> code = "500"
    BY DEF Traced, AnswerOf
<1>0. /\ "request_completed" \in Access /\ "request_failed" \in Access
      /\ "unhandled_exception" \notin Access /\ "rate_limit_exceeded" \notin Access
      /\ "request_completed" \notin Unhandled /\ "request_failed" \notin Unhandled
      /\ "unhandled_exception" \in Unhandled /\ "rate_limit_exceeded" \notin Unhandled
      /\ \A e \in {"http_exception", "validation_error", "notes_limit_exceeded",
                   "rate_limit_exceeded"} : e \notin Access /\ e \notin Unhandled
    OBVIOUS
<1> HIDE DEF Access, Unhandled
<1>2. /\ Cardinality(Among(<<>>, Access)) = 0 /\ Cardinality(Among(<<>>, Unhandled)) = 0
      /\ Cardinality(Among(<<"rate_limit_exceeded">>, Access)) = 0
      /\ Cardinality(Among(<<"rate_limit_exceeded">>, Unhandled)) = 0
      /\ Cardinality(Among(<<"request_completed">>, Access)) = 1
      /\ Cardinality(Among(<<"request_completed">>, Unhandled)) = 0
    BY <1>0, AmongFew
<1>3. /\ Cardinality(Among(<<"request_failed", "unhandled_exception">>, Access)) = 1
      /\ Cardinality(Among(<<"request_failed", "unhandled_exception">>, Unhandled)) = 1
    BY <1>0, AmongFew
<1>4. ASSUME NEW e \in {"http_exception", "validation_error", "notes_limit_exceeded",
                        "rate_limit_exceeded"}
      PROVE  /\ Cardinality(Among(<<e, "request_completed">>, Access)) = 1
             /\ Cardinality(Among(<<e, "request_completed">>, Unhandled)) = 0
  <2>1. e \notin Access /\ e \notin Unhandled
      BY <1>0
  <2> QED
      BY <1>0, <2>1, AmongFew
<1>5. Len(<<"request_completed">>) = 1 /\ \A x, y : Len(<<x, y>>) = 2
    OBVIOUS
<1>6. /\ Traced(AnswerOf("refused", "429", <<>>))
      /\ Traced(AnswerOf("refused", "429", <<"rate_limit_exceeded">>))
      /\ Traced(AnswerOf("returning", "2xx", <<"request_completed">>))
    BY <1>1, <1>2, <1>5
<1>7. Traced(AnswerOf("raising", "500", <<"request_failed", "unhandled_exception">>))
    BY <1>1, <1>3, <1>5
<1>8. ASSUME NEW e \in {"http_exception", "validation_error", "notes_limit_exceeded",
                        "rate_limit_exceeded"},
             NEW code \in {"4xx", "422", "429"}
      PROVE  Traced(AnswerOf("returning", code, <<e, "request_completed">>))
  <2>1. Len(<<e, "request_completed">>) = 2 /\ code # "2xx" /\ code # "500"
      BY <1>5
  <2> QED
      BY <1>1, <1>4, <2>1
<1> QED
    BY <1>6, <1>7, <1>8

LEMMA SaidIsTraced ==
    /\ AnsweredIsTraced <=> (answer # None /\ answer.from # "preflight" => Traced(answer))
    /\ AnsweredIsTraced' <=> (answer' # None /\ answer'.from # "preflight" => Traced(answer'))
BY SameCardinality DEF AnsweredIsTraced, Pipeline!AnsweredIsTraced, Traced, Among

LEMMA AnswerTracedStep ==
    PipelineInv /\ AnsweredIsTraced /\ [Pipeline!Next]_pipeline_vars => AnsweredIsTraced'
<1> SUFFICES ASSUME PipelineInv, AnsweredIsTraced, [Pipeline!Next]_pipeline_vars,
                    answer' # None, answer'.from # "preflight"
             PROVE  Traced(answer')
    BY SaidIsTraced
<1>1. ASSUME NEW r \in Requests, NEW said, Pipeline!Answered(r, TRUE, said)
      PROVE  answer' = AnswerOf(asked[r].at, asked[r].code, asked[r].lines \o said)
    BY <1>1 DEF Pipeline!Answered, AnswerOf
<1>2. \A r \in Requests : asked[r] \in Travelling /\ WayOut(asked[r])
    BY DEF PipelineInv, RequestsInv
<1>3. ASSUME NEW r \in Requests, Pipeline!Return(r)
      PROVE  Traced(answer')
  <2>1. answer' = AnswerOf("returning", asked[r].code, asked[r].lines \o <<"request_completed">>)
      BY <1>1, <1>3 DEF Pipeline!Return
  <2>2. CASE asked[r].code = "2xx" /\ asked[r].lines = <<>>
    <3>1. <<>> \o <<"request_completed">> = <<"request_completed">>
        OBVIOUS
    <3> QED
        BY <2>1, <2>2, <3>1, AnswersAreTraced
  <2>3. CASE asked[r].code \in {"4xx", "422", "429"} /\ asked[r].lines # <<>>
    <3>1. PICK e \in {"http_exception", "validation_error", "notes_limit_exceeded",
                      "rate_limit_exceeded"} : asked[r].lines = <<e>>
        BY <2>3, <1>2 DEF Travelling, SaidSoFar
    <3>2. <<e>> \o <<"request_completed">> = <<e, "request_completed">>
        BY TwoLines
    <3> QED
        BY <2>1, <2>3, <3>1, <3>2, AnswersAreTraced
  <2> QED
      BY <2>2, <2>3, <1>2, <1>3 DEF WayOut, Pipeline!Return
<1>4. ASSUME NEW r \in Requests, Pipeline!ReturnRefusal(r)
      PROVE  Traced(answer')
  <2>1. answer' = AnswerOf("refused", asked[r].code, asked[r].lines \o <<>>)
      BY <1>1, <1>4 DEF Pipeline!ReturnRefusal
  <2>2. asked[r].code = "429" /\ asked[r].lines \in {<<>>, <<"rate_limit_exceeded">>}
      BY <1>2, <1>4 DEF WayOut, Pipeline!ReturnRefusal
  <2>3. /\ <<>> \o <<>> = <<>>
        /\ <<"rate_limit_exceeded">> \o <<>> = <<"rate_limit_exceeded">>
      OBVIOUS
  <2> QED
      BY <2>1, <2>2, <2>3, AnswersAreTraced
<1>5. ASSUME NEW r \in Requests, Pipeline!Raise(r)
      PROVE  Traced(answer')
  <2>1. answer' = AnswerOf("raising", asked[r].code,
                           asked[r].lines \o <<"request_failed", "unhandled_exception">>)
      BY <1>1, <1>5 DEF Pipeline!Raise
  <2>2. asked[r].code = "500" /\ asked[r].lines = <<>>
      BY <1>2, <1>5 DEF WayOut, Pipeline!Raise
  <2>3. <<>> \o <<"request_failed", "unhandled_exception">>
          = <<"request_failed", "unhandled_exception">>
      OBVIOUS
  <2> QED
      BY <2>1, <2>2, <2>3, AnswersAreTraced
<1>6. CASE UNCHANGED pipeline_vars
    BY <1>6, SaidIsTraced DEF pipeline_vars
<1>7. CASE Pipeline!Next
  <2>1. ASSUME NEW r \in Requests, Pipeline!Preflight(r) PROVE FALSE
    <3>1. PICK code \in {"2xx", "4xx"} :
            answer' = [from |-> "preflight", code |-> code, marked |-> FALSE, lines |-> <<>>]
        BY <2>1 DEF Pipeline!Preflight
    <3> QED
        BY <3>1
  <2>2. PICK r \in Requests :
           Pipeline!Return(r) \/ Pipeline!ReturnRefusal(r) \/ Pipeline!Raise(r)
      BY <1>7, <2>1
      DEF Pipeline!Next, Pipeline!Stop, Pipeline!Tick, Pipeline!Start, Pipeline!Arrive,
          Pipeline!Pass, Pipeline!RefuseEarly, Pipeline!InvalidBody, Pipeline!RefuseLate,
          Pipeline!RunRoute, Pipeline!Silent
  <2> QED
      BY <2>2, <1>3, <1>4, <1>5
<1> QED
    BY <1>6, <1>7

\* Every answer, save that to a preflight, carries the request's id; past the limiter
\* it leaves one access line, and an error line iff it failed: whichever handler or
\* middleware sends it.
THEOREM PipelineAnsweredIsTraced == PipelineSpec => []AnsweredIsTraced
<1>1. Pipeline!Init => AnsweredIsTraced
    BY SaidIsTraced DEF Pipeline!Init
<1> QED
    BY <1>1, PipelinePart, PipelineInductive, AnswerTracedStep, PTL

=============================================================================

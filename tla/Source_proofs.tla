--------------------------- MODULE Source_proofs ---------------------------
(***************************************************************************)
(* For every number of callers and of faults: whoever takes the lock finds *)
(* the one connection pinned or the pool's slot free for another; and what *)
(* the source says the login may read is what it may read.                 *)
(***************************************************************************)
EXTENDS Source, TLAPS

\* A query is in one of these places only under the lock.
Within == {"leasing", "spid", "asking", "repairing"}

PinTypes ==
  /\ pool \in {"none", "open"} /\ slot \in {"free", "idle", "leased"}
  /\ db \in BOOLEAN /\ opened \in BOOLEAN
  /\ mu \in Everyone \cup {None}
  /\ pc \in [Everyone -> {"out", "waiting", "leasing", "spid", "asking", "repairing", "answered"}]
  /\ answer \in [Everyone -> Answers]

\* The lock keeps everybody else out.
Exclusive ==
  /\ \A c \in Everyone : pc[c] \in Within => mu = c
  /\ mu # None => pc[mu] \in Within

\* What the connection and the pool are at each place of the holder.
Holding ==
  \A c \in Everyone :
    /\ pc[c] = "leasing" => ~db /\ slot # "leased"
    /\ pc[c] = "spid" => ~db /\ slot = "leased" /\ pool = "open"
    /\ pc[c] = "asking" => db /\ slot = "leased" /\ pool = "open"
    /\ pc[c] = "repairing" =>
         /\ db /\ pool = "open"
         /\ slot = "leased" \/ (slot = "free" /\ answer[c] = "gone")

Resting == mu = None => (db <=> slot = "leased")

\* Until it has opened the source there is nobody but Main, who does not query.
Opening ==
  /\ ~opened => \A c \in Callers : pc[c] = "out"
  /\ opened => pc[Main] = "out"
  /\ pc[Main] \in {"out", "leasing", "spid", "answered"}
  /\ pc[Main] = "answered" => (answer[Main] = "ok" <=> db) /\ mu = None
  /\ pool = "none" => pc[Main] = "out" /\ slot = "free" /\ ~db

PinInv == PinTypes /\ Exclusive /\ Holding /\ Resting /\ Opening

-----------------------------------------------------------------------------
LEMMA InitEstablishesPinInv == PinnedInit => PinInv
  BY PinnedAssumption
  DEF PinnedInit, PinInv, PinTypes, Exclusive, Holding, Resting, Opening,
      Within, Everyone, Answers

\* A place of c within a query, left for another of them.
LEMMA LockKeeps ==
  ASSUME PinInv, NEW c \in Everyone, Lock(c) PROVE PinInv'
  BY PinnedAssumption
  DEF Lock, PinInv, PinTypes, Exclusive, Holding, Resting, Opening, Within,
      Everyone, poolVars

LEMMA LeasingKeeps ==
  ASSUME PinInv, NEW c \in Everyone, Lease(c) \/ NoPool(c) \/ LeaseFails(c)
  PROVE  PinInv'
<1>1. CASE Lease(c)
  BY <1>1, PinnedAssumption
  DEF Lease, To, PinInv, PinTypes, Exclusive, Holding, Resting, Opening, Within, Everyone
<1>2. CASE NoPool(c)
  BY <1>2, PinnedAssumption
  DEF NoPool, Returns, PinInv, PinTypes, Exclusive, Holding, Resting, Opening, Within,
      Everyone, Answers, poolVars
<1>3. CASE LeaseFails(c)
  BY <1>3, PinnedAssumption
  DEF LeaseFails, Returns, PinInv, PinTypes, Exclusive, Holding, Resting, Opening, Within,
      Everyone, Answers, poolVars
<1> QED
  BY <1>1, <1>2, <1>3

LEMMA PinningKeeps ==
  ASSUME PinInv, NEW c \in Everyone, Pin(c) \/ PinFails(c) PROVE PinInv'
<1>1. CASE Pin(c)
  BY <1>1, PinnedAssumption
  DEF Pin, To, Returns, PinInv, PinTypes, Exclusive, Holding, Resting, Opening, Within,
      Everyone, Answers
<1>2. CASE PinFails(c)
  BY <1>2, PinnedAssumption
  DEF PinFails, Returns, FreeSlot, PinInv, PinTypes, Exclusive, Holding, Resting, Opening,
      Within, Everyone, Answers
<1> QED
  BY <1>1, <1>2

\* However the server answers, or does not, the slot stays leased, unless
\* database/sql has closed the connection, which says that it is gone.
LEMMA AnsweringKeeps ==
  ASSUME PinInv, NEW c \in Everyone,
         Answer(c) \/ Refuse(c) \/ Cancel(c) \/ Abort(c) \/ Dead(c)
  PROVE  PinInv'
<1>1. /\ pc[c] = "asking" /\ pc' = [pc EXCEPT ![c] = "repairing"]
      /\ mu' = mu /\ opened' = opened /\ pool' = pool /\ db' = db
      /\ answer' \in [Everyone -> Answers] /\ \A d \in Everyone \ {c} : answer'[d] = answer[d]
      /\ slot' = slot \/ (slot' = "free" /\ answer'[c] = "gone")
  BY DEF Answer, Refuse, Cancel, Abort, Dead, Answered, FreeSlot, To, PinInv, PinTypes,
     Answers, poolVars
<1> QED
  BY <1>1, PinnedAssumption
  DEF PinInv, PinTypes, Exclusive, Holding, Resting, Opening, Within, Everyone

LEMMA RepairKeeps ==
  ASSUME PinInv, NEW c \in Everyone, Repair(c) PROVE PinInv'
  BY PinnedAssumption
  DEF Repair, Returns, FreeSlot, PinInv, PinTypes, Exclusive, Holding, Resting, Opening,
      Within, Everyone, Answers

LEMMA QueryKeeps ==
  ASSUME PinInv, NEW c \in Everyone, Query(c) PROVE PinInv'
  BY LockKeeps, LeasingKeeps, PinningKeeps, AnsweringKeeps, RepairKeeps DEF Query

LEMMA CallKeeps ==
  ASSUME PinInv, NEW c \in Callers, Call(c) \/ Done(c) PROVE PinInv'
<1>1. CASE Call(c)
  BY <1>1, PinnedAssumption
  DEF Call, To, PinInv, PinTypes, Exclusive, Holding, Resting, Opening, Within, Everyone,
      poolVars
<1>2. CASE Done(c)
  BY <1>2, PinnedAssumption
  DEF Done, PinInv, PinTypes, Exclusive, Holding, Resting, Opening, Within, Everyone,
      Answers, poolVars
<1> QED
  BY <1>1, <1>2

LEMMA OpenAndCloseKeep ==
  ASSUME PinInv, Ping \/ OpenReturns \/ Close PROVE PinInv'
<1>1. CASE Ping
  BY <1>1, PinnedAssumption
  DEF Ping, PinInv, PinTypes, Exclusive, Holding, Resting, Opening, Within, Everyone
<1>2. CASE OpenReturns
  BY <1>2, PinnedAssumption
  DEF OpenReturns, PoolClosed, FreeSlot, PinInv, PinTypes, Exclusive, Holding, Resting,
      Opening, Within, Everyone, Answers
<1>3. CASE Close
  BY <1>3, PinnedAssumption
  DEF Close, FreeSlot, PinInv, PinTypes, Exclusive, Holding, Resting, Opening, Within,
      Everyone, callVars
<1> QED
  BY <1>1, <1>2, <1>3

LEMMA NothingOfTheLock ==
  ASSUME PinInv, UNCHANGED <<poolVars, callVars>> PROVE PinInv'
  BY DEF PinInv, PinTypes, Exclusive, Holding, Resting, Opening, poolVars, callVars

LEMMA NextKeepsPinInv == PinInv /\ [SourceNext]_vars => PinInv'
<1> SUFFICES ASSUME PinInv, [SourceNext]_vars PROVE PinInv'
  OBVIOUS
<1>1. CASE Ask \/ Learn
  BY <1>1, SourceAssumption, CallKeeps DEF Ask, Learn
<1>2. CASE Skip \/ Publish
  BY <1>2, NothingOfTheLock DEF Skip, Publish, pinnedVars
<1>3. ASSUME NEW c \in Callers, NEW right, Gated(c, right) PROVE PinInv'
  BY <1>3, NothingOfTheLock DEF Gated, pinnedVars
<1>4. ASSUME NEW c \in Callers, NEW right, Method(c, right) PROVE PinInv'
  BY <1>4, CallKeeps DEF Method
<1>5. ASSUME NEW c \in Callers, Returned(c) PROVE PinInv'
  BY <1>5, CallKeeps DEF Returned
<1>6. ASSUME NEW c \in Callers, Queries(c) PROVE PinInv'
  BY <1>6, QueryKeeps DEF Queries, Everyone
<1>7. CASE Connection
  <2>1. CASE Query(Main)
    BY <2>1, QueryKeeps DEF Everyone
  <2>2. CASE Cut \/ Down \/ Up
    BY <2>2, NothingOfTheLock DEF Cut, Down, Up
  <2> QED
    BY <1>7, <2>1, <2>2, OpenAndCloseKeep DEF Connection
<1>8. CASE UNCHANGED vars
  BY <1>8, NothingOfTheLock DEF vars, pinnedVars
<1> QED
  BY <1>1, <1>2, <1>3, <1>4, <1>5, <1>6, <1>7, <1>8 DEF SourceNext

LEMMA PinInvAlways == SourceSpec => []PinInv
<1>1. SourceInit => PinInv
  BY InitEstablishesPinInv DEF SourceInit
<1> QED
  BY <1>1, NextKeepsPinInv, PTL DEF SourceSpec

\* For every number of callers and of faults: nobody ever waits for a connection
\* that was leased and forgotten.
THEOREM PinKeepsTheSlot == SourceSpec => []PinHasTheSlot
<1>1. PinInv => PinHasTheSlot
  BY DEF PinInv, Resting, Opening, PinHasTheSlot
<1> QED
  BY <1>1, PinInvAlways, PTL

\* The safety half of QueriesGoOn: whoever holds the lock is at one place of
\* its own query, where it waits for nobody of the tool.  A lease finds the slot
\* free or idle, or no pool at all, and what is asked or given back is asked of
\* the connection that the holder itself has.
HolderWaitsForNobody ==
  \A c \in Everyone :
    /\ mu = c <=> pc[c] \in Within
    /\ pc[c] = "leasing" => slot # "leased"
    /\ pc[c] = "spid" => slot = "leased" /\ pool = "open"
    /\ pc[c] = "asking" => db /\ slot = "leased" /\ pool = "open"

\* However connections die and whoever finds them dead: the lock is never held
\* by a query that waits for a connection another one has.
THEOREM NobodyWaitsForALease == SourceSpec => []HolderWaitsForNobody
<1>1. PinInv => HolderWaitsForNobody
  BY PinnedAssumption
  DEF PinInv, PinTypes, Exclusive, Holding, Opening, Within, Everyone, HolderWaitsForNobody
<1> QED
  BY <1>1, PinInvAlways, PTL

-----------------------------------------------------------------------------
(* Types of the connection and of the server.                              *)

LinkTypes ==
  /\ link \in {"none", "good", "cut", "bad"}
  /\ session \in Nat /\ faults \in Nat /\ up \in BOOLEAN

\* A step of a query changes the connection, and counts what it made.
LEMMA QueryKeepsLink ==
  ASSUME LinkTypes, NEW c, Query(c) PROVE LinkTypes'
  BY DEF LinkTypes, Query, Lock, NoPool, Lease, LeaseFails, Pin, PinFails, Answer, Refuse,
     Cancel, Abort, Dead, Repair, Answered, FreeSlot, linkVars, serverVars

LEMMA NextKeepsLink == LinkTypes /\ [SourceNext]_vars => LinkTypes'
<1> SUFFICES ASSUME LinkTypes, [SourceNext]_vars PROVE LinkTypes'
  OBVIOUS
<1>1. ASSUME UNCHANGED <<linkVars, serverVars>> PROVE LinkTypes'
  BY <1>1 DEF LinkTypes, linkVars, serverVars
<1>2. ASSUME NEW c \in Callers, Call(c) \/ Done(c) PROVE LinkTypes'
  BY <1>1, <1>2 DEF Call, Done
<1>3. CASE Connection
  <2>1. CASE Query(Main)
    BY <2>1, QueryKeepsLink
  <2>2. CASE Ping \/ OpenReturns \/ Close
    BY <2>2 DEF LinkTypes, Ping, OpenReturns, Close, PoolClosed, FreeSlot, serverVars
  <2>3. CASE Cut \/ Down \/ Up
    <3>1. CASE Cut
      BY <3>1 DEF LinkTypes, Cut
    <3>2. CASE Down
      <4>1. link' \in {"none", "good", "cut", "bad"}
        BY <3>2 DEF LinkTypes, Down, Lost
      <4>2. faults' \in Nat /\ session' \in Nat
        BY <3>2 DEF LinkTypes, Down
      <4>3. up' \in BOOLEAN
        BY <3>2, Zenon DEF Down
      <4> QED
        BY <4>1, <4>2, <4>3, Zenon DEF LinkTypes
    <3>3. CASE Up
      BY <3>3 DEF LinkTypes, Up, linkVars
    <3> QED
      BY <2>3, <3>1, <3>2, <3>3
  <2> QED
    BY <1>3, <2>1, <2>2, <2>3 DEF Connection
<1>4. CASE Ask \/ Learn
  BY <1>2, <1>4, SourceAssumption DEF Ask, Learn
<1>5. CASE Skip \/ Publish \/ UNCHANGED vars
  BY <1>1, <1>5 DEF Skip, Publish, vars, pinnedVars
<1>6. ASSUME NEW c \in Callers, NEW right, Gated(c, right) \/ Method(c, right)
      PROVE  LinkTypes'
  BY <1>1, <1>2, <1>6 DEF Gated, Method, pinnedVars
<1>7. ASSUME NEW c \in Callers, Returned(c) \/ Queries(c) PROVE LinkTypes'
  BY <1>2, <1>7, QueryKeepsLink DEF Returned, Queries
<1> QED
  BY <1>3, <1>4, <1>5, <1>6, <1>7 DEF SourceNext

\* Every variable of the connection, its pool and its callers keeps its type,
\* whatever fails and whoever calls.
THEOREM PinnedTypeCorrect == SourceSpec => []PinnedTypeOK
<1>1. SourceInit => LinkTypes
  BY DEF SourceInit, PinnedInit, LinkTypes
<1>2. PinInv /\ LinkTypes => PinnedTypeOK
  BY DEF PinInv, PinTypes, LinkTypes, PinnedTypeOK
<1> QED
  BY <1>1, <1>2, NextKeepsLink, PinInvAlways, PTL DEF SourceSpec

-----------------------------------------------------------------------------
(* What the source says of the login's rights.                             *)

RightsTypes ==
  /\ pc \in [Everyone -> {"out", "waiting", "leasing", "spid", "asking", "repairing", "answered"}]
  /\ answer \in [Everyone -> Answers]
  /\ grants \subseteq Grantable /\ (old => grants \cap Versioned = {})
  /\ step \in 0 .. Len(Questions) + 1
  /\ found \subseteq Grantable
  /\ want \in [Callers -> Grantable \cup {None}]

\* The server answers a query that needs a right by whether the login has it.
Honest ==
  \A c \in Callers : pc[c] \in {"repairing", "answered"} /\ want[c] # None =>
    /\ answer[c] = "ok" => want[c] \in grants
    /\ answer[c] = "refused" => want[c] \notin grants

\* While it identifies, what the collector has under way is the question.
OnQuestion ==
  Identifying /\ pc[Collector] # "out" =>
    want[Collector] = IF Asking \in Grantable THEN Asking ELSE None

\* Every probe gone by has been learnt, or skipped where nobody can have it.
Learnt ==
  /\ found \subseteq grants
  /\ \A i \in DOMAIN Questions :
       i < step /\ Questions[i] \in Probed \cap grants => Questions[i] \in found

Published ==
  /\ caps # None => caps = found /\ step = Len(Questions) + 1 /\ told \notin grants
  /\ caps = None => told = None

RightsInv == RightsTypes /\ Honest /\ OnQuestion /\ Learnt /\ Published

\* What is where in a sequence between two others.
LEMMA InBetween ==
  ASSUME NEW S, NEW s \in Seq(S), NEW m \in Seq(S), NEW t \in Seq(S),
         NEW j \in 1 .. Len(m)
  PROVE  /\ Len(s) + j \in 1 .. Len((s \o m) \o t)
         /\ ((s \o m) \o t)[Len(s) + j] = m[j]
<1>1. s \o m \in Seq(S)
  OBVIOUS
<1>2. Len(s \o m) = Len(s) + Len(m)
  OBVIOUS
<1>3. (s \o m)[Len(s) + j] = m[j]
  OBVIOUS
<1>4. Len((s \o m) \o t) = (Len(s) + Len(m)) + Len(t)
  BY <1>1, <1>2
<1>5. Len(s) + j \in 1 .. Len(s \o m)
  BY <1>2
<1>6. ((s \o m) \o t)[Len(s) + j] = (s \o m)[Len(s) + j]
  BY <1>1, <1>5
<1> QED
  BY <1>3, <1>4, <1>5, <1>6

\* The questions, and that every probe is among them.
LEMMA QuestionsFacts ==
  /\ Len(Questions) \in Nat /\ DOMAIN Questions = 1 .. Len(Questions)
  /\ \A right \in Probed : \E i \in DOMAIN Questions : Questions[i] = right
<1> DEFINE first == <<"identity", "marker">>
           last  == <<"facts", "capture">>
           asked == Probed \cup {"identity", "marker", "facts", "capture"}
<1>1. first \in Seq(asked) /\ last \in Seq(asked) /\ Probes \in Seq(asked)
  BY SourceAssumption
<1>2. Questions = (first \o Probes) \o last
  BY <1>1 DEF Questions
<1>3. Len(Questions) \in Nat /\ DOMAIN Questions = 1 .. Len(Questions)
  BY <1>1, <1>2
<1>4. ASSUME NEW right \in Probed
      PROVE  \E i \in DOMAIN Questions : Questions[i] = right
  <2>1. PICK j \in 1 .. Len(Probes) : Probes[j] = right
    BY <1>1 DEF Probed
  <2> HIDE DEF first, last, asked
  <2>2. /\ Len(first) + j \in 1 .. Len((first \o Probes) \o last)
        /\ ((first \o Probes) \o last)[Len(first) + j] = Probes[j]
    BY ONLY <1>1, InBetween
  <2> QED
    BY <1>2, <1>3, <2>1, <2>2
<1> QED
  BY <1>3, <1>4

\* Once the capabilities are published, those probed are the login's rights.
LEMMA PublishedAreRights ==
  ASSUME RightsInv, caps # None
  PROVE  caps \subseteq grants /\ caps \cap Probed = grants \cap Probed
  BY QuestionsFacts DEF RightsInv, Learnt, Published

LEMMA InitEstablishesRightsInv == SourceInit => RightsInv
  BY QuestionsFacts, SourceAssumption
  DEF SourceInit, PinnedInit, RightsInv, RightsTypes, Honest, OnQuestion, Learnt, Published,
      Answers, Everyone

-----------------------------------------------------------------------------
(* Its steps.                                                              *)

\* A step of a query: it may not answer but as Honest says, and it ends with
\* the query's answer, not with the caller gone.
LEMMA QueryStepKeepsRights ==
  ASSUME RightsInv, NEW c \in Callers, Queries(c) PROVE RightsInv'
<1>1. /\ pc[c] \in {"waiting"} \cup Within
      /\ \E place \in Within \cup {"answered"} : pc' = [pc EXCEPT ![c] = place]
      /\ answer' \in [Everyone -> Answers] /\ \A d \in Everyone \ {c} : answer'[d] = answer[d]
  BY DEF Queries, Query, Lock, NoPool, Lease, LeaseFails, Pin, PinFails, Answer, Refuse,
     Cancel, Abort, Dead, Repair, Answered, Returns, To, Within, RightsInv, RightsTypes,
     Answers
<1>2. UNCHANGED <<grants, old, identifyVars, methodVars>>
  BY DEF Queries
<1>3. RightsTypes'
  BY <1>1, <1>2 DEF RightsInv, RightsTypes, Within, identifyVars, methodVars, Questions
<1>4. pc'[c] \in {"repairing", "answered"} /\ want[c] # None =>
        /\ answer'[c] = "ok" => want[c] \in grants
        /\ answer'[c] = "refused" => want[c] \notin grants
  <2>1. CASE pc[c] = "asking"
    BY <2>1 DEF Queries
  <2>2. CASE Lock(c) \/ Lease(c)
    BY <2>2 DEF Lock, Lease, To, RightsInv, RightsTypes, Everyone
  <2>3. CASE NoPool(c) \/ LeaseFails(c) \/ PinFails(c)
    BY <2>3 DEF NoPool, LeaseFails, PinFails, Returns, RightsInv, RightsTypes, Everyone
  <2>4. CASE Pin(c)
    BY <2>4, PinnedAssumption DEF Pin, To, RightsInv, RightsTypes, Everyone
  <2>5. CASE Repair(c)
    BY <2>5 DEF Repair, Returns, RightsInv, RightsTypes, Honest, Everyone
  <2> QED
    BY <2>1, <2>2, <2>3, <2>4, <2>5
    DEF Queries, Query, Answer, Refuse, Cancel, Abort, Dead, Answered
<1>5. Honest'
  BY <1>1, <1>2, <1>4 DEF RightsInv, RightsTypes, Honest, Everyone, methodVars
<1>6. OnQuestion'
  BY <1>1, <1>2, SourceAssumption
  DEF RightsInv, RightsTypes, OnQuestion, Identifying, Asking, Questions, Everyone, Within,
      identifyVars, methodVars
<1>7. Learnt' /\ Published'
  BY <1>2 DEF RightsInv, Learnt, Published, Questions, identifyVars, methodVars
<1> QED
  BY <1>3, <1>5, <1>6, <1>7 DEF RightsInv

\* What Main does, and what happens to the connection, is none of the callers'.
LEMMA MainKeepsRights ==
  ASSUME RightsInv, PinInv, Connection PROVE RightsInv'
<1>1. /\ pc' \in [Everyone -> {"out", "waiting", "leasing", "spid", "asking", "repairing", "answered"}]
      /\ answer' \in [Everyone -> Answers]
      /\ \A d \in Callers : pc'[d] = pc[d] /\ answer'[d] = answer[d]
  <2> USE PinnedAssumption DEF Connection, RightsInv, RightsTypes, Everyone, Answers
  <2>1. CASE Ping \/ OpenReturns
    BY <2>1 DEF Ping, OpenReturns
  <2>2. CASE Close \/ Cut \/ Down \/ Up
    BY <2>2 DEF Close, Cut, Down, Up, callVars
  <2>3. CASE Query(Main)
    BY <2>3
    DEF Query, Lock, NoPool, Lease, LeaseFails, Pin, PinFails, Answer, Refuse,
        Cancel, Abort, Dead, Repair, Answered, Returns, To
  <2> QED
    BY <2>1, <2>2, <2>3
<1>2. UNCHANGED <<grants, old, identifyVars, methodVars>>
  BY DEF Connection
<1> QED
  BY <1>1, <1>2, SourceAssumption
  DEF RightsInv, RightsTypes, Honest, OnQuestion, Learnt, Published, Identifying, Asking,
      Questions, identifyVars, methodVars

\* A caller calls, with what it needs.
LEMMA CallKeepsRights ==
  ASSUME RightsInv, NEW c \in Callers, NEW right \in Grantable \cup {None},
         Call(c), Needs(c, right), UNCHANGED <<grants, old, identifyVars, told>>,
         c = Collector /\ Identifying =>
           right = IF Asking \in Grantable THEN Asking ELSE None
  PROVE  RightsInv'
<1>1. /\ pc' = [pc EXCEPT ![c] = "waiting"] /\ answer' = answer
      /\ want' = [want EXCEPT ![c] = right]
  BY DEF Call, To, Needs
<1>2. RightsTypes' /\ Honest'
  BY <1>1 DEF RightsInv, RightsTypes, Honest, Everyone, Questions, identifyVars
<1>3. OnQuestion'
  BY <1>1, SourceAssumption
  DEF RightsInv, RightsTypes, OnQuestion, Identifying, Asking, Everyone, Questions,
      identifyVars
<1>4. Learnt' /\ Published'
  BY DEF RightsInv, Learnt, Published, Questions, identifyVars
<1> QED
  BY <1>2, <1>3, <1>4 DEF RightsInv

\* The answer to a question.
LEMMA LearnKeepsRights ==
  ASSUME RightsInv, Learn PROVE RightsInv'
<1> DEFINE a == answer[Collector]
<1>1. /\ Identifying /\ pc[Collector] = "answered" /\ Collector \in Everyone
      /\ pc' = [pc EXCEPT ![Collector] = "out"] /\ answer' = [answer EXCEPT ![Collector] = "none"]
      /\ want' = [want EXCEPT ![Collector] = None]
      /\ grants' = grants /\ old' = old /\ caps' = caps /\ told' = told
  BY SourceAssumption DEF Learn, Done, Needs, Everyone
<1>2. /\ step' \in {step + 1, 0} /\ found' \subseteq found \cup ({Asking} \cap Grantable)
      /\ found \subseteq found'
  BY DEF Learn
<1>3. step \in Nat \ {0} /\ step \in 1 .. Len(Questions) /\ caps = None
  BY <1>1, QuestionsFacts DEF Identifying, RightsInv, Published
<1>4. want[Collector] = IF Asking \in Grantable THEN Asking ELSE None
  BY <1>1 DEF RightsInv, OnQuestion
<1>5. Asking \in Grantable => /\ a = "ok" => Asking \in grants
                              /\ a = "refused" => Asking \notin grants
  BY <1>1, <1>4, SourceAssumption DEF RightsInv, Honest
<1>6. RightsTypes'
  BY <1>1, <1>2, <1>3, QuestionsFacts, SourceAssumption
  DEF RightsInv, RightsTypes, Answers, Questions
<1>7. Honest' /\ OnQuestion'
  BY <1>1 DEF RightsInv, RightsTypes, Honest, OnQuestion
<1>8. found' \subseteq grants
  BY <1>2, <1>5 DEF Learn, RightsInv, Learnt
<1>9. ASSUME step' = step + 1, Asking \in Probed \cap grants PROVE Asking \in found'
  <2>1. a = "ok" \/ a = "refused" \/ Asking \in {"marker", "facts", "capture"}
    BY <1>3, <1>9 DEF Learn, IsCapabilityAbsent, Tolerated
  <2>2. a = "ok"
    BY <1>5, <1>9, <2>1, SourceAssumption DEF Grantable
  <2> QED
    BY <1>9, <2>2 DEF Learn, Grantable
<1>10. Learnt'
  <2> SUFFICES ASSUME NEW i \in DOMAIN Questions, i < step', Questions[i] \in Probed \cap grants
               PROVE  Questions[i] \in found'
    BY <1>1, <1>8 DEF Learnt, Questions
  <2>1. i \in Nat /\ step' = step + 1
    BY <1>2, QuestionsFacts
  <2>2. CASE i < step
    BY <1>2, <2>2 DEF RightsInv, Learnt
  <2>3. CASE i = step
    BY <1>9, <2>1, <2>3 DEF Asking
  <2> QED
    BY <1>3, <2>1, <2>2, <2>3
<1>11. Published'
  BY <1>1, <1>3 DEF RightsInv, Published
<1> QED
  BY <1>6, <1>7, <1>10, <1>11 DEF RightsInv

LEMMA SkipKeepsRights ==
  ASSUME RightsInv, Skip PROVE RightsInv'
<1>1. /\ pc[Collector] = "out" /\ pc' = pc /\ answer' = answer /\ want' = want
      /\ grants' = grants /\ old' = old /\ found' = found /\ caps' = caps /\ told' = told
      /\ step' = step + 1
  BY DEF Skip, pinnedVars, callVars, methodVars
<1>2. step \in 1 .. Len(Questions) /\ caps = None /\ Asking \notin grants
  BY QuestionsFacts DEF Skip, Skipped, Identifying, RightsInv, RightsTypes, Published
<1>3. RightsTypes' /\ Honest' /\ OnQuestion'
  BY <1>1, <1>2, QuestionsFacts
  DEF RightsInv, RightsTypes, Honest, OnQuestion, Questions
<1>4. Learnt'
  <2> SUFFICES ASSUME NEW i \in DOMAIN Questions, i < step + 1, Questions[i] \in Probed \cap grants
               PROVE  Questions[i] \in found
    BY <1>1 DEF RightsInv, Learnt, Questions
  <2>1. i < step
    BY <1>2, QuestionsFacts DEF Asking
  <2> QED
    BY <2>1 DEF RightsInv, Learnt
<1>5. Published'
  BY <1>1, <1>2 DEF RightsInv, Published
<1> QED
  BY <1>3, <1>4, <1>5 DEF RightsInv

LEMMA PublishKeepsRights ==
  ASSUME RightsInv, Publish PROVE RightsInv'
<1>1. /\ pc' = pc /\ answer' = answer /\ want' = want /\ grants' = grants /\ old' = old
      /\ found' = found /\ step' = step /\ told' = told /\ caps' = found
      /\ step = Len(Questions) + 1 /\ caps = None
  BY DEF Publish, pinnedVars, callVars, methodVars
<1>2. told \notin grants
  BY <1>1, SourceAssumption DEF RightsInv, RightsTypes, Published
<1>3. found # None
  BY SourceAssumption DEF RightsInv, RightsTypes
<1> QED
  BY <1>1, <1>2, <1>3
  DEF RightsInv, RightsTypes, Honest, OnQuestion, Learnt, Published, Identifying, Asking,
      Questions

\* A method is not called for want of a capability, or returns.
LEMMA ReportKeepsRights ==
  ASSUME RightsInv, NEW c \in Callers,
         Returned(c) \/ \E right \in Probed : Gated(c, right)
  PROVE  RightsInv'
<1>1. CASE Returned(c)
  <2>1. /\ pc[c] = "answered" /\ ~(c = Collector /\ Identifying)
        /\ pc' = [pc EXCEPT ![c] = "out"] /\ answer' = [answer EXCEPT ![c] = "none"]
        /\ want' = [want EXCEPT ![c] = None]
        /\ grants' = grants /\ old' = old /\ found' = found /\ step' = step /\ caps' = caps
    BY <1>1 DEF Returned, Done, Needs, identifyVars
  <2>2. told' = told \/ (caps # None /\ told' \notin grants)
    <3>1. CASE UNCHANGED told
      BY <3>1
    <3>2. CASE answer[c] = "refused" /\ want[c] # None /\ Unavailable(want[c])
      <4>1. want[c] \notin grants
        BY <2>1, <3>2 DEF RightsInv, Honest
      <4>2. told' = told \/ (caps # None /\ told' = want[c])
        BY <3>2 DEF Unavailable
      <4> QED
        BY <4>1, <4>2
    <3> QED
      BY <1>1, <3>1, <3>2 DEF Returned, IsCapabilityAbsent
  <2>3. RightsTypes' /\ Honest'
    BY <2>1 DEF RightsInv, RightsTypes, Honest, Answers, Everyone, Questions
  <2>6. Learnt'
    BY <2>1 DEF RightsInv, Learnt, Questions
  <2>4. OnQuestion'
    BY <2>1, SourceAssumption
    DEF RightsInv, RightsTypes, OnQuestion, Identifying, Asking, Everyone, Questions
  <2>5. Published'
    BY <2>1, <2>2 DEF RightsInv, Published, Questions
  <2> QED
    BY <2>3, <2>4, <2>5, <2>6 DEF RightsInv
<1>2. ASSUME NEW right \in Probed, Gated(c, right) PROVE RightsInv'
  <2>1. /\ pc' = pc /\ answer' = answer /\ want' = want /\ grants' = grants /\ old' = old
        /\ found' = found /\ step' = step /\ caps' = caps
    BY <1>2 DEF Gated, pinnedVars, callVars, identifyVars
  <2>2. IF caps = None THEN told' = told ELSE told' = right /\ right \notin grants
    BY <1>2, PublishedAreRights DEF Gated, Has, Unavailable
  <2> QED
    BY <2>1, <2>2
    DEF RightsInv, RightsTypes, Honest, OnQuestion, Learnt, Published, Identifying, Asking,
        Questions
<1> QED
  BY <1>1, <1>2

LEMMA NextKeepsRightsInv == RightsInv /\ PinInv /\ [SourceNext]_vars => RightsInv'
<1> SUFFICES ASSUME RightsInv, PinInv, [SourceNext]_vars PROVE RightsInv'
  OBVIOUS
<1>1. CASE Ask
  <2>1. Collector \in Callers
    BY SourceAssumption
  <2> DEFINE right == IF Asking \in Grantable THEN Asking ELSE None
  <2>2. /\ right \in Grantable \cup {None} /\ Call(Collector) /\ Needs(Collector, right)
        /\ UNCHANGED <<grants, old, identifyVars, told>>
    BY <1>1 DEF Ask
  <2> QED
    BY <2>1, <2>2, CallKeepsRights
<1>2. ASSUME NEW c \in Callers, NEW right \in Probed \cup {None}, Method(c, right)
      PROVE  RightsInv'
  <2>1. ~(c = Collector /\ Identifying)
    BY <1>2, QuestionsFacts
    DEF Method, Free, Identifying, RightsInv, RightsTypes, Published
  <2> QED
    BY <1>2, <2>1, CallKeepsRights DEF Method, Grantable
<1>3. CASE UNCHANGED vars
  BY <1>3
  DEF vars, pinnedVars, callVars, identifyVars, methodVars, RightsInv, RightsTypes, Honest,
      OnQuestion, Learnt, Published, Identifying, Asking, Questions
<1> QED
  BY <1>1, <1>2, <1>3, SkipKeepsRights, PublishKeepsRights, LearnKeepsRights,
     ReportKeepsRights, QueryStepKeepsRights, MainKeepsRights
  DEF SourceNext

\* For every login, every row of probes and every number of faults: a connection
\* that breaks is never taken for a right that the login has not.
THEOREM NoBreakIsARefusal == SourceSpec => []BreaksAreNotRefusals
<1>1. SourceInit => RightsInv
  BY InitEstablishesRightsInv
<1>2. RightsInv => BreaksAreNotRefusals
  BY PublishedAreRights DEF RightsInv, Published, BreaksAreNotRefusals
<1> QED
  BY <1>1, <1>2, PinInvAlways, NextKeepsRightsInv, PTL DEF SourceSpec

=============================================================================

------------------------ MODULE EventSessions_proofs ------------------------
(***************************************************************************)
(* The reader of RingBuffer.tla and the sweep of EventSessions.tla.        *)
(*                                                                         *)
(* First, for every capacity of the buffer and whatever the sizes of the   *)
(* documents: the accounting of a capture is exact.  Then, for every       *)
(* number of instances, every cap and every lateness below it: a sweep     *)
(* spares what was running when it looked, and removes what it found dead. *)
(*                                                                         *)
(* A sweep drops by a list it read earlier, while other instances create,  *)
(* start and drop.  What keeps it right is that a name is never used       *)
(* twice, that only its owner starts it, and that a capture still owned is *)
(* younger than twice the cap.                                             *)
(***************************************************************************)
EXTENDS EventSessions, TLAPS

-----------------------------------------------------------------------------
(* The reader.                                                             *)

\* The inductive invariant: what LossIsExact and EventsInOrder need to know of
\* the server is that the buffer holds no more than it was given, and what
\* TypeOK needs is that its count of drops does not go down while it is there.
IInv ==
  /\ TypeOK
  /\ held <= total
  /\ there => dropped <= dropCount
  /\ LossIsExact
  /\ EventsInOrder
  /\ GapsAddUp

\* The rows of one document, which continue at index `from`.
Continues(rows, from) == \A i \in DOMAIN rows : rows[i] = from + i - 1

\* Appending to a file that ends below an index the rows that continue there.
LEMMA AppendInOrder ==
  ASSUME NEW old \in Seq(Nat), NEW rows \in Seq(Nat), NEW from \in Nat,
         \A i \in DOMAIN old : old[i] < from,
         \A i, j \in DOMAIN old : i < j => old[i] < old[j],
         Continues(rows, from)
  PROVE  /\ Len(old \o rows) = Len(old) + Len(rows)
         /\ \A i \in DOMAIN (old \o rows) : (old \o rows)[i] < from + Len(rows)
         /\ \A i, j \in DOMAIN (old \o rows) :
              i < j => (old \o rows)[i] < (old \o rows)[j]
<1> DEFINE s == old \o rows
<1>1. Len(s) = Len(old) + Len(rows) /\ DOMAIN s = 1 .. Len(old) + Len(rows)
  OBVIOUS
<1>2. \A i \in 1 .. Len(old) : s[i] = old[i] /\ s[i] < from /\ s[i] \in Nat
  OBVIOUS
<1>3. \A i \in Len(old) + 1 .. Len(old) + Len(rows) :
        s[i] = from + (i - Len(old)) - 1
  <2> SUFFICES ASSUME NEW i \in Len(old) + 1 .. Len(old) + Len(rows)
               PROVE  s[i] = from + (i - Len(old)) - 1
    OBVIOUS
  <2>1. s[i] = rows[i - Len(old)] /\ i - Len(old) \in DOMAIN rows
    OBVIOUS
  <2> QED BY <2>1 DEF Continues
<1>4. \A i, j \in 1 .. Len(old) : i < j => s[i] < s[j]
  BY <1>2
<1> HIDE DEF s
<1>5. Len(old) \in Nat /\ Len(rows) \in Nat
  OBVIOUS
<1>6. \A i \in DOMAIN s : s[i] < from + Len(rows)
  <2> SUFFICES ASSUME NEW i \in DOMAIN s PROVE s[i] < from + Len(rows)
    OBVIOUS
  <2>1. CASE i \in 1 .. Len(old)
    BY <1>2, <1>5, <2>1
  <2>2. CASE i \in Len(old) + 1 .. Len(old) + Len(rows)
    BY <1>3, <1>5, <2>2
  <2> QED BY <1>1, <1>5, <2>1, <2>2
<1>7. \A i, j \in DOMAIN s : i < j => s[i] < s[j]
  <2> SUFFICES ASSUME NEW i \in DOMAIN s, NEW j \in DOMAIN s, i < j
               PROVE  s[i] < s[j]
    OBVIOUS
  <2>1. CASE j \in 1 .. Len(old)
    BY <1>1, <1>4, <1>5, <2>1
  <2>2. CASE i \in 1 .. Len(old) /\ j \in Len(old) + 1 .. Len(old) + Len(rows)
    BY <1>2, <1>3, <1>5, <2>2
  <2>3. CASE i \in Len(old) + 1 .. Len(old) + Len(rows)
    BY <1>1, <1>3, <1>5, <2>3
  <2> QED BY <1>1, <1>5, <2>1, <2>2, <2>3
<1> QED BY <1>1, <1>6, <1>7 DEF s

\* What one document shows of the events past a mark: as many as the mark will
\* move by, less those that were missed, and each in its place.
LEMMA EmittedFacts ==
  ASSUME TypeOK, held <= total, NEW n \in 0 .. held
  PROVE  /\ Emitted(mark, n) \in Seq(Nat)
         /\ SeenBy(mark, n) \in Nat /\ MissedBy(mark) \in Nat
         /\ SeenBy(mark, n) = mark + MissedBy(mark) + Len(Emitted(mark, n))
         /\ mark <= total => SeenBy(mark, n) <= total
         /\ Continues(Emitted(mark, n), mark + MissedBy(mark))
<1> DEFINE from == Larger(mark, First)
<1>1. First = total - held /\ First \in Nat /\ mark \in Nat /\ n \in Nat
  BY DEF TypeOK, First, Larger
<1>2. from \in Nat /\ from = mark + MissedBy(mark) /\ MissedBy(mark) \in Nat
  BY <1>1 DEF Larger, MissedBy
<1>3. DEFINE len == Larger(First + n - from, 0)
<1>4. len \in Nat /\ SeenBy(mark, n) = from + len
  BY <1>1, <1>2 DEF Larger, SeenBy
<1>5. Emitted(mark, n) = [i \in 1 .. len |-> from + i - 1]
  BY DEF Emitted
<1>6. Emitted(mark, n) \in Seq(Nat) /\ Len(Emitted(mark, n)) = len
      /\ Continues(Emitted(mark, n), from)
  <2> HIDE DEF from, len
  <2>1. \A i \in 1 .. len : from + i - 1 \in Nat
    BY <1>2, <1>4
  <2> QED BY <1>4, <1>5, <2>1 DEF Continues
<1>7. mark <= total => SeenBy(mark, n) <= total
  BY <1>1 DEF SeenBy, Larger, TypeOK
<1> QED
  <2> HIDE DEF from, len
  <2> QED BY <1>2, <1>4, <1>5, <1>6, <1>7

\* What was balanced stays so when both sides grow by as much.
LEMMA BothGrow ==
  ASSUME NEW a \in Nat, NEW b \in Nat, NEW c \in Nat, NEW x \in Nat,
         NEW y \in Nat, a + b = c
  PROVE  (a + x) + (b + y) = c + x + y
OBVIOUS

\* One tick keeps the accounting, if its rows continue where the missed end.
LEMMA AdoptKeeps ==
  ASSUME IInv,
         NEW rows \in Seq(Nat), NEW seen \in Nat, NEW lost \in Nat,
         NEW drops \in Nat, NEW truncated \in BOOLEAN,
         seen = mark + lost + Len(rows), seen <= total,
         Continues(rows, mark + lost),
         lost > 0 => dropped <= drops, there => drops = dropCount,
         Adopt(rows, seen, lost, drops, truncated), UNCHANGED serverVars
  PROVE  IInv'
<1>1. /\ events \in Seq(Nat) /\ mark \in Nat /\ missed \in Nat
      /\ dropped \in Nat /\ gapLost \in Nat /\ gapDropped \in Nat
      /\ unknown \in BOOLEAN /\ Len(events) \in Nat
      /\ missed + Len(events) = mark /\ missed = gapLost
  BY DEF IInv, TypeOK, LossIsExact, GapsAddUp
<1>2. /\ mark' = seen /\ events' = events \o rows /\ missed' = missed + lost
      /\ dropped' = drops /\ unknown' = (unknown \/ truncated)
      /\ total' = total /\ held' = held /\ there' = there
      /\ dropCount' = dropCount
  BY DEF Adopt, serverVars
<1>3. /\ mark + lost \in Nat
      /\ \A i \in DOMAIN events : events[i] < mark + lost
      /\ \A i, j \in DOMAIN events : i < j => events[i] < events[j]
  BY <1>1 DEF IInv, LossIsExact, EventsInOrder
<1>4. /\ Len(events') = Len(events) + Len(rows)
      /\ \A i \in DOMAIN events' : events'[i] < mark'
      /\ \A i, j \in DOMAIN events' : i < j => events'[i] < events'[j]
  BY <1>1, <1>2, <1>3, AppendInOrder
<1>5. gapLost' = gapLost + lost /\ gapDropped' \in Nat
  <2>1. CASE lost > 0 \/ drops > dropped
    BY <1>1, <2>1 DEF Adopt
  <2>2. CASE ~(lost > 0 \/ drops > dropped)
    BY <1>1, <2>2 DEF Adopt
  <2> QED BY <2>1, <2>2
<1>6. TypeOK'
  BY <1>1, <1>2, <1>5 DEF IInv, TypeOK
<1>7. missed' + Len(events') = mark'
  <2>1. Len(rows) \in Nat /\ Len(events') = Len(events) + Len(rows)
        /\ missed' = missed + lost /\ mark' = mark + lost + Len(rows)
    BY <1>2, <1>4
  <2>3. /\ missed \in Nat /\ Len(events) \in Nat /\ mark \in Nat
        /\ lost \in Nat /\ Len(rows) \in Nat /\ missed + Len(events) = mark
    BY <1>1, <2>1
  <2>2. (missed + lost) + (Len(events) + Len(rows)) = mark + lost + Len(rows)
    BY ONLY <2>3, BothGrow
  <2> QED BY <2>1, <2>2, Zenon
<1>8. LossIsExact'
  BY <1>2, <1>4, <1>7 DEF LossIsExact
<1>9. EventsInOrder'
  BY <1>4 DEF EventsInOrder
<1>10. GapsAddUp'
  BY <1>1, <1>2, <1>5 DEF GapsAddUp
<1>11. held' <= total' /\ (there' => dropped' <= dropCount')
  BY <1>2 DEF IInv, TypeOK
<1> QED BY <1>6, <1>8, <1>9, <1>10, <1>11 DEF IInv

LEMMA InitEstablishesIInv == Init => IInv
<1> SUFFICES ASSUME Init PROVE IInv
  OBVIOUS
<1>1. events \in Seq(Nat) /\ Len(events) = 0 /\ DOMAIN events = {}
  BY DEF Init
<1>2. there \in BOOLEAN /\ unknown \in BOOLEAN
  BY Zenon DEF Init
<1>3. TypeOK
  BY <1>1, <1>2, RingBufferAssumption DEF Init, TypeOK
<1> QED BY <1>1, <1>3 DEF Init, IInv, LossIsExact, EventsInOrder, GapsAddUp

LEMMA NextKeepsIInv == IInv /\ [Next]_vars => IInv'
<1> SUFFICES ASSUME IInv, [Next]_vars PROVE IInv'
  OBVIOUS
<1>1. CASE Processed
  BY <1>1, RingBufferAssumption DEF Processed, IInv, TypeOK, LossIsExact,
     EventsInOrder, GapsAddUp, drainVars
<1>2. CASE Dropped
  BY <1>2 DEF Dropped, IInv, TypeOK, LossIsExact, EventsInOrder, GapsAddUp,
     drainVars
<1>3. CASE Gone
  BY <1>3 DEF Gone, IInv, TypeOK, LossIsExact, EventsInOrder, GapsAddUp,
     drainVars
<1>4. ASSUME NEW n \in 0 .. held, NEW flagged \in BOOLEAN, Read(n, flagged)
      PROVE  IInv'
  <2>1. mark <= total /\ dropCount \in Nat /\ TypeOK /\ held <= total
    BY DEF IInv, TypeOK, LossIsExact
  <2>3. there /\ dropped <= dropCount
    BY <1>4 DEF Read, IInv
  <2>2. (flagged \/ n < held) \in BOOLEAN
    OBVIOUS
  <2> QED BY <1>4, <2>1, <2>2, <2>3, EmittedFacts, AdoptKeeps DEF Read
<1>5. ASSUME NEW drops \in Nat, there => drops = dropCount,
             Adopt(<<>>, mark, 0, drops, FALSE), UNCHANGED serverVars
      PROVE  IInv'
  <2>1. mark \in Nat /\ mark <= total
    BY DEF IInv, TypeOK, LossIsExact
  <2>2. <<>> \in Seq(Nat) /\ Len(<<>>) = 0 /\ Continues(<<>>, mark + 0)
    BY DEF Continues
  <2>3. mark = mark + 0 + Len(<<>>) /\ (0 > 0 => dropped <= drops) /\ 0 \in Nat
    BY <2>1, <2>2
  <2> QED BY <1>5, <2>1, <2>2, <2>3, AdoptKeeps, Zenon
<1>6. CASE ReadNothing
  BY <1>5, <1>6 DEF ReadNothing, IInv, TypeOK
<1>7. CASE ReadGone
  BY <1>5, <1>7 DEF ReadGone
<1>8. CASE UNCHANGED vars
  BY <1>8 DEF vars, serverVars, drainVars, IInv, TypeOK, LossIsExact,
     EventsInOrder, GapsAddUp
<1> QED BY <1>1, <1>2, <1>3, <1>4, <1>6, <1>7, <1>8 DEF Next, Poll

THEOREM Inductive == Spec => []IInv
  BY InitEstablishesIInv, NextKeepsIInv, PTL DEF Spec

\* Every event below the mark is in the file or counted as missed.
THEOREM LossExact == Spec => []LossIsExact
<1>1. IInv => LossIsExact
  BY DEF IInv
<1> QED BY <1>1, Inductive, PTL

\* No event is written twice or out of order.
THEOREM InOrder == Spec => []EventsInOrder
<1>1. IInv => EventsInOrder
  BY DEF IInv
<1> QED BY <1>1, Inductive, PTL

\* The gap records add up to what the panel and the end record say.
THEOREM GapsTold == Spec => []GapsAddUp
<1>1. IInv => GapsAddUp
  BY DEF IInv
<1> QED BY <1>1, Inductive, PTL

-----------------------------------------------------------------------------
(* The sweep.                                                              *)

\* An instance names only event sessions of its own making.
Owned ==
  \A j \in Instances :
    /\ mine[j] # None => mine[j][1] = j /\ mine[j][2] <= made[j]
    /\ pc[j] \in {"created", "unstarted", "capturing"} => mine[j] # None
    /\ pc[j] \in {"start", "sweepStart"} => made[j] < MaxCaptures

\* Whatever is on the server, or was read from it, has been created.
Made(n) == n[2] <= made[n[1]]

Known ==
  /\ \A n \in defined : Made(n)
  /\ \A i \in Instances : \A n \in list[i] \cup read[i] \cup running[i] : Made(n)

\* A capture starts at age nothing, and is over before twice the cap.
Young ==
  \A j \in Instances :
    /\ pc[j] = "created" => ~Started(mine[j])
    /\ pc[j] = "capturing" /\ Started(mine[j]) => age[mine[j]] <= Cap + Late

\* What was running when a sweep read it is nobody's capture, nor to become it.
Spared ==
  \A i \in Instances : \A n \in list[i] \cap running[i] : \A j \in Instances :
    pc[j] \in {"created", "capturing"} => mine[j] # n

\* What a sweep read and that is still there, it has still to drop.
Swept ==
  \A i \in Instances :
    /\ Sweeping(i) => read[i] \cap defined \subseteq list[i]
    /\ pc[i] = "created" => read[i] \cap defined = {}

SessionsInv == ESTypeOK /\ Owned /\ Known /\ Young /\ Spared /\ Swept

-----------------------------------------------------------------------------
LEMMA InitEstablishesSessionsInv == ESInit => SessionsInv
  BY EventSessionsAssumption
  DEF ESInit, SessionsInv, ESTypeOK, Owned, Known, Young, Spared, Swept, Started,
      Places, Sweeping, Names

\* An event session is dropped, ours or not, and nothing else changes but that
\* a list gets shorter or an instance goes idle: nothing that holds is lost.
LEMMA DropKeeps ==
  ASSUME SessionsInv, NEW n \in Names, Drop(n),
         list' \in [Instances -> SUBSET Names], read' = read, running' = running,
         made' = made, mine' \in [Instances -> Names \cup {None}],
         pc' \in [Instances -> Places],
         \A i \in Instances : list'[i] \subseteq list[i],
         \A i \in Instances : \/ pc'[i] = pc[i] /\ mine'[i] = mine[i]
                              \/ pc'[i] = "idle" /\ mine'[i] \in {mine[i], None},
         \A i \in Instances : Sweeping(i)' => list[i] \ {n} \subseteq list'[i]
  PROVE  SessionsInv'
<1> USE DEF SessionsInv
<1>1. /\ defined' = defined \ {n} /\ age' = [age EXCEPT ![n] = None]
  BY DEF Drop
<1>2. ESTypeOK'
  BY <1>1 DEF ESTypeOK, Started
<1>3. \A m \in Names : Started(m)' => Started(m) /\ age'[m] = age[m]
  BY <1>1 DEF ESTypeOK, Started
<1>4. Owned'
  BY DEF Owned, Places
<1>5. Known'
  BY <1>1 DEF Known, Made, ESTypeOK
<1>6. Young'
  BY <1>3, <1>4 DEF Young, Owned, ESTypeOK
<1>7. Spared'
  BY DEF Spared
<1>8. Swept'
  BY <1>1 DEF Swept, Sweeping
<1> QED
  BY <1>2, <1>4, <1>5, <1>6, <1>7, <1>8

-----------------------------------------------------------------------------
(* One lemma for each step of an instance that is not a drop.              *)

\* An instance goes idle, with what it named and still had to drop forgotten or
\* not.
LEMMA IdleKeeps ==
  ASSUME SessionsInv, NEW i \in Instances, pc' = [pc EXCEPT ![i] = "idle"],
         mine' = mine \/ mine' = [mine EXCEPT ![i] = None],
         list' = list \/ list' = [list EXCEPT ![i] = {}],
         defined' = defined, age' = age, read' = read, running' = running, made' = made
  PROVE  SessionsInv'
<1> USE DEF SessionsInv
<1>1. ESTypeOK'
  BY DEF ESTypeOK, Started, Places
<1>2. Owned'
  BY DEF Owned, ESTypeOK
<1>3. Known'
  BY DEF Known, Made, ESTypeOK
<1>4. Young'
  BY DEF Young, Started, ESTypeOK
<1>5. Spared'
  BY DEF Spared, ESTypeOK
<1>6. Swept'
  BY DEF Swept, Sweeping, ESTypeOK
<1> QED
  BY <1>1, <1>2, <1>3, <1>4, <1>5, <1>6

\* A capture is begun, or the process dies and another takes its place.
LEMMA MovesKeep ==
  ASSUME SessionsInv, NEW i \in Instances,
         BeginStart(i) \/ Crash(i)
  PROVE  SessionsInv'
<1> USE DEF SessionsInv, BeginStart, Crash, Goto,
        sessionVars, sweepVars
<1>1. ESTypeOK'
  BY DEF ESTypeOK, Started, Places
<1>2. Owned'
  BY DEF Owned, ESTypeOK
<1>3. Known'
  BY DEF Known, Made, ESTypeOK
<1>4. Young'
  BY DEF Young, Started, ESTypeOK
<1>5. Spared'
  BY DEF Spared, ESTypeOK
<1>6. Swept'
  BY DEF Swept, Sweeping, ESTypeOK
<1> QED
  BY <1>1, <1>2, <1>3, <1>4, <1>5, <1>6

\* The list is read.  A capture that is young is not on it, and one that has
\* not been started was not running.
LEMMA SelectKeeps ==
  ASSUME SessionsInv, NEW i \in Instances, Select(i) PROVE SessionsInv'
<1> USE DEF SessionsInv, Select, Goto, sessionVars
<1> DEFINE dead == {n \in defined : Dead(n)}
<1>1. ESTypeOK'
  BY DEF ESTypeOK, Started, Places
<1>2. Owned'
  BY DEF Owned, ESTypeOK
<1>3. Known'
  BY DEF Known, Made, ESTypeOK
<1>4. Young'
  BY DEF Young, Started, ESTypeOK
<1>5. Spared'
  <2>1. ASSUME NEW j \in Instances, pc[j] \in {"created", "capturing"},
               mine[j] \in dead, Started(mine[j])
        PROVE  FALSE
    <3>1. pc[j] = "capturing" /\ age[mine[j]] <= Cap + Late
      BY <2>1 DEF Young
    <3>2. age[mine[j]] \in 0 .. 2 * Cap + 1 /\ age[mine[j]] > 2 * Cap
      BY <2>1 DEF Dead, Started, ESTypeOK
    <3> QED
      BY <3>1, <3>2, EventSessionsAssumption
  <2> QED
    BY <2>1 DEF Spared, ESTypeOK
<1>6. Swept'
  BY DEF Swept, Sweeping, ESTypeOK
<1> QED
  BY <1>1, <1>2, <1>3, <1>4, <1>5, <1>6

\* A name that nobody has read can be on no list.
LEMMA CreateKeeps ==
  ASSUME SessionsInv, NEW i \in Instances, Create(i) PROVE SessionsInv'
<1> USE DEF SessionsInv, Create, Goto, sweepVars
<1>0. made[i] + 1 \in 1 .. MaxCaptures
  <2>1. made[i] \in 0 .. MaxCaptures /\ made[i] < MaxCaptures
    BY DEF Owned, ESTypeOK
  <2> QED
    BY <2>1, EventSessionsAssumption
<1>1. PICK n \in Names : n = <<i, made[i] + 1>>
  BY <1>0 DEF Names
<1>12. /\ made[i] \in Nat /\ made' = [made EXCEPT ![i] = @ + 1]
       /\ n[1] = i /\ n[2] = made[i] + 1
  BY <1>1 DEF ESTypeOK
<1>2. ~Made(n) /\ \A m \in Names : Made(m) => Made(m)' /\ m # n
  BY <1>12 DEF Made, ESTypeOK, Names
<1>3. n \notin defined /\ ~Started(n)
  BY <1>1, <1>2 DEF Known, ESTypeOK
<1>4. Made(n)'
  BY <1>12 DEF Made, ESTypeOK
<1>5. defined \subseteq defined' /\ defined' \subseteq defined \cup {n}
  BY <1>1
<1>13. \/ mine' = mine /\ pc' = [pc EXCEPT ![i] = "idle"]
       \/ mine' = [mine EXCEPT ![i] = n] /\ pc' = [pc EXCEPT ![i] = "created"]
  BY <1>1
<1>6. ESTypeOK'
  BY <1>0, <1>12, <1>13, <1>5 DEF ESTypeOK, Started, Places
<1>7. Owned'
  <2> SUFFICES ASSUME NEW j \in Instances
               PROVE  /\ mine'[j] # None => mine'[j][1] = j /\ mine'[j][2] <= made'[j]
                      /\ pc'[j] \in {"created", "unstarted", "capturing"} => mine'[j] # None
                      /\ pc'[j] \in {"start", "sweepStart"} => made'[j] < MaxCaptures
    BY DEF Owned
  <2>1. CASE j # i
    BY <1>12, <1>13, <2>1 DEF Owned, ESTypeOK
  <2>2. CASE j = i /\ mine' = mine /\ pc' = [pc EXCEPT ![i] = "idle"]
    <3>1. mine[i] # None => mine[i][2] \in Nat
      BY DEF ESTypeOK, Names
    <3> QED
      BY <1>12, <2>2, <3>1 DEF Owned, ESTypeOK
  <2>3. CASE /\ j = i /\ mine' = [mine EXCEPT ![i] = n]
             /\ pc' = [pc EXCEPT ![i] = "created"]
    BY <1>12, <2>3, NoneAssumption DEF ESTypeOK
  <2> QED
    BY <1>13, <2>1, <2>2, <2>3
<1>8. Known'
  BY <1>2, <1>4, <1>5 DEF Known, ESTypeOK
<1>9. Young'
  BY <1>3, <1>13 DEF Young, Started, ESTypeOK
<1>10. Spared'
  BY <1>2, <1>13 DEF Spared, Known, ESTypeOK
<1>11. Swept'
  BY <1>1, <1>2, <1>5, <1>13 DEF Swept, Sweeping, Known, ESTypeOK
<1> QED
  BY <1>6, <1>7, <1>8, <1>9, <1>10, <1>11

\* A session is started, by its owner, or the owner does not learn that it was.
LEMMA StartKeeps ==
  ASSUME SessionsInv, NEW i \in Instances, Start(i) \/ StartFails(i)
  PROVE  SessionsInv'
<1> USE DEF SessionsInv
<1>0. /\ pc[i] = "created"
      /\ pc' = [pc EXCEPT ![i] = "capturing"] \/ pc' = [pc EXCEPT ![i] = "unstarted"]
  BY DEF Start, StartFails, Goto
<1>1. mine[i] \in Names /\ mine[i][1] = i
  BY <1>0 DEF Owned, ESTypeOK
<1>2. \A j \in Instances : j # i => mine[j] # mine[i] \/ mine[j] = None
  BY <1>1 DEF Owned
<1>3. /\ \/ age' = age
         \/ mine[i] \in defined /\ age' = [age EXCEPT ![mine[i]] = 0]
      /\ defined' = defined /\ mine' = mine /\ made' = made
      /\ list' = list /\ read' = read /\ running' = running
  <2>1. CASE Start(i)
    BY <2>1 DEF Start, sweepVars
  <2>2. CASE StartFails(i)
    BY <2>2 DEF StartFails, sweepVars
  <2> QED
    BY <2>1, <2>2
<1>4. ESTypeOK'
  BY <1>0, <1>1, <1>3, EventSessionsAssumption DEF ESTypeOK, Started, Places
<1>5. Owned'
  BY <1>0, <1>3 DEF Owned, ESTypeOK
<1>6. Known'
  BY <1>3 DEF Known, Made
<1>7. Young'
  <2> SUFFICES ASSUME NEW j \in Instances
               PROVE  /\ pc'[j] = "created" => ~Started(mine[j])'
                      /\ pc'[j] = "capturing" /\ Started(mine[j])' => age'[mine[j]] <= Cap + Late
    BY <1>3 DEF Young, Started
  <2>1. CASE j = i
    BY <1>0, <1>1, <1>3, <2>1, EventSessionsAssumption DEF Young, ESTypeOK, Started
  <2>2. CASE j # i
    <3>1. pc'[j] = pc[j] /\ (pc[j] \in {"created", "capturing"} => mine[j] # None)
      BY <1>0, <2>2 DEF Owned, ESTypeOK
    <3>2. pc[j] \in {"created", "capturing"} => age'[mine[j]] = age[mine[j]]
      BY <1>1, <1>2, <1>3, <2>2, <3>1 DEF ESTypeOK
    <3> QED
      BY <1>3, <3>1, <3>2 DEF Young, Started
  <2> QED
    BY <2>1, <2>2
<1>8. Spared'
  BY <1>0, <1>3 DEF Spared, ESTypeOK
<1>9. Swept'
  BY <1>0, <1>3 DEF Swept, Sweeping, ESTypeOK
<1> QED
  BY <1>4, <1>5, <1>6, <1>7, <1>8, <1>9

\* Time passes, and passes no drain that is late by more than it may be.
LEMMA MinuteKeeps == SessionsInv /\ Minute => SessionsInv'
<1> SUFFICES ASSUME SessionsInv, Minute PROVE SessionsInv'
  OBVIOUS
<1> USE DEF SessionsInv, Minute, instVars, sweepVars
<1>1. \A n \in Names :
        Started(n) => /\ age[n] \in 0 .. 2 * Cap + 1
                      /\ age'[n] \in 0 .. 2 * Cap + 1
                      /\ age'[n] <= age[n] + 1
  BY EventSessionsAssumption DEF ESTypeOK, Started
<1>2. \A n \in Names : ~Started(n) => age'[n] = None
  OBVIOUS
<1>3. ESTypeOK'
  BY <1>1, <1>2 DEF ESTypeOK, Started
<1>4. Owned' /\ Known' /\ Spared' /\ Swept'
  BY DEF Owned, Known, Made, Spared, Swept, Sweeping
<1>5. Young'
  <2> SUFFICES ASSUME NEW j \in Instances, mine[j] \in Names
               PROVE  /\ pc[j] = "created" => ~Started(mine[j])'
                      /\ pc[j] = "capturing" /\ Started(mine[j])' => age'[mine[j]] <= Cap + Late
    BY DEF Young, Started, Owned, ESTypeOK
  <2> QED
    BY <1>1, <1>2, EventSessionsAssumption DEF Young, Started
<1> QED
  BY <1>3, <1>4, <1>5

-----------------------------------------------------------------------------
LEMMA NextKeepsSessionsInv == SessionsInv /\ [ESNext]_allVars => SessionsInv'
<1> SUFFICES ASSUME SessionsInv, [ESNext]_allVars PROVE SessionsInv'
  OBVIOUS
<1>1. ASSUME UNCHANGED <<sessionVars, instVars>> PROVE SessionsInv'
  BY <1>1 DEF SessionsInv, ESTypeOK, Owned, Known, Made, Young, Spared, Swept,
     Started, Sweeping, sessionVars, instVars, sweepVars
<1>2. ASSUME NEW i \in Instances, NEW n \in list[i], SweepDrop(i, n)
      PROVE  SessionsInv'
  BY <1>2, DropKeeps DEF SweepDrop, SessionsInv, ESTypeOK, Sweeping
<1>3. ASSUME NEW i \in Instances, NEW n \in list[i], SweepDropFails(i, n)
      PROVE  SessionsInv'
  <2>1. /\ list' \in [Instances -> SUBSET Names] /\ pc' \in [Instances -> Places]
        /\ \A j \in Instances : list'[j] \subseteq list[j]
        /\ \A j \in Instances : pc'[j] \in {pc[j], "idle"}
        /\ \A j \in Instances : Sweeping(j)' => list'[j] = list[j]
        /\ read' = read /\ running' = running /\ made' = made /\ mine' = mine
    BY <1>3 DEF SweepDropFails, GiveUp, Goto, Sweeping, Places, SessionsInv, ESTypeOK
  <2>2. CASE Drop(n)
    <3>1. n \in Names
      BY <1>3 DEF SessionsInv, ESTypeOK
    <3> QED
      BY <2>1, <2>2, <3>1, DropKeeps DEF SessionsInv, ESTypeOK
  <2>3. CASE UNCHANGED <<vars, sessionVars>>
    BY <1>3, <2>1, <2>3, IdleKeeps DEF sessionVars, SweepDropFails, GiveUp, Goto
  <2> QED
    BY <1>3, <2>2, <2>3 DEF SweepDropFails
<1>4. ASSUME NEW i \in Instances, DropMine(i) PROVE SessionsInv'
  <2>1. /\ mine[i] \in Names
        /\ pc' = [pc EXCEPT ![i] = "idle"] /\ mine' = [mine EXCEPT ![i] = None]
        /\ list' = list /\ read' = read /\ running' = running /\ made' = made
    BY <1>4 DEF DropMine, Goto, SessionsInv, Owned, ESTypeOK, sweepVars
  <2>2. /\ pc' \in [Instances -> Places] /\ mine' \in [Instances -> Names \cup {None}]
        /\ list' \in [Instances -> SUBSET Names]
        /\ \A j \in Instances : \/ pc'[j] = pc[j] /\ mine'[j] = mine[j]
                                \/ pc'[j] = "idle" /\ mine'[j] \in {mine[j], None}
    BY <2>1 DEF SessionsInv, ESTypeOK, Places
  <2>3. CASE Drop(mine[i])
    BY <2>1, <2>2, <2>3, DropKeeps
  <2>4. CASE UNCHANGED <<vars, sessionVars>>
    BY <2>1, <2>2, <2>4, IdleKeeps DEF sessionVars
  <2> QED
    BY <1>4, <2>3, <2>4 DEF DropMine
<1>5. ASSUME NEW i \in Instances, SelectFails(i) \/ Booted(i) PROVE SessionsInv'
  BY <1>5, IdleKeeps DEF SelectFails, Booted, GiveUp, Goto, sessionVars
<1> QED
  BY <1>1, <1>2, <1>3, <1>4, <1>5, MovesKeep, SelectKeeps, CreateKeeps, StartKeeps, MinuteKeeps
  DEF ESNext, InstanceStep, Watching, allVars

LEMMA SessionsInvAlways == ESSpec => []SessionsInv
  BY InitEstablishesSessionsInv, NextKeepsSessionsInv, PTL DEF ESSpec

-----------------------------------------------------------------------------
\* For every number of instances, and drains that end less than a cap late: a
\* sweep never has what is being captured, and was started when it looked, among
\* what it still means to drop.  It says nothing of what was only created then.
THEOREM SweepIsSafe == ESSpec => []SweepSparesTheRunning
<1>1. SessionsInv => SweepSparesTheRunning
  BY DEF SessionsInv, Spared, SweepSparesTheRunning, Live
<1> QED
  BY <1>1, SessionsInvAlways, PTL

\* And a capture is created on a server that has been rid of what its sweep
\* found dead.
THEOREM SweepIsComplete == ESSpec => []NothingDeadIsLeft
<1>1. SessionsInv => NothingDeadIsLeft
  BY DEF SessionsInv, Swept, NothingDeadIsLeft
<1> QED
  BY <1>1, SessionsInvAlways, PTL

-----------------------------------------------------------------------------
(* The accounting of RingBuffer.tla, with other instances on the server.   *)

\* What the instances do to the event session of Us is what the server alone
\* may do to it, or the start of a new one.
LEMMA InstancesKeepTheAccount ==
  ASSUME IInv, [ESNext]_allVars
  PROVE  [Next]_vars \/ Init'
<1>1. ASSUME NEW n, Drop(n) PROVE Gone \/ UNCHANGED vars
  <2>1. there \in BOOLEAN
    BY DEF IInv, TypeOK
  <2>2. CASE there'
    BY <1>1, <2>1, <2>2 DEF Drop, vars, serverVars
  <2>3. CASE there /\ ~there'
    BY <1>1, <2>1, <2>3 DEF Drop, Gone
  <2>4. CASE ~there
    BY <1>1, <2>1, <2>4 DEF Drop, vars, serverVars
  <2> QED
    BY <2>2, <2>3, <2>4
<1>2. ASSUME NEW i \in Instances, Start(i) PROVE Init' \/ UNCHANGED vars
  BY <1>2 DEF Start, FreshBuffer, Init
<1>3. ASSUME NEW i \in Instances,
             BeginStart(i) \/ Select(i) \/ SelectFails(i) \/ Booted(i) \/ Create(i)
               \/ StartFails(i) \/ Crash(i)
      PROVE  UNCHANGED vars
  BY <1>3 DEF BeginStart, Select, SelectFails, Booted, Create, StartFails, Crash
<1>4. ASSUME NEW i \in Instances, NEW n \in list[i], SweepDrop(i, n) \/ SweepDropFails(i, n)
      PROVE  Gone \/ UNCHANGED vars
  BY <1>1, <1>4 DEF SweepDrop, SweepDropFails
<1>5. ASSUME NEW i \in Instances, DropMine(i) PROVE Gone \/ UNCHANGED vars
  BY <1>1, <1>5 DEF DropMine
<1> QED
  BY <1>2, <1>3, <1>4, <1>5 DEF ESNext, InstanceStep, Minute, Watching, Next, allVars

LEMMA AccountAlways == ESSpec => []IInv
<1>1. ESInit => IInv
  BY InitEstablishesIInv DEF ESInit
<1>2. Init' => IInv'
  BY InitEstablishesIInv, PTL
<1>3. IInv /\ [ESNext]_allVars => IInv'
  BY <1>2, InstancesKeepTheAccount, NextKeepsIInv
<1> QED
  BY <1>1, <1>3, PTL DEF ESSpec

\* One capture of Us after another is what RingBuffer describes: whatever the
\* instances do, a step of theirs is one of the server or of the drain there, or
\* the start of a capture with nothing in its buffer and nothing in its file.
THEOREM EachCaptureIsARingBuffer == ESSpec => Init /\ [][Next \/ Init']_vars
<1> DEFINE StepOrStart == Next \/ Init'
<1>1. ESInit => Init
  BY DEF ESInit
<1>2. IInv /\ [ESNext]_allVars => [StepOrStart]_vars
  BY InstancesKeepTheAccount
<1>3. ESSpec => Init /\ [][StepOrStart]_vars
  <2> HIDE DEF StepOrStart
  <2> QED
    BY <1>1, <1>2, AccountAlways, PTL DEF ESSpec
<1> QED
  BY <1>3

\* Nothing that other instances do, and no new capture, upsets the account of
\* what was read and what was lost, or has an event filed twice.
THEOREM AccountSurvivesTheOthers ==
  ESSpec => [](LossIsExact /\ GapsAddUp /\ EventsInOrder)
<1>1. IInv => LossIsExact /\ GapsAddUp /\ EventsInOrder
  BY DEF IInv
<1> QED
  BY <1>1, AccountAlways, PTL

\* Every variable of the instances, the server and the drain of Us keeps its
\* type, for every number of instances.
THEOREM SessionsTypeCorrect == ESSpec => [](TypeOK /\ ESTypeOK)
<1>1. IInv => TypeOK
  BY DEF IInv
<1>2. SessionsInv => ESTypeOK
  BY DEF SessionsInv
<1> QED
  BY <1>1, <1>2, AccountAlways, SessionsInvAlways, PTL

-----------------------------------------------------------------------------
(* The two halves are about one event session.                             *)

\* While Us captures, its drain finds a ring buffer exactly when the server
\* runs the event session that Us names.
BufferIsOfTheSession == pc[Us] = "capturing" => (there <=> Started(mine[Us]))

LEMMA NextKeepsTheSession ==
  TypeOK /\ SessionsInv /\ BufferIsOfTheSession /\ [ESNext]_allVars => BufferIsOfTheSession'
<1> SUFFICES ASSUME TypeOK, SessionsInv, BufferIsOfTheSession, [ESNext]_allVars,
                    pc'[Us] = "capturing"
             PROVE  there' <=> Started(mine[Us])'
  BY DEF BufferIsOfTheSession
<1> USE EventSessionsAssumption, NoneAssumption
<1>1. there \in BOOLEAN
  BY DEF TypeOK
<1>2. ASSUME pc' = pc, mine' = mine, there' = there,
             Started(mine[Us])' <=> Started(mine[Us])
      PROVE  there' <=> Started(mine[Us])'
  BY <1>2 DEF BufferIsOfTheSession
<1>3. ASSUME NEW n \in Names, Drop(n), pc[Us] = "capturing", mine'[Us] = mine[Us]
      PROVE  there' <=> Started(mine[Us])'
  <2>1. mine[Us] \in Names
    BY <1>3 DEF SessionsInv, Owned, ESTypeOK
  <2>2. Started(mine[Us])' <=> Started(mine[Us]) /\ n # mine[Us]
    BY <1>3, <2>1 DEF Drop, Started, SessionsInv, ESTypeOK
  <2>3. there' <=> there /\ n # mine[Us]
    BY <1>3, <1>1, Zenon DEF Drop
  <2> QED
    BY <1>3, <2>2, <2>3 DEF BufferIsOfTheSession
<1>4. CASE Minute
  <2>1. mine[Us] \in Names
    BY <1>4 DEF Minute, instVars, SessionsInv, Owned, ESTypeOK
  <2>2. Started(mine[Us])' <=> Started(mine[Us])
    <3> DEFINE m == mine[Us]
    <3>1. m' = m /\ m \in Names /\ age[m] \in 0 .. 2 * Cap + 1 \cup {None}
      BY <1>4, <2>1 DEF Minute, instVars, SessionsInv, ESTypeOK
    <3>2. age'[m] = IF age[m] # None THEN IF age[m] > 2 * Cap THEN age[m] ELSE age[m] + 1
                    ELSE None
      BY <1>4, <3>1 DEF Minute, Started
    <3>3. age[m] # None => age[m] \in Nat /\ age[m] + 1 # None
      BY <3>1
    <3> QED
      BY <3>1, <3>2, <3>3 DEF Started
  <2> QED
    BY <1>2, <1>4, <2>2 DEF Minute, instVars, vars, serverVars
<1>5. CASE Watching
  <2>1. there' = there
    BY <1>5 DEF Watching, Processed, Dropped, Poll, Read, ReadNothing, ReadGone, serverVars
  <2> QED
    BY <1>2, <1>5, <2>1 DEF Watching, instVars, sessionVars, Started
<1>6. ASSUME NEW i \in Instances,
             BeginStart(i) \/ Select(i) \/ SelectFails(i) \/ Booted(i) \/ Create(i)
               \/ Crash(i)
      PROVE  there' <=> Started(mine[Us])'
  <2>1. pc[Us] = "capturing" /\ mine'[Us] = mine[Us] /\ age' = age /\ there' = there
    BY <1>6 DEF BeginStart, Select, SelectFails, Booted, Create, Crash, Goto, GiveUp,
       SessionsInv, ESTypeOK, vars, serverVars, sessionVars
  <2> QED
    BY <2>1 DEF BufferIsOfTheSession, Started
<1>7. ASSUME NEW i \in Instances, Start(i) PROVE there' <=> Started(mine[Us])'
  <2>1. mine' = mine /\ mine[i] \in Names
    BY <1>7 DEF Start, SessionsInv, Owned, ESTypeOK
  <2>2. CASE i = Us
    <3>1. Started(mine[Us])'
      <4>1. age'[mine[Us]] = 0
        BY <1>7, <2>1, <2>2 DEF Start, SessionsInv, ESTypeOK
      <4> QED
        BY <2>1, <4>1 DEF Started
    <3> QED
      BY <1>7, <2>2, <3>1 DEF Start, FreshBuffer
  <2>3. CASE i # Us
    <3>1. pc[Us] = "capturing" /\ there' = there
      BY <1>7, <2>3 DEF Start, Goto, SessionsInv, ESTypeOK, vars, serverVars
    <3>2. mine[Us] # mine[i]
      BY <3>1, <1>7, <2>1, <2>3 DEF Start, SessionsInv, Owned, ESTypeOK
    <3>3. age'[mine[Us]] = age[mine[Us]]
      BY <1>7, <3>1, <3>2 DEF Start, SessionsInv, Owned, ESTypeOK
    <3> QED
      BY <2>1, <3>1, <3>3 DEF BufferIsOfTheSession, Started
  <2> QED
    BY <2>2, <2>3
<1>8. ASSUME NEW i \in Instances, StartFails(i) PROVE there' <=> Started(mine[Us])'
  <2>1. i # Us /\ pc[Us] = "capturing" /\ mine' = mine /\ there' = there
    BY <1>8 DEF StartFails, Goto, SessionsInv, ESTypeOK, vars, serverVars
  <2>2. mine[Us] # mine[i] /\ mine[Us] \in Names
    BY <1>8, <2>1 DEF StartFails, SessionsInv, Owned, ESTypeOK
  <2>3. age'[mine[Us]] = age[mine[Us]]
    BY <1>8, <2>2 DEF StartFails, SessionsInv, ESTypeOK
  <2> QED
    BY <2>1, <2>3 DEF BufferIsOfTheSession, Started
<1>9. ASSUME NEW i \in Instances, NEW n \in list[i], SweepDrop(i, n) \/ SweepDropFails(i, n)
      PROVE  there' <=> Started(mine[Us])'
  <2>1. n \in Names /\ pc[Us] = "capturing" /\ mine' = mine
    BY <1>9 DEF SweepDrop, SweepDropFails, GiveUp, Goto, SessionsInv, ESTypeOK
  <2>2. CASE Drop(n)
    BY <1>3, <2>1, <2>2
  <2>3. CASE UNCHANGED <<vars, sessionVars>>
    BY <2>1, <2>3 DEF vars, serverVars, sessionVars, BufferIsOfTheSession, Started
  <2> QED
    BY <1>9, <2>2, <2>3 DEF SweepDrop, SweepDropFails
<1>10. ASSUME NEW i \in Instances, DropMine(i) PROVE there' <=> Started(mine[Us])'
  <2>1. i # Us /\ mine[i] \in Names /\ pc[Us] = "capturing" /\ mine'[Us] = mine[Us]
    BY <1>10 DEF DropMine, Goto, SessionsInv, Owned, ESTypeOK
  <2>2. CASE Drop(mine[i])
    BY <1>3, <2>1, <2>2
  <2>3. CASE UNCHANGED <<vars, sessionVars>>
    BY <2>1, <2>3 DEF vars, serverVars, sessionVars, BufferIsOfTheSession, Started
  <2> QED
    BY <1>10, <2>2, <2>3 DEF DropMine
<1>11. CASE UNCHANGED allVars
  BY <1>2, <1>11 DEF allVars, vars, serverVars, instVars, sessionVars, Started
<1> QED
  BY <1>4, <1>5, <1>6, <1>7, <1>8, <1>9, <1>10, <1>11 DEF ESNext, InstanceStep

\* What the drain reads of its ring buffer is what the statements of every
\* instance have left of its event session, so the account above is of this
\* server and not of one that the two halves of the model imagine apart.
THEOREM OneServer == ESSpec => []BufferIsOfTheSession
<1>1. ESInit => BufferIsOfTheSession
  BY EventSessionsAssumption DEF ESInit, BufferIsOfTheSession
<1> QED
  BY <1>1, NextKeepsTheSession, SessionsTypeCorrect, SessionsInvAlways, PTL DEF ESSpec

=============================================================================

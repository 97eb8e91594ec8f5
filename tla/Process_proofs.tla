--------------------------- MODULE Process_proofs ---------------------------
(***************************************************************************)
(* The process of Process.tla, for any number of tabs, of views, columns   *)
(* and figures, whatever the two files hold at first: there is one login,  *)
(* no save is undone, and what was saved is read.                          *)
(***************************************************************************)
EXTENDS Process, FiniteSetTheorems, TLAPS

-----------------------------------------------------------------------------
(* The login.                                                              *)

Forms == [Tabs -> {"no", "posted", "opening", "opened"}]

\* Who holds busy has the one attempt; main's login and a form's are never
\* there together, since a form is only posted before any login is.
LoginInv ==
  /\ form \in Forms /\ busy \in Tabs \cup {None} /\ connected \in BOOLEAN
  /\ \A t \in Tabs : form[t] \in {"opening", "opened"} <=> busy = t
  /\ connected => busy = None /\ logins = {src}
  /\ \A t \in Tabs : busy = t =>
       /\ logins \subseteq {t}
       /\ form[t] = "opened" => logins = {t} /\ src = t
  /\ ~connected /\ busy = None =>
       /\ logins \subseteq {"main"}
       /\ (\E t \in Tabs : form[t] # "no") \/ phase = "asking" => logins = {}
  /\ phase \in {"opening", "off"} =>
       ~connected /\ busy = None /\ \A t \in Tabs : form[t] = "no"
  /\ phase = "off" => logins = {}
  /\ phase = "handover" => connected
  /\ phase = "monitor" => logins = {src} /\ (connected \/ \A t \in Tabs : form[t] = "no")

LEMMA LoginInit == ProcessInit => LoginInv
  BY LayoutAssumption DEF ProcessInit, LoginInv, Forms

LEMMA LoginStep == LoginInv /\ [ProcessNext]_vars => LoginInv'
<1> SUFFICES ASSUME LoginInv, [ProcessNext]_vars PROVE LoginInv'
  OBVIOUS
<1>1. ASSUME UNCHANGED askVars, phase' = phase PROVE LoginInv'
  BY <1>1 DEF LoginInv, Forms, askVars
<1>2. CASE Start
  <2>1. phase = "off" /\ phase' \in {"opening", "asking"} /\ UNCHANGED askVars
    BY <1>2 DEF Start
  <2> QED
    BY <2>1 DEF LoginInv, Forms, askVars
<1>3. CASE MainLogin
  BY <1>3 DEF MainLogin, LoginReaches, LoginInv, Forms, mainVars
<1>4. CASE MainOpened
  <2>1. logins = {"main"}
    BY <1>4 DEF MainOpened, LoginInv
  <2> QED
    BY <1>4, <2>1 DEF MainOpened, LoginInv, Forms
<1>5. CASE Handover
  BY <1>5 DEF Handover, LoginInv, Forms, askVars
<1>6. CASE Resume
  BY <1>6 DEF Resume, LoginInv, Forms
<1>7. CASE Interrupt
  BY <1>7 DEF Interrupt, LoginInv, Forms
<1>8. CASE Gone
  <2>1. /\ phase' = "off" /\ form' = [t \in Tabs |-> "no"]
        /\ busy' = None /\ connected' = FALSE /\ logins' = {}
    BY <1>8 DEF Gone
  <2> QED
    BY <2>1, LayoutAssumption DEF LoginInv, Forms
<1>9. ASSUME NEW t \in Tabs, Arrive(t) \/ Accept(t) \/ Close(t) PROVE LoginInv'
  BY <1>9 DEF Arrive, Accept, Close, LoginInv, Forms, mainVars
<1>10. ASSUME NEW t \in Tabs, Submit(t) PROVE LoginInv'
  BY <1>10 DEF Submit, LoginInv, Forms, mainVars
<1>11. ASSUME NEW t \in Tabs, Form(t) PROVE LoginInv'
  <2>1. CASE Conflict(t)
    BY <2>1 DEF Conflict, LoginInv, Forms, mainVars
  <2>2. CASE Attempt(t)
    BY <2>2, LayoutAssumption DEF Attempt, Refuses, LoginInv, Forms, mainVars
  <2>3. CASE FormLogin(t)
    BY <2>3, LayoutAssumption DEF FormLogin, LoginReaches, LoginInv, Forms, mainVars
  <2>4. CASE FormFails(t)
    BY <2>4, LayoutAssumption DEF FormFails, Closed, LoginInv, Forms, mainVars
  <2>5. CASE FormOpened(t)
    BY <2>5, LayoutAssumption DEF FormOpened, LoginInv, Forms, mainVars
  <2>6. ASSUME NEW value \in Typed, FormAnswered(t, value) PROVE LoginInv'
    BY <2>6, LayoutAssumption DEF FormAnswered, LoginInv, Forms
  <2> QED
    BY <1>11, <2>1, <2>2, <2>3, <2>4, <2>5, <2>6 DEF Form
<1>12. ASSUME NEW t \in Tabs, SaveLayout(t) PROVE LoginInv'
  BY <1>12, <1>1 DEF SaveLayout, mainVars
<1>13. CASE WriteItOut
  BY <1>13, <1>1 DEF WriteItOut, mainVars
<1>14. CASE UNCHANGED vars
  BY <1>14, <1>1 DEF vars, mainVars
<1> QED
  BY <1>2, <1>3, <1>4, <1>5, <1>6, <1>7, <1>8, <1>9, <1>10, <1>11, <1>12, <1>13, <1>14
  DEF ProcessNext, MainFails, Leave

\* The server sees one login, and the monitor goes on with it, whatever is
\* posted, abandoned, refused or interrupted (connectPhase.attempt, main).
THEOREM LoginIsOne == ProcessSpec => []OneLogin
<1>1. LoginInv => OneLogin
  <2> SUFFICES ASSUME LoginInv PROVE OneLogin
    OBVIOUS
  <2>1. PICK who : logins \subseteq {who}
    <3>1. CASE connected
      BY <3>1 DEF LoginInv
    <3>2. CASE ~connected /\ busy = None
      BY <3>2 DEF LoginInv
    <3>3. CASE busy \in Tabs
      BY <3>3 DEF LoginInv
    <3> QED
      BY <3>1, <3>2, <3>3 DEF LoginInv
  <2>2. Cardinality(logins) <= 1
    <3>1. IsFiniteSet({who}) /\ Cardinality({who}) = 1 /\ logins \in SUBSET {who}
      BY <2>1, FS_Singleton
    <3> QED
      BY ONLY <3>1, FS_Subset
  <2> QED
    BY <2>2 DEF OneLogin, LoginInv
<1> QED
  BY <1>1, LoginInit, LoginStep, PTL DEF ProcessSpec

-----------------------------------------------------------------------------
(* The socket both servers accept on.                                      *)

\* Whoever serves finds the listener's deadline lifted, so that a page which
\* waits in the kernel's queue is refused by nobody; and none waits on a process
\* that is gone.  This is the half of ArrivalsAreServed that is no liveness: what
\* can go wrong is a monitor that serves a socket it cannot accept on.
NobodyIsShutOut ==
  \A t \in Tabs : page[t] = "queued" =>
    /\ phase # "off"
    /\ phase \in {"asking", "monitor"} => cleared

\* The deadline is in the past from the handover on, until the monitor serves or
\* the process is gone.
DoorInv ==
  /\ ~cleared => phase \in {"handover", "leaving"}
  /\ phase = "off" => \A t \in Tabs : page[t] = "away"

LEMMA DoorStep == DoorInv /\ [ProcessNext]_vars => DoorInv'
<1> SUFFICES ASSUME DoorInv, [ProcessNext]_vars PROVE DoorInv'
  OBVIOUS
<1>1. ASSUME UNCHANGED <<phase, cleared, page>> PROVE DoorInv'
  BY <1>1 DEF DoorInv
<1>2. CASE Start
  BY <1>2 DEF Start, askVars, DoorInv
<1>3. CASE MainOpened
  BY <1>3 DEF MainOpened, DoorInv
<1>4. CASE Handover
  BY <1>4 DEF Handover, DoorInv
<1>5. CASE Resume
  BY <1>5 DEF Resume, DoorInv
<1>6. CASE Interrupt
  BY <1>6 DEF Interrupt, DoorInv
<1>7. CASE Gone
  BY <1>7 DEF Gone, DoorInv
<1>8. ASSUME NEW t \in Tabs, Arrive(t) \/ Accept(t) \/ Close(t) PROVE DoorInv'
  <2>1. phase # "off"
    BY <1>8 DEF Arrive, Accept, Close, DoorInv
  <2> QED
    BY <1>8, <2>1 DEF Arrive, Accept, Close, mainVars, DoorInv
<1>9. ASSUME NEW t \in Tabs, Submit(t) \/ Form(t) PROVE DoorInv'
  BY <1>1, <1>9 DEF Submit, Form, Conflict, Attempt, FormLogin, FormFails, FormOpened,
     FormAnswered, mainVars
<1>10. ASSUME NEW t \in Tabs, SaveLayout(t) PROVE DoorInv'
  BY <1>1, <1>10 DEF SaveLayout, askVars, mainVars
<1>11. CASE MainLogin \/ WriteItOut \/ UNCHANGED vars
  BY <1>1, <1>11 DEF MainLogin, WriteItOut, vars, askVars, mainVars
<1> QED
  BY <1>2, <1>3, <1>4, <1>5, <1>6, <1>7, <1>8, <1>9, <1>10, <1>11
  DEF ProcessNext, MainFails, Leave

\* For any number of tabs: a page that arrives at any instant of the handover, or
\* of an interrupt during it, has a server that can accept it, or none at all.
THEOREM TheDoorIsOpen == ProcessSpec => []NobodyIsShutOut
<1>1. ProcessInit => DoorInv
  BY DEF ProcessInit, DoorInv
<1>2. DoorInv => NobodyIsShutOut
  BY DEF DoorInv, NobodyIsShutOut
<1> QED
  BY <1>1, <1>2, DoorStep, PTL DEF ProcessSpec

-----------------------------------------------------------------------------
(* What picking entries of a list by position gives.                       *)

LEMMA PositionsAreFinite ==
  ASSUME NEW n \in Nat, NEW I \in SUBSET (1 .. n)
  PROVE  /\ IsFiniteSet(I) /\ Cardinality(I) \in Nat
         /\ \A i : Rank(I, i) \in Nat /\ Rank(I, i) <= Cardinality(I)
<1>1. IsFiniteSet(1 .. n)
  BY FS_Interval
<1>2. IsFiniteSet(I) /\ Cardinality(I) \in Nat
  BY <1>1, FS_Subset, FS_CardinalityType
<1>3. ASSUME NEW i PROVE Rank(I, i) \in Nat /\ Rank(I, i) <= Cardinality(I)
  <2> DEFINE before == {j \in I : j <= i}
  <2>1. before \in SUBSET I
    OBVIOUS
  <2>2. IsFiniteSet(before) /\ Cardinality(before) <= Cardinality(I)
    BY <1>2, <2>1, FS_Subset
  <2>3. Cardinality(before) \in Nat
    BY <2>2, FS_CardinalityType
  <2> QED
    BY <2>2, <2>3 DEF Rank
<1> QED
  BY <1>2, <1>3

LEMMA RankGrows ==
  ASSUME NEW n \in Nat, NEW I \in SUBSET (1 .. n), NEW i \in I, NEW j \in I, i < j
  PROVE  Rank(I, i) < Rank(I, j)
<1> DEFINE A == {k \in I : k <= i}
           B == {k \in I : k <= j}
<1>1. i \in Nat /\ j \in Nat /\ \A k \in I : k \in Nat
  OBVIOUS
<1>2. A \in SUBSET B /\ j \in B /\ j \notin A
  <2>1. \A k \in I : k <= i => k <= j
    BY <1>1
  <2>2. j <= j /\ ~(j <= i)
    BY <1>1
  <2> QED
    BY <2>1, <2>2
<1>3. B \in SUBSET I
  OBVIOUS
<1>4. IsFiniteSet(B) /\ Rank(I, i) \in Nat /\ Rank(I, j) \in Nat
  BY <1>3, PositionsAreFinite, FS_Subset
<1>5. Cardinality(A) <= Cardinality(B) /\ Cardinality(A) # Cardinality(B)
  <2> HIDE DEF A, B
  <2> QED
    BY <1>2, <1>4, FS_Subset
<1> QED
  BY <1>4, <1>5 DEF Rank

\* InOrder lists every member once, the smaller before the larger.
LEMMA InOrderLists ==
  ASSUME NEW n \in Nat, NEW I \in SUBSET (1 .. n)
  PROVE  /\ Cardinality(I) \in Nat
         /\ InOrder(I) \in [1 .. Cardinality(I) -> I]
         /\ \A k, l \in 1 .. Cardinality(I) : k < l => InOrder(I)[k] < InOrder(I)[l]
         /\ \A i \in I : \E k \in 1 .. Cardinality(I) : InOrder(I)[k] = i
<1> DEFINE N == Cardinality(I)
           rank == [i \in I |-> Rank(I, i)]
<1>1. N \in Nat /\ IsFiniteSet(I) /\ \A i \in I : i \in Nat
  <2>1. \A i \in I : i \in Nat
    OBVIOUS
  <2> QED
    BY <2>1, PositionsAreFinite
<1>2. \A i, j \in I : Rank(I, i) = Rank(I, j) => i = j
  <2> SUFFICES ASSUME NEW i \in I, NEW j \in I, Rank(I, i) = Rank(I, j), i # j
               PROVE  FALSE
    OBVIOUS
  <2>1. Rank(I, i) \in Nat /\ Rank(I, j) \in Nat
    BY PositionsAreFinite
  <2>2. i < j \/ j < i
    BY <1>1
  <2>3. CASE i < j
    <3>1. Rank(I, i) < Rank(I, j)
      BY <2>3, RankGrows
    <3> QED
      BY <2>1, <3>1
  <2>4. CASE j < i
    <3>1. Rank(I, j) < Rank(I, i)
      BY <2>4, RankGrows
    <3> QED
      BY <2>1, <3>1
  <2> QED
    BY <2>2, <2>3, <2>4
<1>3. \A i \in I : Rank(I, i) \in 1 .. N
  <2> SUFFICES ASSUME NEW i \in I PROVE Rank(I, i) \in 1 .. N
    OBVIOUS
  <2> DEFINE before == {j \in I : j <= i}
  <2>1. i \in before /\ before \in SUBSET I
    BY <1>1
  <2>2. Cardinality(before) # 0
    <3> HIDE DEF before
    <3> QED
      BY <1>1, <2>1, FS_Subset, FS_EmptySet
  <2>3. Rank(I, i) \in Nat /\ Rank(I, i) <= N
    BY PositionsAreFinite
  <2> QED
    BY <1>1, <2>2, <2>3 DEF Rank
<1>4. \A k \in 1 .. N : \E i \in I : Rank(I, i) = k
  <2>1. rank \in Injection(I, 1 .. N)
    BY <1>2, <1>3 DEF Injection, IsInjective
  <2>2. IsFiniteSet(1 .. N) /\ Cardinality(1 .. N) = N
    BY <1>1, FS_Interval
  <2>3. rank \in Surjection(I, 1 .. N)
    <3> HIDE DEF rank
    <3> QED
      BY <2>1, <2>2, FS_Injection
  <2> QED
    BY <2>3 DEF Surjection
<1>5. \A k \in 1 .. N : InOrder(I)[k] \in I /\ Rank(I, InOrder(I)[k]) = k
  BY <1>4 DEF InOrder
<1>6. InOrder(I) \in [1 .. N -> I]
  BY <1>5 DEF InOrder
<1>7. \A k, l \in 1 .. N : k < l => InOrder(I)[k] < InOrder(I)[l]
  <2> SUFFICES ASSUME NEW k \in 1 .. N, NEW l \in 1 .. N, k < l,
                      ~(InOrder(I)[k] < InOrder(I)[l])
               PROVE  FALSE
    OBVIOUS
  <2> DEFINE i == InOrder(I)[k]
             j == InOrder(I)[l]
  <2>1. i \in I /\ j \in I /\ i \in Nat /\ j \in Nat /\ Rank(I, i) = k /\ Rank(I, j) = l
    BY <1>1, <1>5
  <2>2. j < i
    BY <2>1
  <2>3. l < k
    <3> HIDE DEF i, j
    <3> QED
      BY <2>1, <2>2, RankGrows
  <2> QED
    BY <2>3
<1>8. \A i \in I : \E k \in 1 .. N : InOrder(I)[k] = i
  BY <1>2, <1>3, <1>5
<1> QED
  BY <1>1, <1>6, <1>7, <1>8

LEMMA PickedIsList ==
  ASSUME NEW S, NEW list \in Seq(S), NEW I \in SUBSET (DOMAIN list)
  PROVE  /\ Picked(list, I) \in Seq(S) /\ Cardinality(I) \in Nat
         /\ DOMAIN Picked(list, I) = 1 .. Cardinality(I)
         /\ \A k \in 1 .. Cardinality(I) :
              InOrder(I)[k] \in I /\ Picked(list, I)[k] = list[InOrder(I)[k]]
<1>1. Len(list) \in Nat /\ DOMAIN list = 1 .. Len(list)
  OBVIOUS
<1>2. Cardinality(I) \in Nat /\ InOrder(I) \in [1 .. Cardinality(I) -> I]
  BY <1>1, InOrderLists
<1>3. \A k \in 1 .. Cardinality(I) : InOrder(I)[k] \in I /\ list[InOrder(I)[k]] \in S
  BY <1>2
<1>4. Picked(list, I) \in [1 .. Cardinality(I) -> S]
  BY <1>3 DEF Picked
<1> QED
  BY <1>2, <1>3, <1>4 DEF Picked

\* Every entry picked is in the list, and every one that was to be is picked.
LEMMA PickAll ==
  ASSUME NEW S, NEW list \in Seq(S)
  PROVE  Picked(list, DOMAIN list) = list
<1> DEFINE n == Len(list)
<1>1. n \in Nat /\ DOMAIN list = 1 .. n
  OBVIOUS
<1>2. Cardinality(1 .. n) = n
  BY <1>1, FS_Interval
<1>3. \A i \in 1 .. n : Rank(1 .. n, i) = i
  <2> SUFFICES ASSUME NEW i \in 1 .. n PROVE Rank(1 .. n, i) = i
    OBVIOUS
  <2>1. {j \in 1 .. n : j <= i} = 1 .. i
    BY <1>1
  <2> QED
    <3>1. 1 \in Int /\ i \in Int /\ i >= 1
      BY <1>1
    <3>2. Cardinality(1 .. i) = i
      BY <3>1, FS_Interval
    <3> QED
      BY ONLY <2>1, <3>2 DEF Rank
<1>4. \A k \in 1 .. n : InOrder(1 .. n)[k] = k
  BY <1>2, <1>3 DEF InOrder
<1>5. Picked(list, 1 .. n) = [k \in 1 .. n |-> list[k]]
  BY <1>2, <1>4 DEF Picked
<1> QED
  BY <1>1, <1>5

LEMMA PickNone == ASSUME NEW list PROVE Picked(list, {}) = <<>>
<1>1. Cardinality({}) = 0
  BY FS_EmptySet
<1> QED
  BY <1>1 DEF Picked

\* A set of positions that is not empty has a least one, and Min finds it.
LEMMA LeastPosition ==
  ASSUME NEW S \in SUBSET Nat, S # {}
  PROVE  Min(S) \in S /\ \A i \in S : Min(S) <= i
<1>1. PICK least \in S : \A i \in S : ~(<<i, least>> \in OpToRel(<, Nat))
  BY NatLessThanWellFounded, WFMin
<1>2. ASSUME NEW i \in S PROVE least <= i
  <2>1. ~(<<i, least>> \in OpToRel(<, Nat)) /\ <<i, least>> \in Nat \X Nat
    BY <1>1
  <2>2. <<i, least>>[1] = i /\ <<i, least>>[2] = least
    OBVIOUS
  <2>3. ~(i < least)
    BY <2>1, <2>2 DEF OpToRel
  <2> QED
    BY <2>3
<1> QED
  BY <1>2 DEF Min

\* And a greatest, if they are bounded.
LEMMA GreatestPosition ==
  ASSUME NEW n \in Nat, NEW S \in SUBSET (1 .. n), S # {}
  PROVE  Max(S) \in S /\ \A i \in S : i <= Max(S)
<1> DEFINE U == {m \in Nat : \A i \in S : i <= m}
           m == Min(U)
<1>1. n \in U /\ U \in SUBSET Nat
  OBVIOUS
<1>2. m \in U /\ \A u \in U : m <= u
  <2> HIDE DEF U
  <2> QED
    BY <1>1, LeastPosition
<1>3. m \in S
  <2> SUFFICES ASSUME m \notin S PROVE FALSE
    OBVIOUS
  <2>1. m \in Nat /\ \A i \in S : i \in Nat /\ i >= 1 /\ i < m
    <3> HIDE DEF m
    <3> QED
      BY <1>2
  <2>2. m - 1 \in U
    <3> HIDE DEF m
    <3>1. PICK one \in S : one \in Nat /\ one >= 1 /\ one < m
      BY <2>1
    <3>2. m - 1 \in Nat
      BY <2>1, <3>1
    <3>3. \A i \in S : i <= m - 1
      BY <2>1
    <3> QED
      BY <3>2, <3>3
  <2> HIDE DEF m, U
  <2> QED
    BY <1>2, <2>1, <2>2
<1>4. \E x \in S : \A y \in S : x >= y
  BY <1>2, <1>3
<1> QED
  BY <1>4 DEF Max

-----------------------------------------------------------------------------
(* The .env file.                                                          *)

Lines == Seq(Line \cup {Other})

LEMMA DefinitionsArePositions ==
  ASSUME NEW lines \in Lines, NEW key
  PROVE  /\ Definitions(lines, key) \in SUBSET (DOMAIN lines)
         /\ Definitions(lines, key) \in SUBSET Nat
         /\ \A i \in Definitions(lines, key) : lines[i] \in Line /\ lines[i].key = key
  BY DEF Lines, Definitions

\* What a key is read as is what its first definition says.
LEMMA LoadReadsTheFirst ==
  ASSUME NEW lines \in Lines, NEW key, NEW i \in Definitions(lines, key),
         \A j \in Definitions(lines, key) : i <= j
  PROVE  Load(lines, key) = lines[i].value
<1> DEFINE own == Definitions(lines, key)
<1>1. own \in SUBSET Nat /\ own # {}
  BY DefinitionsArePositions
<1>2. Min(own) \in own /\ Min(own) <= i /\ i <= Min(own)
  <2> HIDE DEF own
  <2>1. Min(own) \in own /\ \A j \in own : Min(own) <= j
    BY <1>1, LeastPosition
  <2> QED
    BY <2>1 DEF own
<1>3. Min(own) = i
  BY <1>1, <1>2
<1> QED
  BY <1>1, <1>3 DEF Load

\* Set where no line defines the key.
LEMMA SetAdds ==
  ASSUME NEW lines \in Lines, NEW key \in Keys, NEW value \in Values,
         Definitions(lines, key) = {}
  PROVE  /\ Set(lines, key, value) \in Lines
         /\ Load(Set(lines, key, value), key) = value
         /\ \A other : other # key =>
              Load(Set(lines, key, value), other) = Load(lines, other)
<1> DEFINE def == [key |-> key, value |-> value]
           out == Append(lines, def)
           n == Len(lines)
<1>1. Set(lines, key, value) = out
  BY DEF Set
<1>2. def \in Line /\ def # Other
  BY NoLine DEF Line
<1>3. /\ n \in Nat /\ DOMAIN lines = 1 .. n /\ DOMAIN out = 1 .. n + 1
      /\ out[n + 1] = def /\ \A i \in 1 .. n : out[i] = lines[i]
      /\ out \in Lines
  BY <1>2 DEF Lines
<1>4. Definitions(out, key) = {n + 1}
  <2>1. \A i \in 1 .. n : ~(lines[i] # Other /\ lines[i].key = key)
    BY <1>3 DEF Definitions
  <2> HIDE DEF out, n
  <2> QED
    BY <1>2, <1>3, <2>1 DEF Definitions
<1>5. Load(out, key) = value
  <2>1. n + 1 \in Definitions(out, key) /\ \A j \in Definitions(out, key) : n + 1 <= j
    BY <1>3, <1>4
  <2>2. out[n + 1].value = value
    BY <1>3
  <2> HIDE DEF out, n
  <2> QED
    BY <1>3, <2>1, <2>2, LoadReadsTheFirst
<1>6. ASSUME NEW other, other # key PROVE Load(out, other) = Load(lines, other)
  <2>1. Definitions(out, other) = Definitions(lines, other)
    <3> HIDE DEF out, n
    <3> QED
      BY <1>3, <1>6 DEF Definitions
  <2>2. Definitions(lines, other) # {} =>
          Min(Definitions(lines, other)) \in 1 .. n
    BY <1>3, DefinitionsArePositions, LeastPosition
  <2> HIDE DEF out, n
  <2> QED
    BY <1>3, <2>1, <2>2 DEF Load
<1> QED
  BY <1>1, <1>3, <1>5, <1>6

\* Set where lines do.
LEMMA SetReplaces ==
  ASSUME NEW lines \in Lines, NEW key \in Keys, NEW value \in Values,
         Definitions(lines, key) # {}
  PROVE  /\ Set(lines, key, value) \in Lines
         /\ Load(Set(lines, key, value), key) = value
         /\ \A other : other # key =>
              Load(Set(lines, key, value), other) = Load(lines, other)
<1> DEFINE def == [key |-> key, value |-> value]
           own == Definitions(lines, key)
           first == Min(own)
           edited == [lines EXCEPT ![first] = def]
           keep == DOMAIN lines \ (own \ {first})
           n == Cardinality(keep)
           p == InOrder(keep)
           out == Picked(edited, keep)
<1>1. Set(lines, key, value) = out
  BY DEF Set
<1>2. def \in Line /\ def # Other /\ def.key = key /\ def.value = value
  BY NoLine DEF Line
<1>3. first \in own /\ first \in DOMAIN lines
  BY DefinitionsArePositions, LeastPosition
<1>4. /\ edited \in Lines /\ DOMAIN edited = DOMAIN lines /\ edited[first] = def
      /\ \A i \in DOMAIN lines : i # first => edited[i] = lines[i]
  BY <1>2, <1>3 DEF Lines
<1>5. keep \in SUBSET (DOMAIN edited) /\ keep \in SUBSET (DOMAIN lines) /\ first \in keep
  BY <1>3, <1>4
<1>6. /\ out \in Lines /\ DOMAIN out = 1 .. n /\ n \in Nat
      /\ \A k \in 1 .. n : p[k] \in keep /\ out[k] = edited[p[k]]
  <2> HIDE DEF edited, keep
  <2> QED
    BY <1>4, <1>5, PickedIsList DEF Lines
<1>7. /\ \A k, l \in 1 .. n : k < l => p[k] < p[l]
      /\ \A i \in keep : \E k \in 1 .. n : p[k] = i
      /\ \A i \in keep : i \in Nat
  <2>1. Len(lines) \in Nat /\ DOMAIN lines = 1 .. Len(lines)
    BY DEF Lines
  <2>2. keep \in SUBSET (1 .. Len(lines))
    BY <1>5, <2>1
  <2>3. \A i \in keep : i \in Nat
    BY <2>1, <2>2
  <2> HIDE DEF keep
  <2>4. /\ \A k, l \in 1 .. Cardinality(keep) : k < l => InOrder(keep)[k] < InOrder(keep)[l]
        /\ \A i \in keep : \E k \in 1 .. Cardinality(keep) : InOrder(keep)[k] = i
    BY ONLY <2>1, <2>2, InOrderLists
  <2> QED
    BY <2>3, <2>4
<1>8. \A i \in keep : i # first => ~(lines[i] # Other /\ lines[i].key = key)
  BY DEF Definitions
<1>9. Load(out, key) = value
  <2>1. PICK k \in 1 .. n : p[k] = first
    BY <1>5, <1>7
  <2>2. out[k] = def
    BY <1>4, <1>6, <2>1
  <2>3. k \in Definitions(out, key)
    BY <1>2, <1>6, <2>2 DEF Definitions
  <2>4. \A l \in Definitions(out, key) : k <= l
    <3> SUFFICES ASSUME NEW l \in 1 .. n, out[l] # Other, out[l].key = key
                 PROVE  k <= l
      <4> HIDE DEF out, n
      <4> QED
        BY <1>6 DEF Definitions
    <3>1. p[l] = first
      <4> HIDE DEF out, n, keep, first, edited, p
      <4> QED
        BY <1>4, <1>5, <1>6, <1>8
    <3>2. ~(l < k)
      <4> HIDE DEF p, n
      <4> QED
        BY <1>5, <1>7, <2>1, <3>1
    <3> QED
      BY <1>6, <3>2
  <2> HIDE DEF out, def
  <2> QED
    BY <1>2, <1>6, <2>2, <2>3, <2>4, LoadReadsTheFirst
<1>10. ASSUME NEW other, other # key PROVE Load(out, other) = Load(lines, other)
  <2> DEFINE mine == Definitions(lines, other)
  <2>1. \A k \in 1 .. n : k \in Definitions(out, other) <=> p[k] \in mine
    <3> SUFFICES ASSUME NEW k \in 1 .. n
                 PROVE  k \in Definitions(out, other) <=> p[k] \in mine
      OBVIOUS
    <3>1. CASE p[k] = first
      <4>1. lines[first].key = key
        BY <1>3, DefinitionsArePositions
      <4>2. out[k] = def
        BY <1>4, <1>6, <3>1
      <4> QED
        BY <1>2, <1>10, <3>1, <4>1, <4>2 DEF Definitions
    <3>2. CASE p[k] # first
      <4>1. out[k] = lines[p[k]] /\ p[k] \in DOMAIN lines
        BY <1>4, <1>5, <1>6, <3>2
      <4> HIDE DEF out, n, p
      <4> QED
        BY <1>6, <4>1 DEF Definitions
    <3> QED
      BY <3>1, <3>2
  <2>2. Definitions(out, other) \in SUBSET (1 .. n)
    BY <1>6 DEF Definitions
  <2>3. CASE mine = {}
    <3>1. Definitions(out, other) = {}
      BY <2>1, <2>2, <2>3
    <3> QED
      BY <2>3, <3>1 DEF Load
  <2>4. CASE mine # {}
    <3> DEFINE i == Min(mine)
    <3>1. i \in mine /\ \A j \in mine : i <= j
      <4> HIDE DEF mine
      <4>1. mine \in SUBSET Nat
        BY DefinitionsArePositions DEF mine
      <4> QED
        BY <2>4, <4>1, LeastPosition
    <3>2. i \in keep /\ i # first
      BY <1>3, <1>10, <3>1 DEF Definitions
    <3>3. PICK k \in 1 .. n : p[k] = i
      BY <1>7, <3>2
    <3>4. k \in Definitions(out, other)
      BY <2>1, <3>1, <3>3
    <3>5. \A l \in Definitions(out, other) : k <= l
      <4> SUFFICES ASSUME NEW l \in 1 .. n, p[l] \in mine PROVE k <= l
        BY <2>1, <2>2
      <4>1. p[k] <= p[l] /\ p[k] \in Nat /\ p[l] \in Nat
        BY <1>6, <1>7, <3>1, <3>3
      <4>2. ~(l < k)
        <5> HIDE DEF p, n
        <5> QED
          BY <1>7, <4>1
      <4> QED
        BY <1>6, <4>2
    <3>6. Load(out, other) = out[k].value
      <4> HIDE DEF out
      <4> QED
        BY <1>6, <3>4, <3>5, LoadReadsTheFirst
    <3>7. out[k] = lines[i]
      BY <1>4, <1>5, <1>6, <3>2, <3>3
    <3>8. Load(lines, other) = lines[i].value
      BY <3>1, LoadReadsTheFirst
    <3> QED
      BY <3>6, <3>7, <3>8
  <2> QED
    BY <2>3, <2>4
<1> QED
  BY <1>1, <1>6, <1>9, <1>10

EnvInv == env \in Lines /\ SavedIsRead

LEMMA EnvInit == ProcessInit => EnvInv
  BY EnvAssumption DEF ProcessInit, EnvInv, SavedIsRead, Lines

LEMMA EnvStep == EnvInv /\ [ProcessNext]_vars => EnvInv'
<1> SUFFICES ASSUME EnvInv, [ProcessNext]_vars PROVE EnvInv'
  OBVIOUS
<1>1. ASSUME UNCHANGED <<env, names, told, rest>> PROVE EnvInv'
  BY <1>1 DEF EnvInv, SavedIsRead, DSN
<1>2. ASSUME NEW t \in Tabs, NEW value \in Typed, FormAnswered(t, value) PROVE EnvInv'
  <2>1. CASE UNCHANGED <<env, told>>
    BY <1>1, <1>2, <2>1 DEF FormAnswered
  <2>2. CASE SaveReaches /\ env' = Set(env, Conn, value) /\ told' = value
    <3>1. names' = names /\ rest' = rest
      BY <1>2 DEF FormAnswered
    <3>2. /\ env' \in Lines /\ Load(env', Conn) = value
          /\ \A k : k # Conn => Load(env', k) = Load(env, k)
      <4>1. env \in Lines /\ Conn \in Keys /\ value \in Values
        BY EnvAssumption DEF EnvInv
      <4>2. CASE Definitions(env, Conn) = {}
        BY <2>2, <4>1, <4>2, SetAdds
      <4>3. CASE Definitions(env, Conn) # {}
        BY <2>2, <4>1, <4>3, SetReplaces
      <4> QED
        BY <4>2, <4>3
    <3>3. DSN' = told' \/ names' \in Mentioning \ {Conn}
      BY <2>2, <3>1, <3>2 DEF DSN, SaveReaches
    <3>4. \A k \in Keys \ {Conn} : Load(env', k) = rest'[k]
      BY <3>1, <3>2 DEF EnvInv, SavedIsRead
    <3> QED
      BY <2>2, <3>2, <3>3, <3>4 DEF EnvInv, SavedIsRead
  <2> QED
    BY <1>2, <2>1, <2>2 DEF FormAnswered
<1>3. CASE Start
  BY <1>1, <1>3 DEF Start, askVars
<1>4. CASE WriteItOut
  BY <1>1, <1>4 DEF WriteItOut, askVars, mainVars
<1>5. CASE MainLogin \/ MainOpened
  BY <1>1, <1>5 DEF MainLogin, MainOpened, mainVars
<1>6. CASE Handover \/ Resume \/ Interrupt
  BY <1>1, <1>6 DEF Handover, Resume, Interrupt, askVars
<1>7. CASE Gone
  BY <1>1, <1>7 DEF Gone
<1>8. ASSUME NEW t \in Tabs, Arrive(t) \/ Accept(t) \/ Close(t) \/ Submit(t) PROVE EnvInv'
  BY <1>1, <1>8 DEF Arrive, Accept, Close, Submit, mainVars
<1>9. ASSUME NEW t \in Tabs, Form(t) PROVE EnvInv'
  BY <1>1, <1>2, <1>9
  DEF Form, Conflict, Attempt, FormLogin, FormFails, FormOpened, mainVars
<1>10. ASSUME NEW t \in Tabs, SaveLayout(t) PROVE EnvInv'
  BY <1>1, <1>10 DEF SaveLayout, askVars, mainVars
<1>11. CASE UNCHANGED vars
  BY <1>1, <1>11 DEF vars, askVars, mainVars
<1> QED
  BY <1>3, <1>4, <1>5, <1>6, <1>7, <1>8, <1>9, <1>10, <1>11
  DEF ProcessNext, MainFails, Leave

\* A connection string the page was told is saved is what SQLTOP_CONN reads as
\* from then on, whatever the file held, and what every later start opens, unless
\* the instance names another variable that only has SQLTOP_CONN in its name; no
\* other key is read otherwise than it was (dotenv.Set, dotenv.Load).
THEOREM WhatIsSavedIsRead == ProcessSpec => []SavedIsRead
<1>1. EnvInv => SavedIsRead
  BY DEF EnvInv
<1> QED
  BY <1>1, EnvInit, EnvStep, PTL DEF ProcessSpec

-----------------------------------------------------------------------------
(* What a layout resolves to.                                              *)

Named(list, key) == {list[i][key] : i \in DOMAIN list}

\* Two lists without repetition that have nothing in common, one after the other.
LEMMA Joined ==
  ASSUME NEW S, NEW a \in Seq(S), NEW b \in Seq(S), NEW key,
         Distinct(a, key), Distinct(b, key),
         \A i \in DOMAIN a, j \in DOMAIN b : a[i][key] # b[j][key]
  PROVE  /\ a \o b \in Seq(S) /\ Distinct(a \o b, key)
         /\ Named(a \o b, key) = Named(a, key) \cup Named(b, key)
<1> DEFINE m == Len(a)
           n == Len(b)
           ab == a \o b
<1>1. /\ m \in Nat /\ n \in Nat /\ DOMAIN a = 1 .. m /\ DOMAIN b = 1 .. n
      /\ ab \in Seq(S) /\ DOMAIN ab = 1 .. m + n
      /\ \A i \in 1 .. m + n : ab[i] = IF i <= m THEN a[i] ELSE b[i - m]
  OBVIOUS
<1> HIDE DEF m, n, ab
<1>2. \A i \in 1 .. m : i \in 1 .. m + n /\ ab[i] = a[i]
  BY <1>1
<1>3. \A j \in 1 .. n : j + m \in 1 .. m + n /\ ab[j + m] = b[j]
  <2> SUFFICES ASSUME NEW j \in 1 .. n PROVE j + m \in 1 .. m + n /\ ab[j + m] = b[j]
    OBVIOUS
  <2>1. j + m \in 1 .. m + n /\ ~(j + m <= m) /\ (j + m) - m = j
    BY <1>1
  <2> QED
    BY <1>1, <2>1
<1>4. \A i \in 1 .. m + n :
        \/ i \in 1 .. m /\ ab[i] = a[i]
        \/ i - m \in 1 .. n /\ ab[i] = b[i - m] /\ i = (i - m) + m
  <2> SUFFICES ASSUME NEW i \in 1 .. m + n
               PROVE  \/ i \in 1 .. m /\ ab[i] = a[i]
                      \/ i - m \in 1 .. n /\ ab[i] = b[i - m] /\ i = (i - m) + m
    OBVIOUS
  <2>1. CASE i <= m
    BY <1>1, <2>1
  <2>2. CASE ~(i <= m)
    <3>1. i - m \in 1 .. n /\ i = (i - m) + m
      BY <1>1, <2>2
    <3> QED
      BY <1>1, <2>2, <3>1
  <2> QED
    BY <2>1, <2>2
<1>5. Distinct(ab, key)
  <2> SUFFICES ASSUME NEW i \in 1 .. m + n, NEW j \in 1 .. m + n, ab[i][key] = ab[j][key]
               PROVE  i = j
    BY <1>1 DEF Distinct
  <2>1. CASE i \in 1 .. m /\ ab[i] = a[i] /\ j \in 1 .. m /\ ab[j] = a[j]
    BY <1>1, <2>1 DEF Distinct
  <2>2. CASE /\ i - m \in 1 .. n /\ ab[i] = b[i - m] /\ i = (i - m) + m
             /\ j - m \in 1 .. n /\ ab[j] = b[j - m] /\ j = (j - m) + m
    <3>1. i - m = j - m
      BY <1>1, <2>2 DEF Distinct
    <3> QED
      BY <2>2, <3>1
  <2>3. CASE i \in 1 .. m /\ ab[i] = a[i] /\ j - m \in 1 .. n /\ ab[j] = b[j - m]
    BY <1>1, <2>3
  <2>4. CASE i - m \in 1 .. n /\ ab[i] = b[i - m] /\ j \in 1 .. m /\ ab[j] = a[j]
    BY <1>1, <2>4
  <2> QED
    BY <1>4, <2>1, <2>2, <2>3, <2>4
<1>6. Named(ab, key) = Named(a, key) \cup Named(b, key)
  <2>1. \A i \in 1 .. m + n : ab[i][key] \in Named(a, key) \cup Named(b, key)
    BY <1>1, <1>4 DEF Named
  <2>2. \A i \in 1 .. m : a[i][key] \in Named(ab, key)
    BY <1>1, <1>2 DEF Named
  <2>3. \A j \in 1 .. n : b[j][key] \in Named(ab, key)
    BY <1>1, <1>3 DEF Named
  <2> QED
    BY <1>1, <2>1, <2>2, <2>3 DEF Named
<1> QED
  BY <1>1, <1>5, <1>6 DEF ab

\* A pick of first namings repeats none, and has what was picked.
LEMMA FirstsPicked ==
  ASSUME NEW S, NEW list \in Seq(S), NEW key, NEW I \in SUBSET Firsts(list, key)
  PROVE  /\ Picked(list, I) \in Seq(S) /\ Distinct(Picked(list, I), key)
         /\ Named(Picked(list, I), key) = {list[i][key] : i \in I}
<1> DEFINE n == Cardinality(I)
           p == InOrder(I)
           out == Picked(list, I)
<1>1. Len(list) \in Nat /\ DOMAIN list = 1 .. Len(list)
  OBVIOUS
<1>2. I \in SUBSET (DOMAIN list) /\ I \in SUBSET (1 .. Len(list))
  BY <1>1 DEF Firsts
<1>3. /\ out \in Seq(S) /\ n \in Nat /\ DOMAIN out = 1 .. n
      /\ \A k \in 1 .. n : p[k] \in I /\ out[k] = list[p[k]]
  BY <1>2, PickedIsList
<1>4. /\ \A k, l \in 1 .. n : k < l => p[k] < p[l]
      /\ \A i \in I : \E k \in 1 .. n : p[k] = i
  BY ONLY <1>1, <1>2, InOrderLists
<1> HIDE DEF n, p, out
<1>5. \A k, l \in 1 .. n : k < l => out[k][key] # out[l][key]
  <2> SUFFICES ASSUME NEW k \in 1 .. n, NEW l \in 1 .. n, k < l
               PROVE  out[k][key] # out[l][key]
    OBVIOUS
  <2>1. p[k] < p[l] /\ p[k] \in 1 .. Len(list) /\ p[l] \in 1 .. Len(list)
    BY <1>2, <1>3, <1>4
  <2>2. p[k] \in 1 .. p[l] - 1
    BY ONLY <1>1, <2>1
  <2>3. list[p[k]][key] # list[p[l]][key]
    BY <1>3, <2>2 DEF Firsts
  <2> QED
    BY <1>3, <2>3
<1>6. Distinct(out, key)
  <2> SUFFICES ASSUME NEW k \in 1 .. n, NEW l \in 1 .. n, out[k][key] = out[l][key]
               PROVE  k = l
    BY <1>3 DEF Distinct
  <2>1. ~(k < l) /\ ~(l < k)
    BY <1>5
  <2> QED
    BY <1>3, <2>1
<1>7. Named(out, key) = {list[i][key] : i \in I}
  BY <1>3, <1>4 DEF Named
<1> QED
  BY <1>3, <1>6, <1>7 DEF out

\* In a list without repetition every entry is a first.
LEMMA FirstsAll ==
  ASSUME NEW S, NEW list \in Seq(S), NEW key, Distinct(list, key)
  PROVE  Firsts(list, key) = DOMAIN list
<1>1. Len(list) \in Nat /\ DOMAIN list = 1 .. Len(list)
  OBVIOUS
<1>2. ASSUME NEW i \in DOMAIN list, NEW j \in 1 .. i - 1 PROVE list[j][key] # list[i][key]
  <2>1. j \in DOMAIN list /\ j # i
    BY <1>1
  <2> QED
    BY <2>1 DEF Distinct
<1> QED
  BY <1>2 DEF Firsts

Shown == [field : STRING, show : {"on", "off"}]

\* What leaves nothing unsaid is resolved to itself.
LEMMA WholeStays ==
  ASSUME NEW columns, Whole(columns)
  PROVE  Columns(columns) = columns
<1> DEFINE K == {i \in Firsts(columns, "field") : columns[i].field \in Fields(Catalogue)}
           known == Picked(columns, K)
           M == {i \in DOMAIN Catalogue : Catalogue[i].field \notin Fields(known)}
<1>1. columns \in Seq(Shown) /\ Catalogue \in Seq(Shown)
  BY LayoutAssumption DEF Whole, Shown
<1>2. K = DOMAIN columns
  <2>1. Firsts(columns, "field") = DOMAIN columns
    BY <1>1, FirstsAll DEF Whole
  <2> QED
    BY <2>1 DEF Whole, Fields
<1>3. known = columns
  BY <1>1, <1>2, PickAll
<1>4. M = {}
  BY <1>3 DEF Whole, Fields
<1>5. [i \in DOMAIN known |-> Switched(known[i])] = columns
  <2>1. \A i \in DOMAIN columns : Switched(columns[i]) = columns[i]
    <3>1. \A i \in DOMAIN columns : columns[i] \in Shown
      BY <1>1
    <3>2. \A i \in DOMAIN columns : columns[i].show # "unsaid"
      BY <3>1 DEF Shown
    <3> QED
      BY <3>2 DEF Switched
  <2>2. [i \in DOMAIN columns |-> columns[i]] = columns
    BY <1>1
  <2> HIDE DEF known
  <2> QED
    BY <1>3, <2>1, <2>2
<1>6. Columns(columns) = columns \o Picked(Catalogue, M)
  BY <1>5 DEF Columns
<1> HIDE DEF M
<1> QED
  BY <1>1, <1>4, <1>6, PickNone

\* A switch the file leaves unsaid is the catalogue's.
LEMMA SwitchedIsShown ==
  ASSUME NEW c \in SaidColumn, c.field \in Fields(Catalogue)
  PROVE  Switched(c) \in Shown /\ Switched(c).field = c.field
<1>1. \A d \in ToSet(Catalogue) : d.show \in {"on", "off"}
  <2>1. Catalogue \in Seq(Shown)
    BY LayoutAssumption DEF Whole, Shown
  <2>2. \A i \in DOMAIN Catalogue : Catalogue[i] \in Shown
    BY <2>1
  <2>3. \A i \in DOMAIN Catalogue : Catalogue[i].show \in {"on", "off"}
    BY <2>2 DEF Shown
  <2> QED
    BY <2>3 DEF ToSet
<1>2. \E d \in ToSet(Catalogue) : d.field = c.field
  BY DEF Fields, ToSet
<1>3. (CHOOSE d \in ToSet(Catalogue) : d.field = c.field).show \in {"on", "off"}
  BY <1>1, <1>2
<1> QED
  BY <1>3 DEF Switched, SaidColumn, Shown

\* Whatever the file says, what it is resolved to leaves nothing unsaid.
LEMMA ColumnsAreWhole ==
  ASSUME NEW said \in Seq(SaidColumn)
  PROVE  Whole(Columns(said))
<1> DEFINE K == {i \in Firsts(said, "field") : said[i].field \in Fields(Catalogue)}
           known == Picked(said, K)
           shown == [i \in DOMAIN known |-> Switched(known[i])]
           M == {i \in DOMAIN Catalogue : Catalogue[i].field \notin Fields(known)}
           missing == Picked(Catalogue, M)
<1>1. Catalogue \in Seq(Shown) /\ Distinct(Catalogue, "field")
  BY LayoutAssumption DEF Whole, Shown
<1>2. /\ known \in Seq(SaidColumn) /\ Distinct(known, "field")
      /\ Named(known, "field") = {said[i]["field"] : i \in K}
  <2>1. K \in SUBSET Firsts(said, "field")
    OBVIOUS
  <2> HIDE DEF K
  <2> QED
    BY <2>1, FirstsPicked
<1>3. \A i \in DOMAIN known : known[i] \in SaidColumn /\ known[i].field \in Fields(Catalogue)
  <2>1. \A i \in DOMAIN known : known[i].field \in Named(known, "field")
    BY DEF Named
  <2>2. \A i \in DOMAIN known : known[i] \in SaidColumn
    <3> HIDE DEF known
    <3> QED
      BY <1>2
  <2> QED
    BY <1>2, <2>1, <2>2
<1>4. \A i \in DOMAIN known : Switched(known[i]) \in Shown /\ Switched(known[i]).field = known[i].field
  BY <1>3, SwitchedIsShown
<1>5. /\ shown \in Seq(Shown) /\ DOMAIN shown = DOMAIN known
      /\ \A i \in DOMAIN known : shown[i].field = known[i].field
  <2>1. Len(known) \in Nat /\ DOMAIN known = 1 .. Len(known)
    BY <1>2
  <2> HIDE DEF known
  <2> QED
    BY <1>4, <2>1
<1>6. Distinct(shown, "field") /\ Named(shown, "field") = Fields(known)
  <2> HIDE DEF shown, known
  <2>1. Distinct(shown, "field")
    BY <1>2, <1>5 DEF Distinct
  <2>2. Named(shown, "field") = Fields(known)
    BY <1>5 DEF Named, Fields
  <2> QED
    BY <2>1, <2>2
<1>7. /\ missing \in Seq(Shown) /\ Distinct(missing, "field")
      /\ Named(missing, "field") = {Catalogue[i]["field"] : i \in M}
  <2>1. M \in SUBSET Firsts(Catalogue, "field")
    BY <1>1, FirstsAll
  <2> HIDE DEF M
  <2> QED
    BY <1>1, <2>1, FirstsPicked
<1>8. \A i \in DOMAIN shown, j \in DOMAIN missing : shown[i]["field"] # missing[j]["field"]
  <2>1. \A i \in DOMAIN shown : shown[i]["field"] \in Fields(known)
    BY <1>6 DEF Named
  <2>2. \A j \in DOMAIN missing : missing[j]["field"] \notin Fields(known)
    BY <1>7 DEF Named
  <2> QED
    BY <2>1, <2>2
<1>9. Named(missing, "field") \cup Fields(known) = Fields(Catalogue)
  <2>1. Fields(known) \subseteq Fields(Catalogue)
    BY <1>3 DEF Fields
  <2> QED
    BY <1>7, <2>1 DEF Fields
<1>10. Columns(said) = shown \o missing
  BY DEF Columns
<1> HIDE DEF shown, missing, known, M
<1>11. /\ Columns(said) \in Seq(Shown) /\ Distinct(Columns(said), "field")
       /\ Named(Columns(said), "field") = Fields(Catalogue)
  <2>1. /\ shown \in Seq(Shown) /\ missing \in Seq(Shown)
        /\ Distinct(shown, "field") /\ Distinct(missing, "field")
    BY <1>5, <1>6, <1>7
  <2>2. /\ shown \o missing \in Seq(Shown) /\ Distinct(shown \o missing, "field")
        /\ Named(shown \o missing, "field") = Named(shown, "field") \cup Named(missing, "field")
    BY ONLY <2>1, <1>8, Joined
  <2> QED
    BY <1>6, <1>9, <1>10, <2>2
<1> QED
  BY <1>11 DEF Whole, Shown, Named, Fields

WholeDashboard(groups) ==
  /\ groups \in Seq(SaidGroup) /\ Distinct(groups, "group")
  /\ Named(groups, "group") = ToSet(Groups)

LEMMA DashboardStays ==
  ASSUME NEW groups, WholeDashboard(groups)
  PROVE  Dashboard(groups) = groups
<1> DEFINE K == {i \in Firsts(groups, "group") : groups[i].group \in ToSet(Groups)}
           known == Picked(groups, K)
           M == {i \in DOMAIN Groups : \A j \in DOMAIN known : known[j].group # Groups[i]}
           missing == Picked(Groups, M)
<1>1. /\ groups \in Seq(SaidGroup) /\ Len(groups) \in Nat
      /\ DOMAIN groups = 1 .. Len(groups)
  BY DEF WholeDashboard
<1>2. K = DOMAIN groups
  <2>1. Firsts(groups, "group") = DOMAIN groups
    BY <1>1, FirstsAll DEF WholeDashboard
  <2> QED
    BY <2>1 DEF WholeDashboard, Named
<1>3. known = groups
  BY <1>1, <1>2, PickAll
<1>4. M = {}
  BY <1>3 DEF WholeDashboard, Named, ToSet
<1>5. \A i \in DOMAIN groups : Entry(groups, groups[i].group) = groups[i]
  <2> SUFFICES ASSUME NEW i \in DOMAIN groups
               PROVE  Entry(groups, groups[i].group) = groups[i]
    OBVIOUS
  <2> DEFINE named == {j \in DOMAIN groups : groups[j].group = groups[i].group}
  <2>1. named = {i}
    BY DEF WholeDashboard, Distinct
  <2>2. Max(named) \in named
    <3>1. named \in SUBSET (1 .. Len(groups)) /\ named # {}
      BY <1>1, <2>1
    <3> HIDE DEF named
    <3> QED
      BY <1>1, <3>1, GreatestPosition
  <2>3. Max(named) = i /\ named # {}
    BY <2>1, <2>2
  <2> QED
    BY <2>3 DEF Entry
<1>6. [i \in DOMAIN known |-> Entry(groups, known[i].group)] = groups
  <2>1. [i \in DOMAIN groups |-> groups[i]] = groups
    BY <1>1
  <2> HIDE DEF known
  <2> QED
    BY <1>3, <1>5, <2>1
<1>7. missing = <<>>
  <2> HIDE DEF M
  <2> QED
    BY <1>4, PickNone
<1>8. Dashboard(groups) = groups \o [i \in DOMAIN missing |-> Entry(groups, missing[i])]
  BY <1>6 DEF Dashboard
<1>9. [i \in DOMAIN missing |-> Entry(groups, missing[i])] = <<>>
  <2> HIDE DEF missing
  <2> QED
    BY <1>7
<1>10. groups \o <<>> = groups
  BY <1>1
<1> HIDE DEF missing
<1> QED
  BY <1>8, <1>9, <1>10

LEMMA EntryIsOfTheGroup ==
  ASSUME NEW said \in Seq(SaidGroup), NEW g \in STRING
  PROVE  Entry(said, g) \in SaidGroup /\ Entry(said, g).group = g
<1> DEFINE named == {i \in DOMAIN said : said[i].group = g}
<1>1. CASE named = {}
  BY <1>1 DEF Entry, SaidGroup
<1>2. CASE named # {}
  <2>1. Len(said) \in Nat /\ named \in SUBSET (1 .. Len(said))
    OBVIOUS
  <2>2. Max(named) \in named
    <3> HIDE DEF named
    <3> QED
      BY <1>2, <2>1, GreatestPosition
  <2>3. Max(named) \in DOMAIN said /\ said[Max(named)].group = g
    BY <2>2
  <2>4. Entry(said, g) = said[Max(named)]
    BY <1>2 DEF Entry
  <2> HIDE DEF named
  <2> QED
    BY <2>3, <2>4
<1> QED
  BY <1>1, <1>2

LEMMA DashboardIsWhole ==
  ASSUME NEW said \in Seq(SaidGroup)
  PROVE  WholeDashboard(Dashboard(said))
<1> DEFINE K == {i \in Firsts(said, "group") : said[i].group \in ToSet(Groups)}
           known == Picked(said, K)
           M == {i \in DOMAIN Groups : \A j \in DOMAIN known : known[j].group # Groups[i]}
           missing == Picked(Groups, M)
           a == [i \in DOMAIN known |-> Entry(said, known[i].group)]
           b == [i \in DOMAIN missing |-> Entry(said, missing[i])]
<1>1. /\ Groups \in Seq(STRING) /\ Len(Groups) \in Nat /\ DOMAIN Groups = 1 .. Len(Groups)
      /\ \A i, j \in DOMAIN Groups : Groups[i] = Groups[j] => i = j
  BY LayoutAssumption
<1>2. /\ known \in Seq(SaidGroup) /\ Distinct(known, "group")
      /\ Named(known, "group") = {said[i]["group"] : i \in K}
  <2>1. K \in SUBSET Firsts(said, "group")
    OBVIOUS
  <2> HIDE DEF K
  <2> QED
    BY <2>1, FirstsPicked
<1>3. Named(known, "group") \subseteq ToSet(Groups)
  BY <1>2
<1>4. \A g \in ToSet(Groups) : g \in STRING
  BY <1>1 DEF ToSet
<1>5. \A i \in DOMAIN known :
        Entry(said, known[i].group) \in SaidGroup /\ Entry(said, known[i].group).group = known[i].group
  <2> HIDE DEF known
  <2>1. \A i \in DOMAIN known : known[i].group \in STRING
    BY <1>3, <1>4 DEF Named
  <2> QED
    BY <2>1, EntryIsOfTheGroup
<1>6. /\ a \in Seq(SaidGroup) /\ Distinct(a, "group")
      /\ Named(a, "group") = Named(known, "group")
  <2>1. Len(known) \in Nat /\ DOMAIN known = 1 .. Len(known)
    BY <1>2
  <2> HIDE DEF known
  <2>2. a \in Seq(SaidGroup)
    BY <1>5, <2>1
  <2>3. DOMAIN a = DOMAIN known /\ \A i \in DOMAIN known : a[i].group = known[i].group
    BY <1>5
  <2> HIDE DEF a
  <2>4. Distinct(a, "group")
    BY <1>2, <2>3 DEF Distinct
  <2> QED
    BY <2>2, <2>3, <2>4 DEF Named
<1>7. /\ missing \in Seq(STRING) /\ Cardinality(M) \in Nat
      /\ DOMAIN missing = 1 .. Cardinality(M)
      /\ \A k \in 1 .. Cardinality(M) : InOrder(M)[k] \in M /\ missing[k] = Groups[InOrder(M)[k]]
  <2>1. M \in SUBSET (DOMAIN Groups)
    OBVIOUS
  <2> HIDE DEF M
  <2> QED
    BY <1>1, <2>1, PickedIsList
<1>8. /\ \A k, l \in 1 .. Cardinality(M) : k < l => InOrder(M)[k] < InOrder(M)[l]
      /\ \A i \in M : \E k \in 1 .. Cardinality(M) : InOrder(M)[k] = i
  <2>1. M \in SUBSET (1 .. Len(Groups))
    BY <1>1
  <2> HIDE DEF M
  <2> QED
    BY ONLY <1>1, <2>1, InOrderLists
<1>9. M \in SUBSET Nat /\ M \in SUBSET (DOMAIN Groups)
  <2>1. M \in SUBSET (DOMAIN Groups)
    OBVIOUS
  <2> QED
    BY <1>1, <2>1
<1>10. \A k, l \in DOMAIN missing : missing[k] = missing[l] => k = l
  <2> HIDE DEF M, missing
  <2> SUFFICES ASSUME NEW k \in 1 .. Cardinality(M), NEW l \in 1 .. Cardinality(M),
                      missing[k] = missing[l]
               PROVE  k = l
    BY <1>7
  <2>1. InOrder(M)[k] \in M /\ InOrder(M)[l] \in M
    BY <1>7
  <2>2. Groups[InOrder(M)[k]] = Groups[InOrder(M)[l]]
    BY <1>7
  <2>3. InOrder(M)[k] \in DOMAIN Groups /\ InOrder(M)[l] \in DOMAIN Groups
    BY <1>9, <2>1
  <2>4. InOrder(M)[k] = InOrder(M)[l] /\ InOrder(M)[k] \in Nat
    BY <1>1, <1>9, <2>1, <2>2, <2>3
  <2>5. ~(k < l) /\ ~(l < k)
    BY <1>8, <2>4
  <2> QED
    BY <1>7, <2>5
<1>11. /\ b \in Seq(SaidGroup) /\ DOMAIN b = DOMAIN missing
       /\ \A k \in DOMAIN missing : b[k].group = missing[k]
  <2> HIDE DEF missing, M
  <2>1. \A k \in DOMAIN missing : missing[k] \in STRING
    BY <1>7
  <2>2. \A k \in DOMAIN missing :
          Entry(said, missing[k]) \in SaidGroup /\ Entry(said, missing[k]).group = missing[k]
    BY <2>1, EntryIsOfTheGroup
  <2> QED
    BY <1>7, <2>2
<1>12. Distinct(b, "group")
  <2> HIDE DEF b, missing
  <2> QED
    BY <1>10, <1>11 DEF Distinct
<1>13. Named(b, "group") = {Groups[i] : i \in M}
  <2> HIDE DEF b, missing, M
  <2>1. \A k \in DOMAIN b : b[k]["group"] = Groups[InOrder(M)[k]] /\ InOrder(M)[k] \in M
    BY <1>7, <1>11
  <2>2. \A i \in M : \E k \in DOMAIN b : InOrder(M)[k] = i
    BY <1>7, <1>8, <1>11
  <2> QED
    BY <2>1, <2>2 DEF Named
<1>14. Named(known, "group") \cup {Groups[i] : i \in M} = ToSet(Groups)
  <2>1. \A i \in DOMAIN Groups : i \in M \/ Groups[i] \in Named(known, "group")
    BY DEF Named
  <2> HIDE DEF M, known
  <2> QED
    BY <1>3, <1>9, <2>1 DEF ToSet
<1>15. \A i \in DOMAIN a, j \in DOMAIN b : a[i]["group"] # b[j]["group"]
  <2>1. \A i \in DOMAIN known, j \in M : known[i].group # Groups[j]
    OBVIOUS
  <2> HIDE DEF a, b, M, known
  <2>2. \A i \in DOMAIN a : a[i]["group"] \in Named(known, "group")
    BY <1>6 DEF Named
  <2>3. \A j \in DOMAIN b : b[j]["group"] \in {Groups[i] : i \in M}
    BY <1>13 DEF Named
  <2> QED
    BY <2>1, <2>2, <2>3 DEF Named
<1>16. Dashboard(said) = a \o b
  BY DEF Dashboard
<1> HIDE DEF a, b, known, missing, M
<1>17. /\ a \o b \in Seq(SaidGroup) /\ Distinct(a \o b, "group")
       /\ Named(a \o b, "group") = Named(a, "group") \cup Named(b, "group")
  BY <1>6, <1>11, <1>12, <1>15, Joined
<1> QED
  BY <1>6, <1>13, <1>14, <1>16, <1>17 DEF WholeDashboard

-----------------------------------------------------------------------------
(* The saves.                                                              *)

Postings == [view : Views, columns : Posts]

\* One save at a time edits what is served, and what is served is what the
\* file says except between the rename and its being served.
FileInv ==
  /\ file \in Config /\ cfg \in Config \cup {None}
  /\ Grid(file) = last /\ Tiles(file.dash) = tiles
  /\ phase = "off" <=> cfg = None
  /\ saver \in Tabs \cup {None}
  /\ stage \in [Tabs -> {"idle", "posted", "saving", "saved"}]
  /\ DOMAIN post = Tabs /\ DOMAIN draft = Tabs
  /\ \A t \in Tabs :
       /\ stage[t] \in {"saving", "saved"} <=> saver = t
       /\ stage[t] # "idle" => cfg # None /\ post[t] \in Postings
       /\ stage[t] = "saving" => cfg = file /\ draft[t] = Edited(cfg, t)
       /\ stage[t] = "saved" => draft[t] = file
  /\ cfg # None /\ (\A t \in Tabs : stage[t] # "saved") => cfg = file

LEMMA WholeIsSaid ==
  ASSUME NEW columns, Whole(columns) PROVE columns \in Seq(SaidColumn)
<1>1. columns \in Seq(Shown)
  BY DEF Whole, Shown
<1>2. Len(columns) \in Nat /\ DOMAIN columns = 1 .. Len(columns)
  BY <1>1
<1>3. \A i \in DOMAIN columns : columns[i] \in SaidColumn
  <2>1. \A i \in DOMAIN columns : columns[i] \in Shown
    BY <1>1
  <2> QED
    BY <2>1 DEF Shown, SaidColumn
<1>4. columns = [i \in 1 .. Len(columns) |-> columns[i]]
  BY <1>1
<1>5. columns \in [1 .. Len(columns) -> SaidColumn]
  BY <1>2, <1>3, <1>4
<1> QED
  BY <1>2, <1>5

LEMMA ResolvedIsResolved ==
  ASSUME NEW config \in Config
  PROVE  LET written == [views |-> Grid(config), dash |-> Dashboard(config.dash)]
         IN  /\ written \in Config
             /\ Grid(written) = Grid(config) /\ Tiles(written.dash) = Tiles(config.dash)
<1> DEFINE written == [views |-> Grid(config), dash |-> Dashboard(config.dash)]
<1>1. config.views \in [Views -> Seq(SaidColumn)] /\ config.dash \in Seq(SaidGroup)
  BY DEF Config
<1>2. \A v \in Views : Whole(Columns(config.views[v]))
  BY <1>1, ColumnsAreWhole
<1>3. \A v \in Views : Columns(config.views[v]) \in Seq(SaidColumn)
  BY <1>2, WholeIsSaid
<1>4. WholeDashboard(Dashboard(config.dash))
  BY <1>1, DashboardIsWhole
<1>5. Dashboard(config.dash) \in Seq(SaidGroup)
  BY <1>4 DEF WholeDashboard
<1>6. written \in Config
  BY <1>3, <1>5 DEF Config, Grid
<1>7. \A v \in Views : Columns(Columns(config.views[v])) = Columns(config.views[v])
  BY <1>2, WholeStays
<1>8. Grid(written) = Grid(config)
  BY <1>7 DEF Grid
<1>9. Dashboard(Dashboard(config.dash)) = Dashboard(config.dash)
  BY <1>4, DashboardStays
<1>10. Tiles(written.dash) = Tiles(config.dash)
  BY <1>9 DEF Tiles
<1> QED
  BY <1>6, <1>8, <1>10

\* A save changes what is shown of its own view, to what was posted.
LEMMA EditedShowsThePost ==
  ASSUME NEW config \in Config, NEW t, post[t] \in Postings
  PROVE  /\ Edited(config, t) \in Config
         /\ Grid(Edited(config, t)) = [Grid(config) EXCEPT ![post[t].view] = post[t].columns]
         /\ Edited(config, t).dash = config.dash
<1> DEFINE v == post[t].view
           columns == post[t].columns
<1>1. v \in Views /\ columns \in Posts
  BY DEF Postings
<1>2. Whole(columns)
  BY <1>1, LayoutAssumption
<1>3. columns \in Seq(SaidColumn)
  BY <1>2, WholeIsSaid
<1>4. config.views \in [Views -> Seq(SaidColumn)] /\ config.dash \in Seq(SaidGroup)
  BY DEF Config
<1>5. /\ Edited(config, t).views = [config.views EXCEPT ![v] = columns]
      /\ Edited(config, t).dash = config.dash
      /\ Edited(config, t) \in Config
  <2> HIDE DEF v, columns
  <2>1. Edited(config, t) = [config EXCEPT !.views[v] = columns]
    BY DEF Edited, v, columns
  <2> QED
    BY <1>1, <1>3, <1>4, <2>1 DEF Config
<1>6. Columns(columns) = columns
  BY <1>2, WholeStays
<1>7. \A w \in Views : Columns(Edited(config, t).views[w]) =
                         IF w = v THEN columns ELSE Columns(config.views[w])
  <2> HIDE DEF v, columns
  <2> QED
    BY <1>1, <1>4, <1>5, <1>6
<1>8. Grid(Edited(config, t)) = [Grid(config) EXCEPT ![v] = columns]
  <2> HIDE DEF v, columns
  <2> QED
    BY <1>1, <1>7 DEF Grid
<1> QED
  BY <1>5, <1>8

LEMMA FileInit == ProcessInit => FileInv
  BY LayoutAssumption DEF ProcessInit, LayoutInit, FileInv

LEMMA FileStep == FileInv /\ [ProcessNext]_vars => FileInv'
<1> SUFFICES ASSUME FileInv, [ProcessNext]_vars PROVE FileInv'
  OBVIOUS
<1>1. ASSUME UNCHANGED layoutVars, phase' = "off" <=> phase = "off" PROVE FileInv'
  <2>1. UNCHANGED <<file, cfg, last, tiles, saver, stage, post, posts, draft>>
    BY <1>1 DEF layoutVars, saveVars
  <2>2. \A t \in Tabs : stage[t] = "saving" => Edited(cfg, t)' = Edited(cfg, t)
    BY <2>1 DEF Edited
  <2> QED
    BY <1>1, <2>1, <2>2 DEF FileInv, Grid, Postings
<1>2. CASE Start
  <2>1. /\ phase = "off" /\ phase' # "off" /\ cfg' = file
        /\ UNCHANGED <<file, last, tiles, saver, stage, post, draft>>
    BY <1>2 DEF Start, Loaded, saveVars
  <2>2. \A t \in Tabs : stage[t] = "idle"
    BY <2>1 DEF FileInv
  <2>3. file # None
    BY LayoutAssumption DEF FileInv
  <2> QED
    BY <2>1, <2>2, <2>3 DEF FileInv, Grid
<1>3. CASE WriteItOut
  <2> DEFINE written == [views |-> Grid(file), dash |-> Dashboard(file.dash)]
  <2>1. /\ phase = "off" /\ phase' = phase /\ file' = written
        /\ UNCHANGED <<cfg, last, tiles, saver, stage, post, draft>>
    BY <1>3 DEF WriteItOut, WriteConfig, saveVars, mainVars
  <2>2. cfg = None /\ \A t \in Tabs : stage[t] = "idle"
    BY <2>1 DEF FileInv
  <2>3. /\ written \in Config
        /\ Grid(written) = Grid(file) /\ Tiles(written.dash) = Tiles(file.dash)
    BY ResolvedIsResolved DEF FileInv
  <2>4. Grid(file') = last' /\ Tiles(file'.dash) = tiles' /\ file' \in Config
    <3> HIDE DEF written
    <3> QED
      BY <2>1, <2>3 DEF FileInv
  <2> HIDE DEF written
  <2> QED
    BY <2>1, <2>2, <2>4 DEF FileInv, Grid
<1>4. CASE Gone
  <2>1. /\ phase' = "off" /\ cfg' = None /\ saver' = None
        /\ stage' = [t \in Tabs |-> "idle"] /\ post' = [t \in Tabs |-> None]
        /\ draft' = [t \in Tabs |-> None]
        /\ UNCHANGED <<file, last, tiles>>
    BY <1>4 DEF Gone, Unloaded
  <2> QED
    BY <2>1, LayoutAssumption DEF FileInv, Grid
<1>5. ASSUME NEW t \in Tabs, phase = "monitor", Post(t), phase' = phase PROVE FileInv'
  <2>1. /\ stage[t] = "idle" /\ stage' = [stage EXCEPT ![t] = "posted"]
        /\ UNCHANGED <<file, cfg, saver, draft, last, tiles>>
    BY <1>5 DEF Post
  <2>2. PICK p \in Postings : post' = [post EXCEPT ![t] = p]
    BY <1>5 DEF Post, Postings
  <2>3. \A u \in Tabs : u # t => Edited(cfg, u)' = Edited(cfg, u)
    BY <2>1, <2>2 DEF Edited, FileInv
  <2> QED
    BY <1>5, <2>1, <2>2, <2>3 DEF FileInv, Grid, Postings
<1>6. ASSUME NEW t \in Tabs, Save(t), phase' = phase PROVE FileInv'
  <2>1. /\ stage[t] = "posted" /\ saver = None /\ saver' = t
        /\ draft' = [draft EXCEPT ![t] = Edited(cfg, t)]
        /\ stage' = [stage EXCEPT ![t] = "saving"]
        /\ UNCHANGED <<file, cfg, post, last, tiles>>
    BY <1>6 DEF Save
  <2>2. \A u \in Tabs : stage[u] \notin {"saving", "saved"}
    BY <2>1, LayoutAssumption DEF FileInv
  <2>3. cfg # None /\ cfg = file
    BY <2>1, <2>2 DEF FileInv
  <2>4. \A u \in Tabs : Edited(cfg, u)' = Edited(cfg, u)
    BY <2>1 DEF Edited
  <2> QED
    BY <1>6, <2>1, <2>2, <2>3, <2>4 DEF FileInv, Grid, Postings
<1>7. ASSUME NEW t \in Tabs, SaveFails(t), phase' = phase PROVE FileInv'
  <2>1. /\ stage[t] = "saving" /\ saver' = None /\ stage' = [stage EXCEPT ![t] = "idle"]
        /\ post' = [post EXCEPT ![t] = None] /\ draft' = [draft EXCEPT ![t] = None]
        /\ UNCHANGED <<file, cfg, last, tiles>>
    BY <1>7 DEF SaveFails, Answered
  <2>2. cfg = file /\ cfg # None
    BY <2>1 DEF FileInv
  <2>3. \A u \in Tabs : u # t => stage[u] \notin {"saving", "saved"}
    BY <2>1 DEF FileInv
  <2> QED
    BY <1>7, <2>1, <2>2, <2>3, LayoutAssumption DEF FileInv, Grid, Postings
<1>8. ASSUME NEW t \in Tabs, Rename(t), phase' = phase PROVE FileInv'
  <2>1. /\ stage[t] = "saving" /\ file' = draft[t]
        /\ last' = [last EXCEPT ![post[t].view] = post[t].columns]
        /\ stage' = [stage EXCEPT ![t] = "saved"]
        /\ UNCHANGED <<cfg, saver, post, draft, tiles>>
    BY <1>8 DEF Rename
  <2>2. cfg = file /\ file' = Edited(file, t) /\ post[t] \in Postings /\ file \in Config
    BY <2>1 DEF FileInv
  <2>3. file' \in Config /\ Grid(file') = last' /\ Tiles(file'.dash) = tiles'
    BY <2>1, <2>2, EditedShowsThePost DEF FileInv
  <2>4. \A u \in Tabs : u # t => stage[u] \notin {"saving", "saved"}
    BY <2>1 DEF FileInv
  <2> QED
    BY <1>8, <2>1, <2>3, <2>4 DEF FileInv, Grid, Postings
<1>9. ASSUME NEW t \in Tabs, Publish(t), phase' = phase PROVE FileInv'
  <2>1. /\ stage[t] = "saved" /\ cfg' = draft[t]
        /\ saver' = None /\ stage' = [stage EXCEPT ![t] = "idle"]
        /\ post' = [post EXCEPT ![t] = None] /\ draft' = [draft EXCEPT ![t] = None]
        /\ UNCHANGED <<file, last, tiles>>
    BY <1>9 DEF Publish, Answered
  <2>2. cfg' = file /\ file # None /\ cfg # None
    BY <2>1, LayoutAssumption DEF FileInv
  <2>3. \A u \in Tabs : u # t => stage[u] \notin {"saving", "saved"}
    BY <2>1 DEF FileInv
  <2> QED
    BY <1>9, <2>1, <2>2, <2>3, LayoutAssumption DEF FileInv, Grid, Postings
<1>10. ASSUME NEW t \in Tabs, SaveLayout(t) PROVE FileInv'
  <2>1. phase' = phase
    BY <1>10 DEF SaveLayout, mainVars
  <2> QED
    BY <1>5, <1>6, <1>7, <1>8, <1>9, <1>10, <2>1 DEF SaveLayout, Handler
<1>11. CASE MainLogin \/ MainOpened
  BY <1>1, <1>11 DEF MainLogin, MainOpened, mainVars
<1>12. CASE Handover \/ Resume \/ Interrupt
  BY <1>1, <1>12 DEF Handover, Resume, Interrupt
<1>13. ASSUME NEW t \in Tabs, Arrive(t) \/ Accept(t) \/ Close(t) \/ Submit(t) PROVE FileInv'
  BY <1>1, <1>13 DEF Arrive, Accept, Close, Submit, mainVars
<1>14. ASSUME NEW t \in Tabs, Form(t) PROVE FileInv'
  BY <1>1, <1>14
  DEF Form, Conflict, Attempt, FormLogin, FormFails, FormOpened, FormAnswered, mainVars
<1>15. CASE UNCHANGED vars
  BY <1>1, <1>15 DEF vars, mainVars
<1> QED
  BY <1>2, <1>3, <1>4, <1>10, <1>11, <1>12, <1>13, <1>14, <1>15
  DEF ProcessNext, MainFails, Leave

\* A layout once saved is what the file and every later start show, whatever
\* is saved beside it, fails, dies inside a save or writes the file out
\* (Server.saveLayout, config.Save, Config.Columns, Config.Dashboard).
THEOREM SavesStand == ProcessSpec => []NoSaveIsUndone
<1>1. FileInv => NoSaveIsUndone
  <2> SUFFICES ASSUME FileInv PROVE NoSaveIsUndone
    OBVIOUS
  <2>1. file # None
    BY LayoutAssumption DEF FileInv
  <2>2. saver = None => \A t \in Tabs : stage[t] # "saved"
    BY LayoutAssumption DEF FileInv
  <2> QED
    BY <2>1, <2>2 DEF FileInv, NoSaveIsUndone
<1> QED
  BY <1>1, FileInit, FileStep, PTL DEF ProcessSpec

=============================================================================

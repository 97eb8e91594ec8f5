----------------------- MODULE StreamProtocol_proofs -----------------------
(***************************************************************************)
(* The page of StreamProtocol.tla always has what the rows it draws stand  *)
(* for, and only that.                                                     *)
(*                                                                         *)
(* The Encoder and the page never talk about what the page holds: the one  *)
(* believes what it sent, the other keeps what it was given, with up to    *)
(* MaxInFlight snapshots between them and a page that reads some of them   *)
(* frozen.  The invariant is therefore about the chain of snapshots on the *)
(* wire: each refers only to what it brings and to what the rows of the    *)
(* one before it use, the first one to what the page holds, and the        *)
(* Encoder believes no more than that of the last one.                     *)
(***************************************************************************)
EXTENDS StreamProtocol, TLAPS

\* What a key stands for can be read off it: it is a fingerprint of it all.
Meaning(key) == [login |-> key[2][1], text |-> key[2][2]]

\* A table that gives every key of a set its meaning.
Table(keys) == [key \in keys |-> Meaning(key)]

Snapshots == [rows : SUBSET Row, refs : {Table(keys) : keys \in SUBSET Keys(Row)}]

\* What the i-th snapshot on the wire may refer to without bringing it.
Before(i) == IF i = 1 THEN Held ELSE Keys(wire[i - 1].rows)

Chained ==
  \A i \in 1 .. Len(wire) :
    /\ DOMAIN wire[i].refs \subseteq Keys(wire[i].rows)
    /\ Keys(wire[i].rows) \subseteq DOMAIN wire[i].refs \cup Before(i)

\* What the page will hold, at least, once it has read what is on the wire.
Due == IF wire = <<>> THEN Held ELSE Keys(wire[Len(wire)].rows)

StreamInv ==
  /\ sample \subseteq Row /\ data \subseteq Row
  /\ wire \in Seq(Snapshots)
  /\ refs = Table(Held)
  /\ Keys(data) \subseteq Held
  /\ Chained
  /\ open => sent \subseteq Due

-----------------------------------------------------------------------------
\* The meaning of the key of a row is the row's own reference.
LEMMA MeaningIsOwn == \A row \in Row : Meaning(RefKey(row)) = Ref(row)
  BY DEF Meaning, RefKey, Ref

\* The references the Encoder sends are the meanings of their keys.
LEMMA SentIsMeant ==
  ASSUME NEW rows \in SUBSET Row, NEW keys \in SUBSET Keys(rows)
  PROVE  [key \in keys |-> Ref(CHOOSE row \in rows : RefKey(row) = key)] = Table(keys)
<1>1. ASSUME NEW key \in keys
      PROVE  Ref(CHOOSE row \in rows : RefKey(row) = key) = Meaning(key)
  <2> DEFINE own == CHOOSE row \in rows : RefKey(row) = key
  <2>1. \E row \in rows : RefKey(row) = key
    BY DEF Keys
  <2>2. own \in rows /\ RefKey(own) = key
    BY <2>1
  <2> QED
    BY <2>2, MeaningIsOwn
<1> QED
  BY <1>1 DEF Table

\* To take in a table is to hold the keys of both.
LEMMA AbsorbedTable ==
  ASSUME NEW these, NEW those
  PROVE  Absorbed(Table(these), Table(those)) = Table(these \cup those)
<1>1. DOMAIN Table(these) = these /\ DOMAIN Table(those) = those
  BY DEF Table
<1>2. ASSUME NEW key \in these \cup those
      PROVE  (IF key \in those THEN Table(those)[key] ELSE Table(these)[key]) = Meaning(key)
  BY DEF Table
<1> QED
  BY <1>1, <1>2 DEF Absorbed, Table

LEMMA KeysOfRows == \A rows \in SUBSET Row : Keys(rows) \subseteq Keys(Row)
  BY DEF Keys

\* What a snapshot is made of.
LEMMA SnapshotParts ==
  ASSUME NEW s \in Snapshots
  PROVE  s.rows \in SUBSET Row /\ s.refs = Table(DOMAIN s.refs)
<1>1. PICK keys \in SUBSET Keys(Row) : s.refs = Table(keys)
  BY DEF Snapshots
<1>2. DOMAIN s.refs = keys
  BY <1>1 DEF Table
<1> QED
  BY <1>1, <1>2 DEF Snapshots

-----------------------------------------------------------------------------
(* A snapshot is read.                                                     *)

\* Whichever way the page reads the first snapshot, if it ends up with what
\* its rows use then the rest of the wire is chained to that.
LEMMA ReadKeepsTheChain ==
  ASSUME StreamInv, wire # <<>>, wire' = Tail(wire),
         Keys(Head(wire).rows) \subseteq Held',
         open' = open, sent' = sent
  PROVE  /\ wire' \in Seq(Snapshots)
         /\ Chained'
         /\ (open => sent \subseteq Due)'
<1> USE DEF StreamInv
<1>1. wire' \in Seq(Snapshots) /\ Len(wire') = Len(wire) - 1 /\ Len(wire) \in Nat \ {0}
  OBVIOUS
<1>2. \A i \in 1 .. Len(wire') : wire'[i] = wire[i + 1]
  OBVIOUS
<1>3. Chained'
  <2> SUFFICES ASSUME NEW i \in 1 .. Len(wire')
               PROVE  /\ DOMAIN wire'[i].refs \subseteq Keys(wire'[i].rows)
                      /\ Keys(wire'[i].rows) \subseteq DOMAIN wire'[i].refs \cup Before(i)'
    BY DEF Chained, Keys, RefKey
  <2>1. i + 1 \in 1 .. Len(wire) /\ i \in 1 .. Len(wire) /\ i + 1 # 1 /\ (i + 1) - 1 = i
    BY <1>1
  <2>2. /\ DOMAIN wire[i + 1].refs \subseteq Keys(wire[i + 1].rows)
        /\ Keys(wire[i + 1].rows) \subseteq DOMAIN wire[i + 1].refs \cup Keys(wire[i].rows)
    BY <2>1 DEF Chained, Before
  <2>3. Keys(wire[i].rows) \subseteq Before(i)'
    <3>1. CASE i = 1
      BY <3>1, <1>1 DEF Before
    <3>2. CASE i # 1
      <4>1. i - 1 \in 1 .. Len(wire') /\ (i - 1) + 1 = i
        BY <3>2, <1>1
      <4>2. wire'[i - 1] = wire[i]
        BY <4>1, <1>2
      <4> QED
        BY <3>2, <4>2 DEF Before, Keys, RefKey
    <3> QED
      BY <3>1, <3>2
  <2> QED
    BY <1>2, <2>2, <2>3
<1>4. (open => sent \subseteq Due)'
  <2> SUFFICES ASSUME open PROVE sent \subseteq Due'
    OBVIOUS
  <2>1. sent \subseteq Keys(wire[Len(wire)].rows)
    BY DEF Due
  <2>2. CASE Len(wire) = 1
    <3>1. wire' = <<>>
      BY <1>1, <2>2
    <3> QED
      BY <2>1, <2>2, <3>1 DEF Due
  <2>3. CASE Len(wire) # 1
    <3>1. Len(wire') \in 1 .. Len(wire') /\ Len(wire') + 1 = Len(wire)
      BY <1>1, <2>3
    <3>0. wire' # <<>>
      <4> DEFINE w == wire'
      <4>1. Len(w) \in Nat \ {0}
        BY <1>1, <2>3
      <4> HIDE DEF w
      <4>2. w # <<>>
        BY <4>1
      <4> QED
        BY <4>2 DEF w
    <3>2. wire'[Len(wire')] = wire[Len(wire)]
      BY <3>1, <1>2
    <3> QED
      BY <2>1, <3>0, <3>1, <3>2 DEF Due, Keys, RefKey
  <2> QED
    BY <2>2, <2>3
<1> QED
  BY <1>1, <1>3, <1>4

\* What the page holds after drawing a snapshot is what its rows use.
LEMMA DrawHolds ==
  ASSUME StreamInv, Draw
  PROVE  /\ Held' = Keys(Head(wire).rows)
         /\ refs' = Table(Held')
         /\ Head(wire).rows \in SUBSET Row
<1> DEFINE s     == Head(wire)
           alive == Keys(s.rows)
           kept  == [key \in Held \cap alive |-> refs[key]]
<1>1. s \in Snapshots /\ s = wire[1] /\ 1 \in 1 .. Len(wire)
  BY DEF StreamInv, Draw
<1>2. s.rows \in SUBSET Row /\ s.refs = Table(DOMAIN s.refs)
  BY <1>1, SnapshotParts
<1>3. kept = Table(Held \cap alive)
  <2>1. \A key \in Held \cap alive : refs[key] = Meaning(key)
    BY DEF StreamInv, Table
  <2> QED
    BY <2>1 DEF Table
<1>4. refs' = Table((Held \cap alive) \cup DOMAIN s.refs)
  <2>1. refs' = Absorbed(kept, s.refs)
    BY DEF Draw
  <2>2. Absorbed(Table(Held \cap alive), Table(DOMAIN s.refs))
          = Table((Held \cap alive) \cup DOMAIN s.refs)
    BY AbsorbedTable
  <2> QED
    BY <1>2, <1>3, <2>1, <2>2
<1>5. (Held \cap alive) \cup DOMAIN s.refs = alive
  BY <1>1 DEF StreamInv, Chained, Before
<1>6. DOMAIN Table(alive) = alive
  BY DEF Table
<1>7. refs' = Table(alive)
  BY <1>4, <1>5
<1> QED
  BY <1>2, <1>6, <1>7 DEF Held

-----------------------------------------------------------------------------
(* The invariant is inductive.                                             *)

LEMMA InitEstablishesStreamInv == Init => StreamInv
<1> SUFFICES ASSUME Init PROVE StreamInv
  OBVIOUS
<1>1. refs = Table(Held) /\ Held = {}
  BY DEF Init, NoRefs, Held, Table
<1>2. Keys(data) = {}
  BY DEF Init, Keys
<1> QED
  BY <1>1, <1>2 DEF Init, StreamInv, Chained

\* The Encoder sends a snapshot: what it does not bring, the one before brought
\* or the page holds.
LEMMA SendKeepsStreamInv == StreamInv /\ Send => StreamInv'
<1> SUFFICES ASSUME StreamInv, Send PROVE StreamInv'
  OBVIOUS
<1> USE DEF StreamInv, Send
<1> DEFINE new == Keys(sample) \ sent
           s   == [rows |-> sample,
                   refs |-> [key \in new |->
                               Ref(CHOOSE row \in sample : RefKey(row) = key)]]
<1>1. s.refs = Table(new)
  <2>1. sample \in SUBSET Row /\ new \in SUBSET Keys(sample)
    OBVIOUS
  <2>2. [key \in new |-> Ref(CHOOSE row \in sample : RefKey(row) = key)] = Table(new)
    <3> HIDE DEF new, StreamInv, Send
    <3> QED
      BY ONLY <2>1, SentIsMeant, Zenon
  <2> QED
    BY ONLY <2>2
<1>2. DOMAIN s.refs = new
  BY <1>1 DEF Table
<1>3. s \in Snapshots
  <2>1. new \in SUBSET Keys(Row) /\ sample \in SUBSET Row
    BY KeysOfRows
  <2>2. s = [rows |-> sample, refs |-> Table(new)]
    BY <1>1
  <2> QED
    BY ONLY <2>1, <2>2 DEF Snapshots
<1>4. wire' = Append(wire, s)
  OBVIOUS
<1> HIDE DEF s
<1>5. /\ wire' \in Seq(Snapshots) /\ Len(wire) \in Nat /\ Len(wire') = Len(wire) + 1
      /\ wire'[Len(wire')] = s
      /\ \A i \in 1 .. Len(wire) : wire'[i] = wire[i]
  <2>1. wire \in Seq(Snapshots)
    OBVIOUS
  <2> QED
    BY ONLY <1>3, <1>4, <2>1
<1>6. s.rows = sample
  BY DEF s
<1>7. Held' = Held /\ Keys(data)' = Keys(data)
  BY DEF Held, Keys, RefKey, page
<1>8. Chained'
  <2> SUFFICES ASSUME NEW i \in 1 .. Len(wire')
               PROVE  /\ DOMAIN wire'[i].refs \subseteq Keys(wire'[i].rows)
                      /\ Keys(wire'[i].rows) \subseteq DOMAIN wire'[i].refs \cup Before(i)'
    BY DEF Chained, Keys, RefKey
  <2>1. CASE i \in 1 .. Len(wire)
    <3>1. Before(i)' = Before(i)
      <4>1. CASE i = 1
        BY <1>7, <4>1 DEF Before
      <4>2. CASE i # 1
        <5>1. i - 1 \in 1 .. Len(wire)
          BY <1>5, <2>1, <4>2
        <5> QED
          BY <1>5, <4>2, <5>1 DEF Before, Keys, RefKey
      <4> QED
        BY <4>1, <4>2
    <3> QED
      BY <1>5, <2>1, <3>1 DEF Chained
  <2>2. CASE i = Len(wire')
    <3>1. Before(i)' = Due
      <4>1. CASE wire = <<>>
        BY <1>5, <1>7, <2>2, <4>1 DEF Before, Due
      <4>2. CASE wire # <<>>
        <5>1. Len(wire) # 0
          BY <4>2
        <5>2. i # 1 /\ i - 1 = Len(wire) /\ i - 1 \in 1 .. Len(wire)
          BY <1>5, <2>2, <5>1
        <5> QED
          BY <1>5, <4>2, <5>2 DEF Before, Due, Keys, RefKey
      <4> QED
        BY <4>1, <4>2
    <3> QED
      BY <1>2, <1>5, <1>6, <2>2, <3>1
  <2> QED
    BY <1>5, <2>1, <2>2
<1>9. sent' \subseteq Due'
  <2>1. wire' # <<>>
    BY <1>3, <1>4
  <2> QED
    BY <1>5, <1>6, <2>1 DEF Due, Keys, RefKey
<1> QED
  BY <1>5, <1>7, <1>8, <1>9 DEF page

\* A connection is lost: of the wire there is a part left.
LEMMA BreakKeepsStreamInv == StreamInv /\ Break => StreamInv'
<1> SUFFICES ASSUME StreamInv, Break PROVE StreamInv'
  OBVIOUS
<1> USE DEF StreamInv, Break
<1>1. PICK n \in 0 .. Len(wire) : wire' = SubSeq(wire, 1, n)
  OBVIOUS
<1>2. /\ wire' \in Seq(Snapshots) /\ Len(wire') = n /\ Len(wire) \in Nat
      /\ \A i \in 1 .. n : wire'[i] = wire[i]
  BY <1>1
<1>3. Held' = Held /\ Keys(data)' = Keys(data)
  BY DEF Held, Keys, RefKey, page
<1>4. Chained'
  <2> SUFFICES ASSUME NEW i \in 1 .. n
               PROVE  /\ DOMAIN wire'[i].refs \subseteq Keys(wire'[i].rows)
                      /\ Keys(wire'[i].rows) \subseteq DOMAIN wire'[i].refs \cup Before(i)'
    BY <1>2 DEF Chained, Keys, RefKey
  <2>1. i \in 1 .. Len(wire)
    BY <1>2
  <2>2. Before(i)' = Before(i)
    <3>1. CASE i = 1
      BY <1>3, <3>1 DEF Before
    <3>2. CASE i # 1
      <4>1. i - 1 \in 1 .. n
        BY <1>2, <3>2
      <4> QED
        BY <1>2, <3>2, <4>1 DEF Before, Keys, RefKey
    <3> QED
      BY <3>1, <3>2
  <2> QED
    BY <1>2, <2>1, <2>2 DEF Chained
<1> QED
  BY <1>2, <1>3, <1>4 DEF page

LEMMA ReadFrozenKeepsStreamInv == StreamInv /\ ReadFrozen => StreamInv'
<1> SUFFICES ASSUME StreamInv, ReadFrozen PROVE StreamInv'
  OBVIOUS
<1> DEFINE s == Head(wire)
<1>1. s \in Snapshots /\ s = wire[1] /\ 1 \in 1 .. Len(wire)
  BY DEF StreamInv, ReadFrozen
<1>2. s.refs = Table(DOMAIN s.refs)
  BY <1>1, SnapshotParts
<1>3. refs' = Table(Held \cup DOMAIN s.refs)
  <2>1. refs = Table(Held) /\ refs' = Absorbed(refs, s.refs)
    BY DEF StreamInv, ReadFrozen
  <2>2. Absorbed(Table(Held), Table(DOMAIN s.refs)) = Table(Held \cup DOMAIN s.refs)
    BY AbsorbedTable
  <2> QED
    BY <1>2, <2>1, <2>2
<1>4. Held' = Held \cup DOMAIN s.refs
  BY <1>3 DEF Held, Table
<1>5. Keys(s.rows) \subseteq Held'
  BY <1>1, <1>4 DEF StreamInv, Chained, Before
<1>6. wire' \in Seq(Snapshots) /\ Chained' /\ (open => sent \subseteq Due)'
  <2>1. wire # <<>> /\ wire' = Tail(wire) /\ open' = open /\ sent' = sent
    BY DEF ReadFrozen
  <2> QED
    BY <1>5, <2>1, ReadKeepsTheChain
<1>7. Keys(data)' \subseteq Held'
  BY <1>4 DEF StreamInv, ReadFrozen, Keys, RefKey
<1> QED
  BY <1>3, <1>4, <1>6, <1>7 DEF StreamInv, ReadFrozen

LEMMA DrawKeepsStreamInv == StreamInv /\ Draw => StreamInv'
<1> SUFFICES ASSUME StreamInv, Draw PROVE StreamInv'
  OBVIOUS
<1>1. /\ Held' = Keys(Head(wire).rows) /\ refs' = Table(Held')
      /\ Head(wire).rows \in SUBSET Row
  BY DrawHolds
<1>2. wire' \in Seq(Snapshots) /\ Chained' /\ (open => sent \subseteq Due)'
  <2>1. wire # <<>> /\ wire' = Tail(wire) /\ open' = open /\ sent' = sent
    BY DEF Draw
  <2> QED
    BY <1>1, <2>1, ReadKeepsTheChain
<1>3. Keys(data)' = Keys(Head(wire).rows)
  BY DEF Draw, Keys, RefKey
<1> QED
  BY <1>1, <1>2, <1>3 DEF StreamInv, Draw

LEMMA NextKeepsStreamInv == StreamInv /\ [Next]_vars => StreamInv'
<1> SUFFICES ASSUME StreamInv, [Next]_vars PROVE StreamInv'
  OBVIOUS
<1> DEFINE Still == UNCHANGED <<wire, refs, data>>
<1>1. ASSUME Still, sample' \subseteq Row, open' => sent' \subseteq Due PROVE StreamInv'
  BY <1>1 DEF StreamInv, Chained, Due, Before, Held, Keys, RefKey
<1>2. ASSUME NEW rows \in SUBSET Row, Collect(rows) PROVE StreamInv'
  BY <1>1, <1>2 DEF StreamInv, Collect, page
<1>3. CASE Connect
  BY <1>1, <1>3 DEF StreamInv, Connect, page
<1>4. CASE ToggleFreeze
  BY <1>1, <1>4 DEF StreamInv, ToggleFreeze
<1>5. CASE UNCHANGED vars
  BY <1>1, <1>5 DEF StreamInv, vars, page
<1>6. CASE Reload
  <2>1. refs' = Table(Held') /\ Keys(data)' = {}
    BY <1>6 DEF Reload, NoRefs, Held, Table, Keys
  <2> QED
    BY <1>6, <2>1 DEF StreamInv, Reload, Chained
<1> QED
  BY <1>2, <1>3, <1>4, <1>5, <1>6, SendKeepsStreamInv, BreakKeepsStreamInv,
     ReadFrozenKeepsStreamInv, DrawKeepsStreamInv DEF Next

LEMMA StreamInvAlways == Spec => []StreamInv
  BY InitEstablishesStreamInv, NextKeepsStreamInv, PTL DEF Spec

-----------------------------------------------------------------------------
\* For every set of sessions and every length of the wire: each row drawn has
\* its reference, and it is the row's own.
THEOREM RowsShownAreTheirOwn == Spec => []ShownIsOwn
<1>1. ASSUME StreamInv PROVE ShownIsOwn
  <2> SUFFICES ASSUME NEW row \in data
               PROVE  RefKey(row) \in Held /\ refs[RefKey(row)] = Ref(row)
    BY DEF ShownIsOwn
  <2>1. RefKey(row) \in Held /\ row \in Row
    BY <1>1 DEF StreamInv, Keys
  <2>2. refs[RefKey(row)] = Meaning(RefKey(row))
    BY <1>1, <2>1 DEF StreamInv, Table
  <2> QED
    BY <2>1, <2>2, MeaningIsOwn
<1> QED
  BY <1>1, StreamInvAlways, PTL

\* And a snapshot drawn leaves the page with what its rows use, no more.
THEOREM TheTableIsPruned == Spec => DrawnIsAllItHolds
<1> DEFINE Pruned == data' # data /\ data' # {} => DOMAIN refs' = Keys(data')
<1>1. StreamInv /\ [Next]_vars => [Pruned]_vars
  <2> SUFFICES ASSUME StreamInv, Next, data' # data, data' # {}
               PROVE  DOMAIN refs' = Keys(data')
    BY DEF Pruned
  <2>1. Draw
    BY DEF Next, Collect, Connect, Send, Break, ReadFrozen, ToggleFreeze, Reload, page
  <2>2. Held' = Keys(Head(wire).rows)
    BY <2>1, DrawHolds
  <2> QED
    BY <2>1, <2>2 DEF Draw, Held
<1> QED
  BY <1>1, StreamInvAlways, PTL DEF Spec, DrawnIsAllItHolds

-----------------------------------------------------------------------------
(* Types, and the bound of the socket.                                     *)

StreamTypes ==
  /\ open \in BOOLEAN /\ frozen \in BOOLEAN /\ breaks \in 0 .. MaxBreaks
  /\ sent \subseteq Keys(Row) /\ Held \subseteq Keys(Row)
  /\ Len(wire) <= MaxInFlight

LEMMA NextKeepsStreamTypes == StreamInv /\ StreamTypes /\ [Next]_vars => StreamTypes'
<1> SUFFICES ASSUME StreamInv, StreamTypes, [Next]_vars PROVE StreamTypes'
  OBVIOUS
<1> USE StreamBounds DEF StreamTypes
<1>1. wire \in Seq(Snapshots) /\ Len(wire) \in Nat /\ MaxInFlight \in Nat
  BY DEF StreamInv
<1>0. Keys(Row)' = Keys(Row) /\ Len(<<>>) = 0
  BY DEF Keys, RefKey, Row
<1> HIDE DEF StreamTypes
<1>2. ASSUME UNCHANGED <<refs, wire, breaks>>, open' \in BOOLEAN, frozen' \in BOOLEAN,
             sent' \in {sent, {}}
      PROVE  StreamTypes'
  BY <1>0, <1>2 DEF StreamTypes, Held
<1>3. ASSUME wire' = Tail(wire), wire # <<>>, UNCHANGED <<open, frozen, breaks, sent>>,
             Held' \subseteq Keys(Row)
      PROVE  StreamTypes'
  <2>1. Len(wire') <= MaxInFlight
    BY <1>1, <1>3 DEF StreamTypes
  <2> QED
    BY <1>0, <1>3, <2>1 DEF StreamTypes
<1>4. ASSUME NEW rows \in SUBSET Row, Collect(rows) PROVE StreamTypes'
  BY <1>2, <1>4 DEF Collect, page, StreamTypes
<1>5. CASE Connect
  BY <1>2, <1>5 DEF Connect, page, StreamTypes
<1>6. CASE Send
  <2>1. sent' \subseteq Keys(Row)
    BY <1>6, KeysOfRows DEF Send, StreamInv
  <2>2. Len(wire') = Len(wire) + 1 /\ Len(wire) < MaxInFlight
    BY <1>1, <1>6 DEF Send
  <2>3. Len(wire') <= MaxInFlight
    BY ONLY <1>1, <2>2
  <2>4. UNCHANGED <<open, frozen, breaks, refs>>
    BY <1>6 DEF Send, page
  <2> QED
    BY <1>0, <2>1, <2>3, <2>4 DEF StreamTypes, Held
<1>7. CASE Break
  <2>1. PICK n \in 0 .. Len(wire) : wire' = SubSeq(wire, 1, n)
    BY <1>7 DEF Break
  <2>2. Len(wire') <= MaxInFlight
    BY <1>1, <2>1 DEF StreamTypes
  <2>3. breaks' \in 0 .. MaxBreaks
    BY <1>7 DEF Break, StreamTypes
  <2>4. open' = FALSE /\ UNCHANGED <<frozen, sent, refs>>
    BY <1>7 DEF Break, page
  <2> QED
    BY <1>0, <2>2, <2>3, <2>4 DEF StreamTypes, Held
<1>8. CASE ReadFrozen
  <2>1. Head(wire) \in Snapshots
    BY <1>1, <1>8 DEF ReadFrozen
  <2>2. DOMAIN Head(wire).refs \subseteq Keys(Row)
    BY <2>1 DEF Snapshots, Table
  <2>3. Held' = Held \cup DOMAIN Head(wire).refs
    BY <1>8 DEF ReadFrozen, Absorbed, Held
  <2> QED
    BY <1>3, <1>8, <2>2, <2>3 DEF ReadFrozen, StreamTypes
<1>9. CASE Draw
  <2>1. Held' = Keys(Head(wire).rows) /\ Head(wire).rows \in SUBSET Row
    BY <1>9, DrawHolds
  <2> QED
    BY <1>3, <1>9, <2>1, KeysOfRows DEF Draw
<1>10. CASE ToggleFreeze
  <2>1. frozen' \in BOOLEAN
    BY <1>10, Zenon DEF ToggleFreeze
  <2> QED
    BY <1>2, <1>10, <2>1 DEF ToggleFreeze, StreamTypes
<1>11. CASE Reload
  <2>1. Held' = {}
    BY <1>11 DEF Reload, NoRefs, Held
  <2>2. wire' = <<>> /\ breaks' \in 0 .. MaxBreaks /\ open' = FALSE /\ frozen' = FALSE
        /\ sent' = sent
    BY <1>11 DEF Reload, StreamTypes
  <2>3. Len(wire') <= MaxInFlight
    BY <1>0, <1>1, <2>2
  <2> QED
    BY <1>0, <2>1, <2>2, <2>3 DEF StreamTypes
<1>12. CASE UNCHANGED vars
  BY <1>2, <1>12 DEF vars, page, StreamTypes
<1> QED
  BY <1>4, <1>5, <1>6, <1>7, <1>8, <1>9, <1>10, <1>11, <1>12 DEF Next

\* Every variable of the stream and the page keeps its type, and no more is in
\* flight than the socket holds.
THEOREM StreamTypeCorrect == Spec => []TypeOK
<1>1. Init => StreamTypes
  <2> SUFFICES ASSUME Init PROVE StreamTypes
    OBVIOUS
  <2>1. Held = {}
    BY DEF Init, NoRefs, Held
  <2>2. Len(<<>>) = 0
    OBVIOUS
  <2>3. Len(wire) <= MaxInFlight
    BY <2>2, StreamBounds DEF Init
  <2>4. breaks \in 0 .. MaxBreaks
    BY StreamBounds DEF Init
  <2>5. open \in BOOLEAN /\ frozen \in BOOLEAN /\ sent = {}
    BY DEF Init
  <2> QED
    BY <2>1, <2>3, <2>4, <2>5 DEF StreamTypes
<1>2. StreamInv /\ StreamTypes => TypeOK
  BY KeysOfRows DEF StreamInv, StreamTypes, TypeOK
<1> QED
  BY <1>1, <1>2, NextKeepsStreamTypes, StreamInvAlways, PTL DEF Spec

=============================================================================

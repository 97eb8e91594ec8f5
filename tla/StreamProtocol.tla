--------------------------- MODULE StreamProtocol ---------------------------
(***************************************************************************)
(* The snapshot stream: internal/web/stream.go, the Encoder of             *)
(* internal/web/protocol.go, and the page that reads it (assets/app.js).   *)
(*                                                                         *)
(* A row on the wire names the statement, login, host and program of its   *)
(* session by a key; the Encoder of the connection sends what a key stands *)
(* for once, and forgets a key no row used.  The page keeps the references *)
(* it was given, across reconnections too, and prunes them by the same     *)
(* rule, except while its display is frozen.                               *)
(*                                                                         *)
(* One page is modelled: a connection has an Encoder of its own, so pages  *)
(* share nothing but the sample.  A snapshot holds the rows themselves;    *)
(* the page reads nothing of them but their keys.                          *)
(***************************************************************************)
EXTENDS Naturals, Sequences, FiniteSets

CONSTANTS
  Sessions, Logins, Texts,
  MaxRows,      \* rows of a sample
  MaxInFlight,  \* snapshots the socket holds before a write blocks
  MaxBreaks     \* connections lost, page reloads included

ASSUME StreamBounds == MaxRows \in Nat /\ MaxInFlight \in Nat \ {0} /\ MaxBreaks \in Nat

VARIABLES
  sample,   \* the rows of the latest tick of the window
  open,     \* the page's connection is up and its handler is running
  sent,     \* Encoder.sent
  wire,     \* snapshots written and not yet read by the page
  refs,     \* the page's references, by key
  data,     \* the rows the page draws
  frozen,   \* the display is held: paused, or the history panel is open
  breaks    \* connections lost so far

page == <<refs, data, frozen>>
vars == <<sample, open, sent, wire, page, breaks>>

Row == [spid : Sessions, login : Logins, text : Texts]

\* What a reference carries of a row.
Ref(row) == [login |-> row.login, text |-> row.text]

Refs == [login : Logins, text : Texts]

\* Mutant: the key is the session and its statement, as in the first round.
RefKeyOfTheText(row) == <<row.spid, row.text>>

\* The session, and a fingerprint of everything the reference carries.
RefKey(row) == <<row.spid, <<row.login, row.text>>>>

Keys(rows) == {RefKey(row) : row \in rows}
Held == DOMAIN refs

\* A map with the entries of another set in it.
Absorbed(map, more) ==
  [key \in DOMAIN map \cup DOMAIN more |-> IF key \in DOMAIN more THEN more[key] ELSE map[key]]

NoRefs == [key \in {} |-> {}]

TypeOK ==
  /\ sample \subseteq Row /\ data \subseteq Row
  /\ open \in BOOLEAN /\ frozen \in BOOLEAN /\ breaks \in 0 .. MaxBreaks
  /\ sent \subseteq Keys(Row) /\ Held \subseteq Keys(Row)
  /\ Len(wire) <= MaxInFlight

Init ==
  /\ sample = {} /\ open = FALSE /\ sent = {} /\ wire = <<>>
  /\ refs = NoRefs /\ data = {} /\ frozen = FALSE /\ breaks = 0

\* The collector appends a tick: sessions come and go, change their statement
\* or, the server reusing their id, their login.
Collect(rows) ==
  /\ Cardinality(rows) <= MaxRows
  /\ sample' = rows
  /\ UNCHANGED <<open, sent, wire, page, breaks>>

-----------------------------------------------------------------------------
(* The connection.                                                         *)

\* Mutant: the Encoder outlives the connection it was made for.
ConnectWithTheOldEncoder ==
  /\ ~open /\ wire = <<>>
  /\ open' = TRUE
  /\ UNCHANGED <<sample, sent, wire, page, breaks>>

\* EventSource connects, at first and whenever it lost a connection and has
\* read what was left of it; the handler makes an Encoder for it.
Connect ==
  /\ ~open /\ wire = <<>>
  /\ open' = TRUE
  /\ sent' = {}
  /\ UNCHANGED <<sample, wire, page, breaks>>

\* Encoder.Snapshot and the write of it: on connecting, and at each period.
Send ==
  /\ open /\ Len(wire) < MaxInFlight
  /\ sent' = Keys(sample)
  /\ wire' = Append(wire,
       [rows |-> sample,
        refs |-> [key \in Keys(sample) \ sent |->
                    Ref(CHOOSE row \in sample : RefKey(row) = key)]])
  /\ UNCHANGED <<sample, open, page, breaks>>

\* The connection is lost, or a write misses its deadline because the page is
\* not reading: the handler returns, and of what it wrote a part may arrive.
Break ==
  /\ open /\ breaks < MaxBreaks
  /\ open' = FALSE
  /\ \E n \in 0 .. Len(wire) : wire' = SubSeq(wire, 1, n)
  /\ breaks' = breaks + 1
  /\ UNCHANGED <<sample, sent, page>>

-----------------------------------------------------------------------------
(* The page.                                                               *)

\* A snapshot read while the display is frozen: only its references are kept.
ReadFrozen ==
  /\ wire # <<>> /\ frozen
  /\ refs' = Absorbed(refs, Head(wire).refs)
  /\ wire' = Tail(wire)
  /\ UNCHANGED <<sample, open, sent, data, frozen, breaks>>

\* Mutant: the references are never pruned.
DrawWithoutPruning ==
  /\ wire # <<>> /\ ~frozen
  /\ data' = Head(wire).rows
  /\ refs' = Absorbed(refs, Head(wire).refs)
  /\ wire' = Tail(wire)
  /\ UNCHANGED <<sample, open, sent, frozen, breaks>>

\* A snapshot is drawn: references no row of it uses are dropped, then those
\* it brings are added.
Draw ==
  /\ wire # <<>> /\ ~frozen
  /\ data' = Head(wire).rows
  /\ LET alive == Keys(Head(wire).rows)
         kept  == [key \in Held \cap alive |-> refs[key]]
     IN  refs' = Absorbed(kept, Head(wire).refs)
  /\ wire' = Tail(wire)
  /\ UNCHANGED <<sample, open, sent, frozen, breaks>>

\* p, or the history panel opened or closed.
ToggleFreeze ==
  /\ frozen' = ~frozen
  /\ UNCHANGED <<sample, open, sent, wire, refs, data, breaks>>

\* The page is loaded again, with nothing of what it held.
Reload ==
  /\ breaks < MaxBreaks
  /\ open' = FALSE /\ wire' = <<>> /\ breaks' = breaks + 1
  /\ refs' = NoRefs /\ data' = {} /\ frozen' = FALSE
  /\ UNCHANGED <<sample, sent>>

Next ==
  \/ \E rows \in SUBSET Row : Collect(rows)
  \/ Connect \/ Send \/ Break
  \/ ReadFrozen \/ Draw \/ ToggleFreeze \/ Reload

Spec == Init /\ [][Next]_vars

\* The period of the stream fires for ever, the socket delivers, EventSource
\* reconnects; nobody owes the page an end to its pause.
Fairness == WF_vars(Send) /\ WF_vars(Connect) /\ WF_vars(ReadFrozen \/ Draw)

FairSpec == Spec /\ Fairness

-----------------------------------------------------------------------------
\* Every row drawn has its reference, and it is the row's own: no row is shown
\* without its statement, or under the login of the session that had its id
\* before, whatever was frozen, lost, reordered with a reload or reconnected.
ShownIsOwn ==
  \A row \in data : RefKey(row) \in Held /\ refs[RefKey(row)] = Ref(row)

\* What the page holds once it has drawn a snapshot is what the rows of it
\* use, so that a tab left open does not grow with the sessions it has seen.
DrawnIsAllItHolds ==
  [][data' # data /\ data' # {} => DOMAIN refs' = Keys(data')]_vars

\* A session that stays, on a page that does not stay frozen, ends up on the
\* screen with its own statement: a lost connection never leaves the two ends
\* in disagreement about what the page was given.
StaysShown ==
  \A row \in Row :
    <>[](row \in sample /\ ~frozen)
      => <>[](row \in data /\ RefKey(row) \in Held /\ refs[RefKey(row)] = Ref(row))

=============================================================================

----------------------------- MODULE RingBuffer -----------------------------
(***************************************************************************)
(* How a capture accounts for events (parseRingBuffer, PollCapture and the *)
(* drain's tick): the server's ring buffer evicts its oldest events, a     *)
(* document shows a prefix of what it holds, and the drain places what it  *)
(* reads by absolute index against the mark it keeps.                      *)
(*                                                                         *)
(* An event is its absolute index.  A poll reads one snapshot; the drain   *)
(* is one goroutine, so a tick is one step between two steps of the        *)
(* server.                                                                 *)
(***************************************************************************)
EXTENDS Integers, Sequences, FiniteSets

CONSTANTS Capacity,  \* events the buffer holds
          MaxEvents, \* bound: events the session sees
          MaxDropped \* bound: events the server drops before the buffer

ASSUME RingBufferAssumption ==
  /\ Capacity \in Nat \ {0} /\ MaxEvents \in Nat /\ MaxDropped \in Nat

VARIABLES
  there,      \* the event session exists
  total,      \* totalEventsProcessed
  held,       \* eventCount
  dropCount,  \* dropped_event_count
  mark,       \* run.mark
  events,     \* the indices of the event records of the file, in order
  missed,     \* run.missed
  dropped,    \* run.dropped
  unknown,    \* run.unknown
  gapLost,    \* what the gap records of the file say was lost
  gapDropped  \* what the gap records of the file say was dropped

serverVars == <<there, total, held, dropCount>>
drainVars == <<mark, events, missed, dropped, unknown, gapLost, gapDropped>>
vars == <<serverVars, drainVars>>

TypeOK ==
  /\ there \in BOOLEAN
  /\ total \in Nat /\ held \in 0 .. Capacity /\ dropCount \in Nat
  /\ mark \in Nat /\ events \in Seq(Nat)
  /\ missed \in Nat /\ dropped \in Nat /\ unknown \in BOOLEAN
  /\ gapLost \in Nat /\ gapDropped \in Nat

Init ==
  /\ there = TRUE /\ total = 0 /\ held = 0 /\ dropCount = 0
  /\ mark = 0 /\ events = <<>> /\ missed = 0 /\ dropped = 0 /\ unknown = FALSE
  /\ gapLost = 0 /\ gapDropped = 0

Larger(a, b) == IF a > b THEN a ELSE b

-----------------------------------------------------------------------------
(* The server, as parseRingBuffer's comments describe it.                  *)

Processed ==
  /\ there /\ total < MaxEvents
  /\ total' = total + 1
  /\ held' = IF held = Capacity THEN held ELSE held + 1
  /\ UNCHANGED <<there, dropCount, drainVars>>

Dropped ==
  /\ there /\ dropCount < MaxDropped
  /\ dropCount' = dropCount + 1
  /\ UNCHANGED <<there, total, held, drainVars>>

\* Somebody drops the session, or a failover leaves it on another server.
Gone ==
  /\ there /\ there' = FALSE
  /\ UNCHANGED <<total, held, dropCount, drainVars>>

-----------------------------------------------------------------------------
(* parseRingBuffer: n nodes of a buffer that holds the last `held` of      *)
(* `total` events, read against a mark.                                    *)

\* The index of the first node.
First == Larger(total - held, 0)

MissedBy(m) == Larger(First - m, 0)

SeenBy(m, n) == Larger(First + n, m)

\* Mutant of Emitted: placed from the end of what the server has processed.
EmittedFromTotal(m, n) ==
  LET from == Larger(m, total - n)
  IN [i \in 1 .. Larger(total - from, 0) |-> from + i - 1]

\* The indices past the mark that the document carries, oldest first.
Emitted(m, n) ==
  LET from == Larger(m, First)
  IN [i \in 1 .. Larger(First + n - from, 0) |-> from + i - 1]

-----------------------------------------------------------------------------
\* Mutant of Adopt: a gap is written for what the server dropped only.
AdoptDropsOnly(rows, seen, lost, drops, truncated) ==
  /\ mark' = seen
  /\ events' = events \o rows
  /\ missed' = missed + lost
  /\ dropped' = drops
  /\ unknown' = (unknown \/ truncated)
  /\ IF drops > dropped
     THEN gapLost' = gapLost + lost /\ gapDropped' = gapDropped + drops - dropped
     ELSE UNCHANGED <<gapLost, gapDropped>>

\* tick, after a poll that reports rows, progress and the server's count of
\* dropped events.
Adopt(rows, seen, lost, drops, truncated) ==
  /\ mark' = seen
  /\ events' = events \o rows
  /\ missed' = missed + lost
  /\ dropped' = drops
  /\ unknown' = (unknown \/ truncated)
  /\ IF lost > 0 \/ drops > dropped
     THEN gapLost' = gapLost + lost /\ gapDropped' = gapDropped + drops - dropped
     ELSE UNCHANGED <<gapLost, gapDropped>>

\* A document of n nodes; fewer than the buffer holds when it would be past
\* the server's limit.  The server may flag what it did not cut.
Read(n, flagged) ==
  /\ there /\ held > 0
  /\ Adopt(Emitted(mark, n), SeenBy(mark, n), MissedBy(mark), dropCount,
           flagged \/ n < held)
  /\ UNCHANGED serverVars

\* A target with nothing in it yet.
ReadNothing ==
  /\ there /\ held = 0
  /\ Adopt(<<>>, mark, 0, dropCount, FALSE)
  /\ UNCHANGED serverVars

\* sql.ErrNoRows: progress carries the mark, and no count of dropped events.
ReadGone ==
  /\ ~there
  /\ Adopt(<<>>, mark, 0, 0, FALSE)
  /\ UNCHANGED serverVars

Poll ==
  \/ \E n \in 0 .. held, flagged \in BOOLEAN : Read(n, flagged)
  \/ ReadNothing \/ ReadGone

Next == Processed \/ Dropped \/ Gone \/ Poll

Spec == Init /\ [][Next]_vars

-----------------------------------------------------------------------------
(* Properties.                                                             *)

\* No event is written twice or out of order, however the documents overlap.
EventsInOrder ==
  \A i, j \in DOMAIN events : i < j => events[i] < events[j]

\* Every event below the mark is either in the file or counted as missed, and
\* none above it is: the loss report is exact, truncated documents included.
LossIsExact ==
  /\ missed + Len(events) = mark
  /\ \A i \in DOMAIN events : events[i] < mark
  /\ mark <= total

\* What the end record and the panel say was missed is what the gap records
\* of the file add up to.
GapsAddUp == missed = gapLost

=============================================================================

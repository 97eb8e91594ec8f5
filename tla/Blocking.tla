------------------------------ MODULE Blocking ------------------------------
(***************************************************************************)
(* Flatten (internal/window): the rows of one sample laid out as a list in *)
(* which what is blocked stands under its blocker, one step further in.    *)
(* A row is a request of a session and the session said to block it; a     *)
(* session may have several requests, block itself, stand in a cycle, or   *)
(* be blocked by one that is not in the sample any more.                   *)
(***************************************************************************)
EXTENDS Integers, Sequences, SequencesExt, FiniteSetsExt

CONSTANTS Spids,    \* bound: session ids, from 1
          Requests, \* bound: request ids of a session
          MaxRows   \* bound: rows of a sample

ASSUME BlockingAssumption ==
  /\ Spids \subseteq Nat \ {0} /\ IsFiniteSet(Spids)
  /\ Requests \subseteq Nat /\ IsFiniteSet(Requests)
  /\ MaxRows \in Nat

\* BlockedBy is 0 for a row that waits for nobody.
Samples ==
  UNION {[refs -> Spids \cup {0}] :
           refs \in {r \in SUBSET (Spids \X Requests) : Cardinality(r) <= MaxRows}}

Refs(sample) == DOMAIN sample

Present(sample) == {ref[1] : ref \in Refs(sample)}

-----------------------------------------------------------------------------
\* byRef.
Before(a, b) == a[1] < b[1] \/ (a[1] = b[1] /\ a[2] < b[2])

InOrder(refs) ==
  CHOOSE list \in [1 .. Cardinality(refs) -> refs] :
    \A i, j \in DOMAIN list : i < j => Before(list[i], list[j])

IsRoot(sample, ref) ==
  sample[ref] = 0 \/ sample[ref] = ref[1] \/ sample[ref] \notin Present(sample)

Children(sample, spid) ==
  InOrder({ref \in Refs(sample) : ~IsRoot(sample, ref) /\ sample[ref] = spid})

At(refs, depth) == [i \in DOMAIN refs |-> [ref |-> refs[i], depth |-> depth]]

Laid(out) == {out[i].ref : i \in DOMAIN out}

\* One call of walk: a row already laid out is passed over, and the children
\* of a session follow the first of its rows.
Walk(sample, st) ==
  IF st.todo = <<>> THEN st
  ELSE LET row == Head(st.todo)
           spid == row.ref[1]
       IN IF row.ref \in Laid(st.out) THEN [st EXCEPT !.todo = Tail(@)]
          ELSE [out  |-> Append(st.out, row),
                todo |-> (IF \E ref \in Laid(st.out) : ref[1] = spid THEN <<>>
                          ELSE At(Children(sample, spid), row.depth + 1))
                         \o Tail(st.todo)]

\* walk for every row of todo, in order: every row is visited at most once as
\* a child and once from the list itself.
WalkAll(sample, out, todo) ==
  LET visits == 2 * Cardinality(Refs(sample))
      st[i \in 0 .. visits] ==
        IF i = 0 THEN [out |-> out, todo |-> todo] ELSE Walk(sample, st[i - 1])
  IN st[visits].out

Roots(sample) == {ref \in Refs(sample) : IsRoot(sample, ref)}

\* Mutant of Flatten: what no root leads to is left out.
FlattenFromRoots(sample) ==
  WalkAll(sample, <<>>, At(InOrder(Roots(sample)), 0))

\* The roots and what hangs under them, then what only a cycle leads to.
Flatten(sample) ==
  LET out == WalkAll(sample, <<>>, At(InOrder(Roots(sample)), 0))
  IN WalkAll(sample, out, At(InOrder(Refs(sample) \ Laid(out)), 0))

-----------------------------------------------------------------------------
(* What a layout owes its sample, said without walking it.                 *)

\* The last of the first n rows that is this deep, or 0.
LastAt(out, n, depth) == Max({j \in 1 .. n : out[j].depth = depth} \cup {0})

\* The row above position i under which it stands.
Parent(out, i) == LastAt(out, i - 1, out[i].depth - 1)

\* Every row is laid out once, cycles and vanished blockers included, and one
\* that is further in stands under a row of the session that blocks it.
IsLayout(sample, out) ==
  /\ Len(out) = Cardinality(Refs(sample))
  /\ Laid(out) = Refs(sample)
  /\ \A i \in DOMAIN out : out[i].depth > 0 =>
       /\ Parent(out, i) # 0
       /\ out[Parent(out, i)].ref[1] = sample[out[i].ref]

\* A set of rows that leaves out nothing a chain leads to from it or a root.
Closed(sample, those) ==
  \A ref \in Refs(sample) :
    IsRoot(sample, ref) \/ (\E by \in those : by[1] = sample[ref]) => ref \in those

\* What a chain leads to from a root.
Led(sample) ==
  {ref \in Refs(sample) :
     \A those \in SUBSET Refs(sample) : Closed(sample, those) => ref \in those}

\* Nothing stands at the margin that a chain leads to: a row blocked by a
\* session of the sample is further in, unless it is part of a cycle or of
\* what only a cycle leads to.
NoneAdrift(sample, out) ==
  \A i \in DOMAIN out :
    out[i].ref \in Led(sample) /\ ~IsRoot(sample, out[i].ref) => out[i].depth > 0

=============================================================================

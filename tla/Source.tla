------------------------------- MODULE Source -------------------------------
(***************************************************************************)
(* The SQL Server source from its Open to its Close                        *)
(* (internal/source/mssql/mssql.go): what it asks over the pinned          *)
(* connection of PinnedConnection.tla.  The collector's goroutine          *)
(* identifies the server once, by a row of questions of which any may      *)
(* fail, and then samples; handlers of the page query in between.  Of a    *)
(* method that samples, or answers a page, there is what its query needs   *)
(* the login to read, and what it makes of an answer.                      *)
(***************************************************************************)
EXTENDS PinnedConnection, Sequences

CONSTANTS
  Collector,   \* the caller that identifies
  Probes,      \* the views of the probed capabilities, in probe's order
  Versioned    \* those not asked about on a server too old, or of another kind

VARIABLES
  grants,    \* what the login may read, and "capture" if it may create sessions
  old,       \* the server is of a kind without the Versioned views
  step,      \* Identify: the question asked next, 0 once it has failed
  found,     \* the capabilities it has found so far
  caps,      \* Source.caps, None until Identify has ended well
  want,      \* per caller: the right its query needs, or None
  told       \* what a method last reported unavailable on a server identified

identifyVars == <<step, found, caps>>
methodVars == <<want, told>>
vars == <<pinnedVars, grants, old, identifyVars, methodVars>>

Probed == {Probes[i] : i \in DOMAIN Probes}
Grantable == Probed \cup {"capture"}

ASSUME SourceAssumption ==
  /\ Collector \in Callers
  /\ Probes \in Seq(Probed) /\ Probed \cap {"identity", "marker", "facts", "capture"} = {}
  /\ None \notin Grantable /\ \A rights \in SUBSET Grantable : rights # None

\* Identify: who the server is, a label, the probes, two facts that are not
\* probed, and the permission to capture.
Questions == <<"identity", "marker">> \o Probes \o <<"facts", "capture">>

Asking == Questions[step]
Identifying == step \in DOMAIN Questions
Skipped == Identifying /\ old /\ Asking \in Versioned

SourceInit ==
  /\ PinnedInit
  /\ old \in BOOLEAN
  /\ grants \in SUBSET Grantable /\ (old => grants \cap Versioned = {})
  /\ step = 1 /\ found = {} /\ caps = None
  /\ want = [c \in Callers |-> None] /\ told = None

-----------------------------------------------------------------------------
\* Mutant: a session the server has ended has answered, too.
AbsentOrAborted(a) == a \in {"refused", "aborted"}

\* isCapabilityAbsent: the server has answered, and the answer is no.  (A
\* permission asked for by name and not held is the same answer here.)
IsCapabilityAbsent(a) == a = "refused"

\* Identify goes without what it could not learn of these.
Tolerated == {"marker", "facts", "capture"}

Needs(c, right) == want' = [want EXCEPT ![c] = right]

Ask ==
  /\ Identifying /\ ~Skipped /\ Call(Collector)
  /\ Needs(Collector, IF Asking \in Grantable THEN Asking ELSE None)
  /\ UNCHANGED <<grants, old, identifyVars, told>>

Skip ==
  /\ Skipped /\ pc[Collector] = "out" /\ opened
  /\ step' = step + 1
  /\ UNCHANGED <<pinnedVars, grants, old, found, caps, methodVars>>

\* What is probed ends Identify with any answer that is neither a yes nor a
\* no; labels, facts and the permission to capture are gone without.
Learn ==
  /\ Identifying /\ Done(Collector)
  /\ LET a == answer[Collector]
         goesOn == \/ a = "ok"
                   \/ Asking \in Probed /\ IsCapabilityAbsent(a)
                   \/ Asking \in Tolerated
     IN  /\ step' = IF goesOn THEN step + 1 ELSE 0
         /\ found' = found \cup (IF a = "ok" THEN {Asking} \cap Grantable ELSE {})
  /\ Needs(Collector, None)
  /\ UNCHANGED <<grants, old, caps, told>>

\* What was found is the source's, under its lock.
Publish ==
  /\ step = Len(Questions) + 1 /\ caps = None /\ mu = None
  /\ caps' = found
  /\ UNCHANGED <<pinnedVars, grants, old, step, found, methodVars>>

-----------------------------------------------------------------------------
\* A method is called for what `right` lets it read.  On the collector's
\* goroutine that is after Identify, whatever became of it.
Free(c) == pc[c] = "out" /\ opened /\ (c = Collector => step = 0 \/ caps # None)

Unavailable(right) == told' = IF caps = None THEN told ELSE right

\* snapshot, and the gate: it does not ask for what Identify has not found.
Has(right) == caps # None /\ right \in caps

Gated(c, right) ==
  /\ Free(c) /\ ~Has(right)
  /\ Unavailable(right)
  /\ UNCHANGED <<pinnedVars, grants, old, identifyVars, want>>

Method(c, right) ==
  /\ Free(c)
  /\ right = None \/ Has(right)
  /\ Call(c) /\ Needs(c, right)
  /\ UNCHANGED <<grants, old, identifyVars, told>>

\* A refusal leaves a method's figures unavailable, or is handed on as an
\* error, which any other error is.
Returned(c) ==
  /\ ~(c = Collector /\ Identifying)
  /\ Done(c)
  /\ \/ UNCHANGED told
     \/ IsCapabilityAbsent(answer[c]) /\ want[c] # None /\ Unavailable(want[c])
  /\ Needs(c, None)
  /\ UNCHANGED <<grants, old, identifyVars>>

\* What a query goes through; a server that answers one that needs a right
\* does so by whether the login has it.
Queries(c) ==
  /\ Query(c)
  /\ pc[c] = "asking" /\ want[c] # None =>
       /\ answer'[c] = "ok" => want[c] \in grants
       /\ answer'[c] = "refused" => want[c] \notin grants
  /\ UNCHANGED <<grants, old, identifyVars, methodVars>>

Connection ==
  /\ Ping \/ Query(Main) \/ OpenReturns \/ Close \/ Cut \/ Down \/ Up
  /\ UNCHANGED <<grants, old, identifyVars, methodVars>>

SourceNext ==
  \/ Ask \/ Skip \/ Learn \/ Publish
  \/ \E c \in Callers :
       \/ \E right \in Probed : Gated(c, right)
       \/ \E right \in Probed \cup {None} : Method(c, right)
       \/ Returned(c) \/ Queries(c)
  \/ Connection

\* The driver's keepalive and its dialling timeout end what a lost server
\* leaves hanging, and sync.Mutex lets nobody wait for ever.
SourceSpec ==
  /\ SourceInit /\ [][SourceNext]_vars
  /\ \A c \in Callers : SF_vars(Lock(c) /\ Queries(c)) /\ WF_vars(Queries(c))

-----------------------------------------------------------------------------
\* However a connection dies, and whoever finds it dead: every query returns,
\* and none waits for ever on a connection that was leased and forgotten.
QueriesGoOn == \A c \in Callers : pc[c] = "waiting" ~> pc[c] = "answered"

\* A connection that breaks is never taken for a login without a right.  The
\* capabilities published are those the login has; only the permission to
\* capture may be missed, never made up.  And once they are, what a method
\* reports as unavailable is what the login may not read.
BreaksAreNotRefusals ==
  caps # None =>
    /\ caps \cap Probed = grants \cap Probed /\ caps \subseteq grants
    /\ told \notin grants

=============================================================================

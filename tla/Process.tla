------------------------------ MODULE Process ------------------------------
(***************************************************************************)
(* cmd/sqltop from its start to its end: the configuration is loaded, the  *)
(* socket bound, and either the configured instance is opened or the       *)
(* connect page asks for one (internal/web/connect.go); then the monitor   *)
(* serves on the same socket.  It can be interrupted or die anywhere, and  *)
(* be started again on the files it left.                                  *)
(*                                                                         *)
(* A page is a browser tab: its connection waits in the kernel's queue     *)
(* until whoever serves accepts it.  On the connect page it submits the    *)
(* form, on the monitor it saves layouts (Layout.tla).                     *)
(***************************************************************************)
EXTENDS Layout, DotEnv, FiniteSets

CONSTANTS
  Setups,     \* what may be found at first: [env, names]
  Typed,      \* the connection strings a form may give
  Mentioning, \* the keys whose names have SQLTOP_CONN in them
  MaxStarts   \* bound: how often the process is started

Conn == "SQLTOP_CONN"

ASSUME EnvAssumption ==
  /\ \A found \in Setups : found.env \in Seq(Line \cup {Other})
  /\ Conn \in Mentioning /\ Mentioning \subseteq Keys /\ Typed \subseteq Values

VARIABLES
  phase,   \* "off", "opening", "asking", "handover", "monitor", "leaving"
  starts,  \* bounded
  env,     \* the lines of .env
  names,   \* the key cfg.Instances[0].DSN names, or None without an instance
  page,    \* per tab: "away", "queued", "served"
  form,    \* per tab: where its POST /api/connect is: "no", "posted", "opening", "opened"
  busy,    \* connectPhase.busy: the tab whose attempt holds it
  connected,
  src,     \* main's src: whose login it goes on with
  logins,  \* the logins open on the server, by who opened them
  cleared, \* whether the deadline handoff.Close set is lifted
  told,    \* history: the connection string a page was told is saved
  rest     \* history: what .env defined at first for the other keys

askVars == <<page, form, busy, connected, src, logins, told, rest>>
mainVars == <<phase, starts, env, names, cleared>>
vars == <<layoutVars, askVars, mainVars>>

\* What main opens: the instance's connection string, expanded, or SQLTOP_CONN.
DSN == Load(env, IF names = None THEN Conn ELSE names)

\* saveReachesTheConnection: the instance's connection string is searched for
\* SQLTOP_CONN, so that ${SQLTOP_CONN_PROD} has it too.
SaveReaches == names \in {None} \cup Mentioning

ProcessInit ==
  /\ LayoutInit
  /\ phase = "off" /\ starts = 0
  /\ \E found \in Setups : env = found.env /\ names = found.names
  /\ page = [t \in Tabs |-> "away"]
  /\ form = [t \in Tabs |-> "no"]
  /\ busy = None /\ connected = FALSE /\ src = None /\ logins = {}
  /\ cleared = TRUE /\ told = None
  /\ rest = [k \in Keys \ {Conn} |-> Load(env, k)]

-----------------------------------------------------------------------------
(* main.                                                                   *)

Start ==
  /\ phase = "off" /\ starts < MaxStarts
  /\ starts' = starts + 1
  /\ Loaded
  /\ phase' = IF DSN # "" THEN "opening" ELSE "asking"
  /\ UNCHANGED <<askVars, env, names, cleared>>

\* sqltop -write-config, between two runs.
WriteItOut ==
  /\ phase = "off" /\ starts < MaxStarts
  /\ WriteConfig
  /\ UNCHANGED <<askVars, mainVars>>

\* Source.Open: the login reaches the server, and what is answered then, in
\* time or not, decides whether it stays.
LoginReaches(who) == logins' = logins \cup {who}

Closed(who) == logins' = logins \ {who}

MainLogin ==
  /\ phase = "opening" /\ "main" \notin logins
  /\ LoginReaches("main")
  /\ UNCHANGED <<layoutVars, mainVars, page, form, busy, connected, src, told, rest>>

MainOpened ==
  /\ phase = "opening" /\ "main" \in logins
  /\ src' = "main" /\ phase' = "monitor"
  /\ UNCHANGED <<layoutVars, page, form, busy, connected, logins, told, rest, starts, env, names, cleared>>

\* gracefulShutdown: the connections accepted are closed, after two seconds at
\* most; a handler that is still at it goes on without one.
Dropped == page' = [t \in Tabs |-> IF page[t] = "served" THEN "away" ELSE page[t]]

\* AskConnection once an attempt has succeeded: Shutdown stops accepting by
\* putting the listener's deadline in the past, and closes the connections the
\* connect page had accepted.  What arrives now waits.
Handover ==
  /\ phase = "asking" /\ connected
  /\ phase' = "handover" /\ cleared' = FALSE
  /\ UNCHANGED <<layoutVars, askVars, starts, env, names>>

\* Mutant of Resume: the deadline stays in the past.
ResumeLate ==
  /\ phase = "handover"
  /\ phase' = "monitor"
  /\ Dropped
  /\ UNCHANGED <<layoutVars, form, busy, connected, src, logins, told, rest, starts, env, names, cleared>>

\* Serve has returned: the deadline is lifted and the monitor serves.
Resume ==
  /\ phase = "handover"
  /\ phase' = "monitor" /\ cleared' = TRUE
  /\ Dropped
  /\ UNCHANGED <<layoutVars, form, busy, connected, src, logins, told, rest, starts, env, names>>

\* Ctrl-C: whoever serves stops accepting for good.
Interrupt ==
  /\ phase \notin {"off", "leaving"}
  /\ phase' = "leaving"
  /\ Dropped
  /\ UNCHANGED <<layoutVars, form, busy, connected, src, logins, told, rest, starts, env, names, cleared>>

\* The process is gone, after that or by dying: its sockets and its logins are
\* closed, and an arrival that still waited is refused.
Gone ==
  /\ phase # "off"
  /\ phase' = "off" /\ cleared' = TRUE
  /\ Unloaded
  /\ page' = [t \in Tabs |-> "away"]
  /\ form' = [t \in Tabs |-> "no"]
  /\ busy' = None /\ connected' = FALSE /\ src' = None /\ logins' = {}
  /\ UNCHANGED <<told, rest, starts, env, names>>

Leave == phase = "leaving" /\ Gone

\* log.Fatal when the configured instance does not open.
MainFails == phase = "opening" /\ Gone

-----------------------------------------------------------------------------
(* The pages.                                                              *)

Arrive(t) ==
  /\ phase \notin {"off", "leaving"} /\ page[t] = "away"
  /\ page' = [page EXCEPT ![t] = "queued"]
  /\ UNCHANGED <<layoutVars, mainVars, form, busy, connected, src, logins, told, rest>>

\* http.Server.Serve; the listener it is given refuses while its deadline is past.
Accept(t) ==
  /\ phase \in {"asking", "monitor"} /\ cleared
  /\ page[t] = "queued"
  /\ page' = [page EXCEPT ![t] = "served"]
  /\ UNCHANGED <<layoutVars, mainVars, form, busy, connected, src, logins, told, rest>>

\* A tab is closed or reloaded; a request it made is not undone.
Close(t) ==
  /\ page[t] = "served"
  /\ page' = [page EXCEPT ![t] = "away"]
  /\ UNCHANGED <<layoutVars, mainVars, form, busy, connected, src, logins, told, rest>>

Submit(t) ==
  /\ phase = "asking" /\ page[t] = "served" /\ form[t] = "no"
  /\ form' = [form EXCEPT ![t] = "posted"]
  /\ UNCHANGED <<layoutVars, mainVars, page, busy, connected, src, logins, told, rest>>

\* Mutant of Refuses: a second success is not looked for.
RefusesOnlyWhileBusy == busy # None

\* connectPhase.attempt: busy is tried, then connected looked at under it.
Refuses == busy # None \/ connected

Conflict(t) ==
  /\ form[t] = "posted" /\ Refuses
  /\ form' = [form EXCEPT ![t] = "no"]
  /\ UNCHANGED <<layoutVars, mainVars, page, busy, connected, src, logins, told, rest>>

Attempt(t) ==
  /\ form[t] = "posted" /\ ~Refuses
  /\ busy' = t
  /\ form' = [form EXCEPT ![t] = "opening"]
  /\ UNCHANGED <<layoutVars, mainVars, page, connected, src, logins, told, rest>>

FormLogin(t) ==
  /\ form[t] = "opening" /\ t \notin logins
  /\ LoginReaches(t)
  /\ UNCHANGED <<layoutVars, mainVars, page, form, busy, connected, src, told, rest>>

\* Refused, unanswered within thirty seconds, or given up by the page: an
\* answer that comes too late finds the pool closed.
FormFails(t) ==
  /\ form[t] = "opening"
  /\ Closed(t)
  /\ busy' = None
  /\ form' = [form EXCEPT ![t] = "no"]
  /\ UNCHANGED <<layoutVars, mainVars, page, connected, src, told, rest>>

FormOpened(t) ==
  /\ form[t] = "opening" /\ t \in logins
  /\ src' = t
  /\ form' = [form EXCEPT ![t] = "opened"]
  /\ UNCHANGED <<layoutVars, mainVars, page, busy, connected, logins, told, rest>>

\* The connection string is saved if that was asked and is of any use, which
\* may fail; then the page is told, and main.
FormAnswered(t, value) ==
  /\ form[t] = "opened"
  /\ \/ UNCHANGED <<env, told>>
     \/ /\ SaveReaches
        /\ env' = Set(env, Conn, value) /\ told' = value
  /\ connected' = TRUE /\ busy' = None
  /\ form' = [form EXCEPT ![t] = "no"]
  /\ UNCHANGED <<layoutVars, phase, starts, names, cleared, page, src, logins, rest>>

\* The monitor's handlers; those begun go on until the process is gone.
SaveLayout(t) ==
  /\ \/ phase = "monitor" /\ page[t] = "served" /\ Post(t)
     \/ Handler(t)
  /\ UNCHANGED <<askVars, mainVars>>

Form(t) ==
  \/ Conflict(t) \/ Attempt(t) \/ FormLogin(t) \/ FormFails(t) \/ FormOpened(t)
  \/ \E value \in Typed : FormAnswered(t, value)

ProcessNext ==
  \/ Start \/ WriteItOut \/ MainLogin \/ MainOpened \/ MainFails
  \/ Handover \/ Resume \/ Interrupt \/ Leave \/ Gone
  \/ \E t \in Tabs :
       Arrive(t) \/ Accept(t) \/ Close(t) \/ Submit(t) \/ Form(t) \/ SaveLayout(t)

ProcessSpec ==
  /\ ProcessInit /\ [][ProcessNext]_vars
  /\ WF_vars(Handover \/ Resume)
  /\ WF_vars(Leave)
  /\ WF_vars(MainLogin \/ MainOpened \/ MainFails)
  /\ \A t \in Tabs : WF_vars(Accept(t))

-----------------------------------------------------------------------------
\* "So the server sees one login rather than two": whatever forms are posted
\* at once, abandoned or answered too late, there is never a second login, and
\* the monitor goes on with the one there is.
OneLogin ==
  /\ Cardinality(logins) <= 1
  /\ phase = "monitor" => logins = {src}

\* A connection string the page reported as saved is the one every later start
\* opens, whatever the file held before, except where the instance names another
\* variable with SQLTOP_CONN in its name: then it is what SQLTOP_CONN reads as,
\* and no start looks at it.  The file still defines the other keys as it did.
SavedIsRead ==
  /\ told # None => /\ Load(env, Conn) = told
                    /\ DSN = told \/ names \in Mentioning \ {Conn}
  /\ \A k \in Keys \ {Conn} : Load(env, k) = rest[k]

\* A page that arrives while the connect page hands over to the monitor is
\* served by one of them; only a process that ends leaves it unanswered.
ArrivalsAreServed == \A t \in Tabs : page[t] = "queued" ~> page[t] # "queued"

=============================================================================

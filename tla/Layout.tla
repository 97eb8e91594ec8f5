------------------------------- MODULE Layout -------------------------------
(***************************************************************************)
(* The saved layout: sqltop.yaml, what internal/config makes of it, and    *)
(* the endpoint that rewrites it (internal/web/layout.go).                 *)
(*                                                                         *)
(* A file may be partial and hand-written.  What it does not say is taken  *)
(* from the catalogue; a tab saves one view at a time, whole, and the file *)
(* is rewritten from the configuration in memory.  Widths and titles are   *)
(* left out; so is what a save never changes (tiers, budget, instances).   *)
(***************************************************************************)
EXTENDS Positions, SequencesExt

CONSTANTS
  Views,
  Catalogue,  \* the columns of a view, in order: [field, show]
  Groups,     \* the groups of the dashboard, in order
  Figures,    \* the figures of a group
  Files,      \* what sqltop.yaml may hold at first: [views, dash]
  Tabs,       \* open pages
  Posts,      \* the column lists a page may post: every column of a view
  MaxPosts,   \* bound: how many layouts are posted
  None

Fields(columns) == {columns[i].field : i \in DOMAIN columns}

Distinct(list, key) == \A i, j \in DOMAIN list : list[i][key] = list[j][key] => i = j

\* What sqltop.yaml may say, and the lists that leave nothing unsaid.
SaidColumn == [field : STRING, show : {"on", "off", "unsaid"}]
SaidGroup == [group : STRING, folded : BOOLEAN, off : SUBSET STRING]
Config == [views : [Views -> Seq(SaidColumn)], dash : Seq(SaidGroup)]

Whole(columns) ==
  /\ columns \in Seq([field : STRING, show : {"on", "off"}])
  /\ Distinct(columns, "field") /\ Fields(columns) = Fields(Catalogue)

ASSUME LayoutAssumption ==
  /\ None \notin Tabs /\ None \notin Config
  /\ Whole(Catalogue) /\ \A columns \in Posts : Whole(columns)
  /\ Groups \in Seq(STRING) /\ \A i, j \in DOMAIN Groups : Groups[i] = Groups[j] => i = j
  /\ Files \subseteq Config

VARIABLES
  file,   \* sqltop.yaml as it can be read back, or None when it cannot
  cfg,    \* Server.cfg, or None while nothing serves
  saver,  \* who holds saveMu
  stage,  \* per tab: where its POST /api/layout is
  post,   \* per tab: the view and columns it posted
  posts,  \* bounded: how many were posted
  draft,  \* per tab: the handler's own copy of the configuration
  last,   \* history, per view: the columns last saved, or those found at first
  tiles   \* history: the dashboard found at first

saveVars == <<saver, stage, post, posts, draft>>
layoutVars == <<file, cfg, saveVars, last, tiles>>

-----------------------------------------------------------------------------
(* What a configuration means.                                             *)

\* The positions of a list that are the first with what they have under a key.
Firsts(list, key) ==
  {i \in DOMAIN list : \A j \in 1 .. i - 1 : list[j][key] # list[i][key]}

\* A column the file mentions without a switch keeps the catalogue's.
Switched(c) ==
  IF c.show # "unsaid" THEN c
  ELSE [c EXCEPT !.show = (CHOOSE d \in ToSet(Catalogue) : d.field = c.field).show]

\* Config.Columns: the file's order first, the catalogue for what it does not
\* mention.
Columns(said) ==
  LET known   == Picked(said, {i \in Firsts(said, "field") : said[i].field \in Fields(Catalogue)})
      missing == Picked(Catalogue, {i \in DOMAIN Catalogue : Catalogue[i].field \notin Fields(known)})
  IN  [i \in DOMAIN known |-> Switched(known[i])] \o missing

\* What the file says of a group, the last time it names it.
Entry(said, g) ==
  LET named == {i \in DOMAIN said : said[i].group = g}
  IN  IF named = {} THEN [group |-> g, folded |-> FALSE, off |-> {}] ELSE said[Max(named)]

\* Config.Dashboard: groups in the file's order, then the catalogue's; of a
\* group the file names twice the last entry counts.
Dashboard(said) ==
  LET known   == Picked(said, {i \in Firsts(said, "group") : said[i].group \in ToSet(Groups)})
      missing == Picked(Groups, {i \in DOMAIN Groups :
                                   \A j \in DOMAIN known : known[j].group # Groups[i]})
  IN  [i \in DOMAIN known |-> Entry(said, known[i].group)]
        \o [i \in DOMAIN missing |-> Entry(said, missing[i])]

\* resolveDashboard: the tiles drawn; a group with none is not drawn at all.
Tiles(said) ==
  LET groups == Dashboard(said)
      drawn  == Picked(groups, {i \in DOMAIN groups : Figures \ groups[i].off # {}})
  IN  [i \in DOMAIN drawn |->
         [group |-> drawn[i].group, folded |-> drawn[i].folded,
          figures |-> Figures \ drawn[i].off]]

\* resolveAllGrids: what a page is sent with its first snapshot.
Grid(config) == [v \in Views |-> Columns(config.views[v])]

-----------------------------------------------------------------------------
(* The endpoint.                                                           *)

LayoutInit ==
  /\ file \in Files
  /\ cfg = None /\ saver = None
  /\ stage = [t \in Tabs |-> "idle"]
  /\ post = [t \in Tabs |-> None]
  /\ posts = 0
  /\ draft = [t \in Tabs |-> None]
  /\ last = Grid(file) /\ tiles = Tiles(file.dash)

\* saveLayout: a page posts every column of the view it shows, in its order.
Post(t) ==
  /\ stage[t] = "idle" /\ posts < MaxPosts
  /\ posts' = posts + 1
  /\ \E v \in Views, columns \in Posts :
       post' = [post EXCEPT ![t] = [view |-> v, columns |-> columns]]
  /\ stage' = [stage EXCEPT ![t] = "posted"]
  /\ UNCHANGED <<file, cfg, saver, draft, last, tiles>>

\* The copy the handler edits: one view replaced, everything else as it was.
Edited(config, t) == [config EXCEPT !.views[post[t].view] = post[t].columns]

\* Mutant of Save: the configuration is read before saveMu is taken.
SaveOfAnOldCopy(t) ==
  \/ /\ stage[t] = "posted" /\ draft[t] = None
     /\ draft' = [draft EXCEPT ![t] = Edited(cfg, t)]
     /\ UNCHANGED <<file, cfg, saver, stage, post, posts, last, tiles>>
  \/ /\ stage[t] = "posted" /\ draft[t] # None /\ saver = None
     /\ saver' = t
     /\ stage' = [stage EXCEPT ![t] = "saving"]
     /\ UNCHANGED <<file, cfg, draft, post, posts, last, tiles>>

\* Under saveMu: the configuration is cloned, edited and validated.
Save(t) ==
  /\ stage[t] = "posted" /\ saver = None
  /\ saver' = t
  /\ draft' = [draft EXCEPT ![t] = Edited(cfg, t)]
  /\ stage' = [stage EXCEPT ![t] = "saving"]
  /\ UNCHANGED <<file, cfg, post, posts, last, tiles>>

\* The handler answers and lets go of saveMu.
Answered(t) ==
  /\ saver' = None
  /\ stage' = [stage EXCEPT ![t] = "idle"]
  /\ post' = [post EXCEPT ![t] = None]
  /\ draft' = [draft EXCEPT ![t] = None]
  /\ UNCHANGED <<posts, tiles>>

\* The temporary file could not be made, written or renamed: the file and the
\* configuration stay as they were, and the page is told.
SaveFails(t) ==
  /\ stage[t] = "saving"
  /\ Answered(t)
  /\ UNCHANGED <<file, cfg, last>>

\* The temporary file, complete, takes the place of the old one.
Rename(t) ==
  /\ stage[t] = "saving"
  /\ file' = draft[t]
  /\ last' = [last EXCEPT ![post[t].view] = post[t].columns]
  /\ stage' = [stage EXCEPT ![t] = "saved"]
  /\ UNCHANGED <<cfg, saver, post, posts, draft, tiles>>

\* The server serves what it has saved.
Publish(t) ==
  /\ stage[t] = "saved"
  /\ cfg' = draft[t]
  /\ Answered(t)
  /\ UNCHANGED <<file, last>>

Handler(t) == Save(t) \/ SaveFails(t) \/ Rename(t) \/ Publish(t)

-----------------------------------------------------------------------------
(* The process around it.                                                  *)

\* Load and WithConfig: what the file says over the defaults.
Loaded ==
  /\ cfg' = file
  /\ UNCHANGED <<file, saveVars, last, tiles>>

\* The process ends, in the middle of a save or not, and its pages with it.
Unloaded ==
  /\ cfg' = None /\ saver' = None
  /\ stage' = [t \in Tabs |-> "idle"]
  /\ post' = [t \in Tabs |-> None]
  /\ draft' = [t \in Tabs |-> None]
  /\ UNCHANGED <<file, posts, last, tiles>>

\* sqltop -write-config: the file with everything it leaves unsaid written out.
WriteConfig ==
  /\ file' = [views |-> Grid(file), dash |-> Dashboard(file.dash)]
  /\ UNCHANGED <<cfg, saveVars, last, tiles>>

-----------------------------------------------------------------------------
\* A layout once saved is what every later start and every new page shows,
\* until that view is saved again: not undone by another tab's save of another
\* view, by a save that fails, by the process ending inside a save, nor by
\* writing the configuration out; and the file can always be read back.
NoSaveIsUndone ==
  /\ file # None
  /\ Grid(file) = last /\ Tiles(file.dash) = tiles
  /\ cfg # None /\ saver = None => Grid(cfg) = last

=============================================================================

------------------------------- MODULE DotEnv -------------------------------
(***************************************************************************)
(* The .env file (internal/dotenv): a sequence of lines, each a definition *)
(* [key, value] or Other, a line that defines nothing: blank, a comment or *)
(* one without an equals sign.  The environment the process was started    *)
(* with defines none of the keys.                                          *)
(***************************************************************************)
EXTENDS Positions, SequencesExt

CONSTANTS Keys, Values, Other

Line == [key : Keys, value : Values]

ASSUME NoLine == Other \notin Line

\* read: the lines that define a key.
Definitions(lines, key) == {i \in DOMAIN lines : lines[i] # Other /\ lines[i].key = key}

\* Load: the first definition of a key counts, since it is then taken.  A key
\* the file does not define reads as "", and so does one defined as nothing.
Load(lines, key) ==
  LET own == Definitions(lines, key)
  IN  IF own = {} THEN "" ELSE lines[Min(own)].value

\* Mutant of Set: the definition is added at the end, whatever is before it.
SetAtTheEnd(lines, key, value) == Append(lines, [key |-> key, value |-> value])

\* Set: the first definition of the key is replaced and any later one dropped;
\* every other line is kept.
Set(lines, key, value) ==
  LET def == [key |-> key, value |-> value]
      own == Definitions(lines, key)
  IN  IF own = {} THEN Append(lines, def)
      ELSE Picked([lines EXCEPT ![Min(own)] = def], DOMAIN lines \ (own \ {Min(own)}))

=============================================================================

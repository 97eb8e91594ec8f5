-------------------------- MODULE MCServerFigures --------------------------
EXTENDS ServerFigures, TLC

MCBaseOf == "hits" :> "lookups"
MCReadings == {Counters, {"lookups"}}

=============================================================================

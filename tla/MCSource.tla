------------------------------ MODULE MCSource ------------------------------
EXTENDS Source

MCProbes == <<"wide", "waits">>

=============================================================================

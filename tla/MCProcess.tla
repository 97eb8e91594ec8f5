----------------------------- MODULE MCProcess -----------------------------
EXTENDS Process

Column(field, show) == [field |-> field, show |-> show]

MCCatalogue == <<Column("a", "on"), Column("b", "off")>>
MCGroups == <<"cpu", "io">>

\* A file written by hand: an unknown column, one without a switch, a view
\* left out, an unknown group, and a group named twice.
MCFiles ==
  LET Group(g, folded, off) == [group |-> g, folded |-> folded, off |-> off]
  IN  {[views |-> ("requests" :> <<Column("z", "on"), Column("b", "unsaid")>>) @@ ("locks" :> <<>>),
        dash |-> <<Group("io", TRUE, {"x"}), Group("old", FALSE, {}), Group("io", FALSE, {"x", "y"})>>]}

MCPosts ==
  {<<Column("b", "on"), Column("a", "off")>>, <<Column("a", "on"), Column("b", "on")>>}

\* An instance whose key nothing defines, one whose key only looks like
\* SQLTOP_CONN; and a file whose first definition,
\* left empty, hides a second, with an instance that does not need it and
\* without one.
MCSetups ==
  LET Def(key, value) == [key |-> key, value |-> value]
      hidden == <<Other, Def(Conn, ""), Def("PROD", "theirs"), Def(Conn, "old")>>
  IN  {[env |-> <<>>, names |-> "PROD"], [env |-> <<>>, names |-> "SQLTOP_CONN_PROD"],
       [env |-> hidden, names |-> "PROD"], [env |-> hidden, names |-> None]}

=============================================================================

----------------------------- MODULE MCFrontend -----------------------------
(***************************************************************************)
(* Statements of every kind, with lists of one to three items, and pieces  *)
(* of input around them: mistakes, comments, commands for the shell,       *)
(* statements over two lines.  Two pieces in one read or in two, and three *)
(* of those that change how the next is read.                              *)
(***************************************************************************)
EXTENDS Frontend

MCNames   == {"a", "b", "c", "k"}
MCNumbers == {"1", "2", "3"}
MCQuoted  == {"'s'"}

\* More nodes than the pool of this instance has.
Long == <<"insert", "into", "a", "values", "(", "1", ",", "2", ")", ",", "(", "3", ",", "1", ")", ",", "(", "2", ")", ";">>

MCStatements ==
  {<<"create", "database", "a", ";">>, <<"drop", "database", "a", ";">>, <<"use", "a", ";">>,
   <<"show", "tables", ";">>, <<"desc", "a", ";">>, <<"drop", "table", "a", ";">>,
   <<"create", "table", "a", "(", "k", "b", "(", "1", ")", "not", "null", ",", "c", "b", "(", "2", ")", ",",
     "primary", "key", "(", "k", ")", ")", ";">>,
   <<"create", "index", "a", "(", "k", ")", ";">>, <<"drop", "index", "a", "(", "k", ")", ";">>,
   <<"load", "a", "(", "'s'", ")", ";">>, <<"set", "a", "=", "'s'", ";">>,
   <<"help", ";">>, <<"help", "a", ";">>, <<"print", "a", ";">>,
   <<"select", "*", "from", "a", ";">>,
   <<"select", "a", ".", "k", ",", "c", "from", "a", ",", "b", "where", "a", ".", "k", "=", "b", ".", "k",
     "and", "c", "<", "2", "and", "b", ".", "c", "is", "not", "null", ";">>,
   <<"insert", "into", "a", "values", "(", "1", ",", "null", ",", "'s'", ")", ",", "(", "2", ")", ";">>,
   Long,
   <<"delete", "from", "a", ";">>, <<"delete", "from", "a", "where", "k", "is", "null", "and", "c", "<>", "1", ";">>,
   <<"update", "a", "set", "c", "=", "k", "where", "k", "=", "1", ";">>,
   <<"update", "a", "set", "c", "=", "3", ";">>}

\* What changes how the rest is read.
Turns ==
  {<<"drop", "a", ";">>, <<"select", "a", "from", "toolong", ";">>, <<"insert", "into", "a", "values", "(", "1", ",", ")", ";">>,
   <<"drop", "table", Eol>>, <<"a", ";">>, <<"/*", "a", "*", "*/">>, <<"/*", Eol>>, <<"*/">>,
   <<"!", "a", "1", Eol>>, <<"!", Eol>>, <<"drop", "!", "a", Eol>>,
   <<"illegal">>, <<"unclosed", "1", Eol>>, <<"exit", ";">>, <<"exit">>, <<";">>}

Some == {<<"use", "a", ";">>, <<"drop", "table", "a", ";">>}

Pieces == MCStatements \cup Turns

Line(p) == Append(p, Eol)

MCInputs ==
  {<<Line(p \o q)>> : p, q \in Pieces}
    \cup {<<Line(p), Line(q)>> : p, q \in Pieces}
    \cup {<<Line(p), Line(q), Line(r)>> : p, q \in Turns, r \in Some}
    \cup {<<Line(p \o q), Line(r)>> : p \in Turns, q \in Turns, r \in Some}
=============================================================================

----------------------------- MODULE ParseTree ------------------------------
(***************************************************************************)
(* The grammar of the statements and the parse trees its actions build     *)
(* (parser.y, nodes.cpp).                                                  *)
(*                                                                         *)
(* A production is predicted from the next token and written out as the    *)
(* symbols that follow; an action of the grammar stands at its end as the  *)
(* name of what it makes.  The generated parser reduces instead of         *)
(* predicting, in the same order, as the lists recur on their right: an    *)
(* item is made before the rest of its list, the list's own node after.    *)
(*                                                                         *)
(* A node is a kind and its fields; a node in a field is its number in the *)
(* pool, 0 is a null node and "" a null string.                            *)
(***************************************************************************)
EXTENDS Integers, Sequences, FiniteSets, SequencesExt

\* What a statement begins with, and what follows.
Commands ==
  {<<"command", ";", <<"nothing">>>>,
   <<"command", "create", <<"create", "creation">>>>,
   <<"creation", "database", <<"database", "T_STRING", "CREATEDATABASE">>>>,
   <<"creation", "table", <<"table", "T_STRING", "(", "attrtypes", ")", "CREATETABLE">>>>,
   <<"creation", "index", <<"index", "T_STRING", "(", "T_STRING", ")", "CREATEINDEX">>>>,
   <<"command", "drop", <<"drop", "dropping">>>>,
   <<"dropping", "database", <<"database", "T_STRING", "DROPDATABASE">>>>,
   <<"dropping", "table", <<"table", "T_STRING", "DROPTABLE">>>>,
   <<"dropping", "index", <<"index", "T_STRING", "(", "T_STRING", ")", "DROPINDEX">>>>,
   <<"command", "use", <<"use", "T_STRING", "USEDATABASE">>>>,
   <<"command", "show", <<"show", "tables", "SHOWTABLES">>>>,
   <<"command", "desc", <<"desc", "T_STRING", "DESCTABLE">>>>,
   <<"command", "load", <<"load", "T_STRING", "(", "T_QSTRING", ")", "LOAD">>>>,
   <<"command", "set", <<"set", "T_STRING", "=", "T_QSTRING", "SET">>>>,
   <<"command", "help", <<"help", "opt_relname", "HELP">>>>,
   <<"opt_relname", "T_STRING", <<"T_STRING">>>>,
   <<"opt_relname", "any", <<"unnamed">>>>,
   <<"command", "print", <<"print", "T_STRING", "PRINT">>>>,
   <<"command", "exit", <<"exit", "EXIT">>>>}

Queries ==
  {<<"command", "select", <<"select", "selected", "from", "relations", "opt_where", "QUERY">>>>,
   <<"command", "insert", <<"insert", "into", "T_STRING", "values", "tuples", "INSERT">>>>,
   <<"command", "delete", <<"delete", "from", "T_STRING", "opt_where", "DELETE">>>>,
   <<"command", "update", <<"update", "T_STRING", "set", "relattr", "=", "relattr_or_value",
                            "opt_where", "UPDATE">>>>,
   <<"opt_where", "where", <<"where", "conditions">>>>,
   <<"opt_where", "any", <<"nothing">>>>}

Parts ==
  {<<"selected", "*", <<"*", "star", "ATTR", "nothing", "LIST">>>>,
   <<"selected", "T_STRING", <<"relattr", "more_selected">>>>,
   <<"more_selected", ",", <<",", "relattr", "more_selected", "LIST">>>>,
   <<"relattr", "T_STRING", <<"T_STRING", "qualified">>>>,
   <<"qualified", ".", <<".", "T_STRING", "RELATTR">>>>,
   <<"qualified", "any", <<"ATTR">>>>,
   <<"relations", "T_STRING", <<"T_STRING", "RELATION", "more_relations">>>>,
   <<"more_relations", ",", <<",", "relations", "LIST">>>>,
   <<"attrtypes", "T_STRING", <<"T_STRING", "T_STRING", "(", "T_INT", ")", "nullable", "more_attrtypes">>>>,
   <<"attrtypes", "primary", <<"primary", "key", "(", "T_STRING", ")", "ATTRPROP", "more_attrtypes">>>>,
   <<"nullable", "not", <<"not", "null", "ATTRTYPE_NOT_NULL">>>>,
   <<"nullable", "any", <<"ATTRTYPE">>>>,
   <<"more_attrtypes", ",", <<",", "attrtypes", "LIST">>>>,
   <<"tuples", "(", <<"(", "values_", ")", "more_tuples">>>>,
   <<"more_tuples", ",", <<",", "tuples", "LIST">>>>,
   <<"values_", "T_INT", <<"value", "more_values">>>>,
   <<"values_", "T_QSTRING", <<"value", "more_values">>>>,
   <<"values_", "null", <<"null", "NULLV", "more_values">>>>,
   <<"more_values", ",", <<",", "values_", "LIST">>>>,
   <<"value", "T_INT", <<"T_INT", "VALUE">>>>,
   <<"value", "T_QSTRING", <<"T_QSTRING", "VALUE">>>>,
   <<"conditions", "T_STRING", <<"relattr", "test", "more_conditions">>>>,
   <<"more_conditions", "and", <<"and", "conditions", "LIST">>>>,
   <<"test", "=", <<"=", "EQ_OP", "relattr_or_value", "CONDITION">>>>,
   <<"test", "T_OP", <<"T_OP", "relattr_or_value", "CONDITION">>>>,
   <<"test", "is", <<"is", "nullness">>>>,
   <<"nullness", "null", <<"null", "IS_NULL">>>>,
   <<"nullness", "not", <<"not", "null", "NOT_NULL">>>>,
   <<"relattr_or_value", "T_STRING", <<"relattr", "RELATTR_OF">>>>,
   <<"relattr_or_value", "T_INT", <<"value", "VALUE_OF">>>>,
   <<"relattr_or_value", "T_QSTRING", <<"value", "VALUE_OF">>>>}
  \cup {<<m, "any", <<"nothing", "LIST">>>> :
          m \in {"more_selected", "more_relations", "more_attrtypes", "more_tuples", "more_values", "more_conditions"}}

Start ==
  {<<"start", "T_EOF", <<"T_EOF", "EOF">>>>,
   <<"start", "T_SHELL_CMD", <<"T_SHELL_CMD", "SHELL">>>>,
   <<"start", "any", <<"command", ";">>>>}

Productions == Start \cup Commands \cup Queries \cup Parts

Nonterminals == {p[1] : p \in Productions}

\* The production for a symbol and the class of the next token; none is a syntax error.
Predictions(symbol, class) ==
  LET exact == {p \in Productions : p[1] = symbol /\ p[2] = class}
  IN IF exact # {} THEN exact ELSE {p \in Productions : p[1] = symbol /\ p[2] = "any"}

\* The actions that make no node, with the value they have.
Plain == [nothing |-> 0, unnamed |-> "", star |-> "*", EQ_OP |-> "=", EXIT |-> 0, EOF |-> 0]

\* The actions that make a node, with the number of their arguments.
Arity ==
  [CREATEDATABASE |-> 1, DROPDATABASE |-> 1, USEDATABASE |-> 1, SHOWTABLES |-> 0, DESCTABLE |-> 1,
   CREATETABLE |-> 2, CREATEINDEX |-> 2, DROPTABLE |-> 1, DROPINDEX |-> 2, LOAD |-> 2, SET |-> 2,
   HELP |-> 1, PRINT |-> 1, QUERY |-> 3, INSERT |-> 2, DELETE |-> 2, UPDATE |-> 4,
   ATTR |-> 1, RELATTR |-> 2, RELATION |-> 1, ATTRTYPE |-> 3, ATTRTYPE_NOT_NULL |-> 3, ATTRPROP |-> 1,
   CONDITION |-> 3, IS_NULL |-> 1, NOT_NULL |-> 1, RELATTR_OF |-> 1, VALUE_OF |-> 1,
   VALUE |-> 1, NULLV |-> 0, LIST |-> 2]

\* Those, and the action that has a command run by the shell.
Actions == DOMAIN Plain \cup DOMAIN Arity \cup {"SHELL"}

\* The attribute of the last PRIMARY KEY among the items of a list.
Primary(nodes, list) ==
  LET last[n \in 0 .. Len(nodes)] ==
        IF n = 0 THEN ""
        ELSE LET item == nodes[nodes[n].f[1]]
                 rest == last[nodes[n].f[2]]
             IN IF rest = "" /\ item.kind = "ATTRPROP" THEN item.f[1] ELSE rest
  IN last[list]

\* Mutant of RightSides: the node that has the two sides is taken for one of them.
RightSidesWhole(nodes, n) == <<n, 0>>

\* The right hand side of a comparison: an attribute or a value, whichever is not null.
RightSides(nodes, n) == nodes[n].f

Node(nodes, action, args) ==
  CASE action = "ATTR"        -> [kind |-> "RELATTR", f |-> <<"">> \o args]
    [] action = "ATTRTYPE"    -> [kind |-> "ATTRTYPE", f |-> Append(args, 1)]
    [] action = "ATTRTYPE_NOT_NULL" -> [kind |-> "ATTRTYPE", f |-> Append(args, 0)]
    [] action = "RELATTR_OF"  -> [kind |-> "RELATTR_OR_VALUE", f |-> Append(args, 0)]
    [] action = "VALUE_OF"    -> [kind |-> "RELATTR_OR_VALUE", f |-> <<0>> \o args]
    [] action = "IS_NULL"     -> [kind |-> "CONDITION", f |-> args \o <<"is null", 0, 0>>]
    [] action = "NOT_NULL"    -> [kind |-> "CONDITION", f |-> args \o <<"is not null", 0, 0>>]
    [] action = "CONDITION"   -> [kind |-> "CONDITION", f |-> SubSeq(args, 1, 2) \o RightSides(nodes, args[3])]
    [] action = "CREATETABLE" -> [kind |-> action, f |-> Append(args, Primary(nodes, args[2]))]
    [] action = "NULLV"       -> [kind |-> "VALUE", f |-> <<"null">>]
    [] OTHER                  -> [kind |-> action, f |-> args]
=============================================================================

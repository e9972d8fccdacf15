------------------------------ MODULE Frontend ------------------------------
(***************************************************************************)
(* The front end: sqleast_parse reads a statement, parses it and has it    *)
(* executed, until EXIT or the end of the input.  The scanner takes tokens *)
(* from a buffer that each read fills (with a line of a terminal, or 8 KB  *)
(* of a file); a syntax error drops what the buffer still holds.           *)
(*                                                                         *)
(* A token is a string; Names, Numbers and Quoted are those that are no    *)
(* word of the grammar.  Blanks are left out, but for the end of a line.   *)
(***************************************************************************)
EXTENDS ParseTree

CONSTANTS Inputs,                  \* sequences of reads, which are sequences of tokens
          Names, Numbers, Quoted,  \* T_STRING, T_INT and T_QSTRING tokens
          MAXNODE,                 \* size of the node pool
          Statements               \* the statements in Inputs, with their ";"

ASSUME FrontendAssumption == MAXNODE \in Nat

Eol == "\n"

\* What yylex returns for a token; NOTOKEN, an identifier that is too long, is no symbol.
Class(t) ==
  CASE t \in Names   -> "T_STRING"
    [] t \in Numbers -> "T_INT"
    [] t \in Quoted  -> "T_QSTRING"
    [] t \in {"<", "<=", ">", ">=", "<>"} -> "T_OP"
    [] OTHER -> t

VARIABLES reads, buffer, mode,         \* the scanner: input, yy_buffer, start condition
          token,                       \* the class and text of the next token, or <<>>
          predicted, values,           \* the parser: symbols to come, values of symbols that came
          nodes, bExit, pc,            \* the node pool, the loop
          input, executed              \* history: what was typed, what was done

scanner == <<reads, buffer, mode>>
parser  == <<predicted, values, nodes>>
vars    == <<scanner, token, parser, bExit, pc, input, executed>>

Init ==
  /\ input \in Inputs /\ reads = input
  /\ buffer = <<>> /\ mode = "INITIAL" /\ token = <<>>
  /\ predicted = <<>> /\ values = <<>> /\ nodes = <<>>
  /\ bExit = FALSE /\ pc = "prompt" /\ executed = <<>>

-----------------------------------------------------------------------------
\* new_query, and yyparse begins with no token.
NewQuery ==
  /\ pc = "prompt" /\ ~bExit
  /\ nodes' = <<>> /\ values' = <<>> /\ predicted' = <<"start">>
  /\ token' = <<>>
  /\ pc' = "parse"
  /\ UNCHANGED <<scanner, bExit, input, executed>>

Leave ==
  /\ pc = "prompt" /\ bExit
  /\ pc' = "ended"
  /\ UNCHANGED <<scanner, token, parser, bExit, input, executed>>

top == predicted[1]

Predicts == pc = "parse" /\ predicted # <<>>

\* Actions stand for themselves; other symbols are compared with the next token.
Reading == Predicts /\ top \notin Actions /\ token = <<>>

\* The buffer is used up: YY_INPUT fills it, or the input is at its end.
Refill ==
  /\ Reading /\ buffer = <<>>
  /\ IF reads = <<>>
       THEN token' = <<"T_EOF", "">> /\ UNCHANGED <<reads, buffer>>
       ELSE buffer' = Head(reads) /\ reads' = Tail(reads) /\ UNCHANGED token
  /\ UNCHANGED <<mode, parser, bExit, pc, input, executed>>

\* The part of the buffer from the first end of a line on.
LineEnd == LET ends == {i \in DOMAIN buffer : buffer[i] = Eol}
           IN IF ends = {} THEN <<>> ELSE SubSeq(buffer, Min(ends), Len(buffer))

\* Ends of lines, characters that are no token and comments give none; "/*", "*/" and "!"
\* change the start condition, and a string that is not closed takes the rest of its line.
Skip ==
  /\ Reading /\ buffer # <<>>
  /\ LET t == Head(buffer) IN
     \/ /\ mode = "INITIAL" /\ t \in {Eol, "illegal", "/*", "!"}
        /\ mode' = CASE t = "/*" -> "comment" [] t = "!" -> "shell_cmd" [] OTHER -> mode
        /\ buffer' = Tail(buffer)
     \/ /\ mode = "INITIAL" /\ t = "unclosed"
        /\ buffer' = IF LineEnd = <<>> THEN <<>> ELSE Tail(LineEnd)
        /\ mode' = mode
     \/ /\ mode = "comment"
        /\ mode' = IF t = "*/" THEN "INITIAL" ELSE mode
        /\ buffer' = Tail(buffer)
     \/ /\ mode = "shell_cmd" /\ t = Eol
        /\ mode' = "INITIAL"
        /\ buffer' = Tail(buffer)
  /\ UNCHANGED <<reads, token, parser, bExit, pc, input, executed>>

\* A token of the statement, or the rest of the line for the shell.
Yylex ==
  /\ Reading /\ buffer # <<>>
  /\ LET t == Head(buffer) IN
     \/ /\ mode = "INITIAL" /\ t \notin {Eol, "illegal", "/*", "!", "unclosed"}
        /\ token' = <<Class(t), t>> /\ buffer' = Tail(buffer)
     \/ /\ mode = "shell_cmd" /\ t # Eol
        /\ token' = <<"T_SHELL_CMD", SubSeq(buffer, 1, Len(buffer) - Len(LineEnd))>>
        /\ buffer' = LineEnd
  /\ UNCHANGED <<reads, mode, parser, bExit, pc, input, executed>>

-----------------------------------------------------------------------------
Predict ==
  /\ Predicts /\ top \in Nonterminals /\ token # <<>>
  /\ \E p \in Predictions(top, token[1]) : predicted' = p[3] \o Tail(predicted)
  /\ UNCHANGED <<scanner, token, values, nodes, bExit, pc, input, executed>>

Shift ==
  /\ Predicts /\ top \notin Actions \cup Nonterminals /\ token # <<>> /\ top = token[1]
  /\ predicted' = Tail(predicted)
  /\ values' = IF top \in {"T_STRING", "T_INT", "T_QSTRING", "T_OP", "T_SHELL_CMD"}
                 THEN Append(values, token[2]) ELSE values
  /\ token' = <<>>
  /\ UNCHANGED <<scanner, nodes, bExit, pc, input, executed>>

\* Mutant of SyntaxError: the rest of the buffer is kept.
SyntaxErrorGoesOn ==
  /\ Predicts /\ top \notin Actions /\ token # <<>>
  /\ IF top \in Nonterminals THEN Predictions(top, token[1]) = {} ELSE top # token[1]
  /\ pc' = "prompt"
  /\ UNCHANGED <<scanner, token, parser, bExit, input, executed>>

\* "start: error": the token and the buffer are dropped (yyrestart), the start condition
\* stays.  There is no tree to execute.
SyntaxError ==
  /\ Predicts /\ top \notin Actions /\ token # <<>>
  /\ IF top \in Nonterminals THEN Predictions(top, token[1]) = {} ELSE top # token[1]
  /\ buffer' = <<>>
  /\ pc' = "prompt"
  /\ UNCHANGED <<reads, mode, token, parser, bExit, input, executed>>

Args(n) == SubSeq(values, Len(values) - n + 1, Len(values))

\* An action that makes a node: newnode takes the next of the pool, the process ends when
\* there is none.
MakeNode ==
  /\ Predicts /\ top \in DOMAIN Arity
  /\ IF Len(nodes) = MAXNODE
       THEN pc' = "exit(1)" /\ UNCHANGED parser
       ELSE /\ nodes' = Append(nodes, Node(nodes, top, Args(Arity[top])))
            /\ values' = Append(SubSeq(values, 1, Len(values) - Arity[top]), Len(nodes) + 1)
            /\ predicted' = Tail(predicted)
            /\ UNCHANGED pc
  /\ UNCHANGED <<scanner, token, bExit, input, executed>>

\* Mutant of PlainAction: the end of the input is no EXIT.
PlainActionOnly ==
  /\ Predicts /\ top \in DOMAIN Plain
  /\ values' = Append(values, Plain[top])
  /\ predicted' = Tail(predicted)
  /\ bExit' = (bExit \/ top = "EXIT")
  /\ UNCHANGED <<scanner, token, nodes, pc, input, executed>>

PlainAction ==
  /\ Predicts /\ top \in DOMAIN Plain
  /\ values' = Append(values, Plain[top])
  /\ predicted' = Tail(predicted)
  /\ bExit' = (bExit \/ top \in {"EXIT", "EOF"})
  /\ UNCHANGED <<scanner, token, nodes, pc, input, executed>>

\* "start: T_SHELL_CMD".
Shell ==
  /\ Predicts /\ top = "SHELL"
  /\ executed' = Append(executed, <<"!">> \o Last(values))
  /\ values' = Append(Front(values), 0)
  /\ predicted' = Tail(predicted)
  /\ UNCHANGED <<scanner, token, nodes, bExit, pc, input>>

\* A comma or, between conditions, "and".
Separated(head, tail, item) ==
  IF tail = <<>> THEN head
  ELSE head \o (IF item.kind = "CONDITION" THEN <<"and">> ELSE <<",">>) \o tail

\* A tree, read from the root the way interp does.
Text(ns, root) ==
  LET where(conditions) == IF conditions = <<>> THEN <<>> ELSE <<"where">> \o conditions
      text[n \in 0 .. Len(ns)] ==
        IF n = 0 THEN <<>> ELSE
        LET f == ns[n].f IN
        CASE ns[n].kind = "CREATEDATABASE" -> <<"create", "database", f[1]>>
          [] ns[n].kind = "DROPDATABASE"   -> <<"drop", "database", f[1]>>
          [] ns[n].kind = "USEDATABASE"    -> <<"use", f[1]>>
          [] ns[n].kind = "SHOWTABLES"     -> <<"show", "tables">>
          [] ns[n].kind = "DESCTABLE"      -> <<"desc", f[1]>>
          [] ns[n].kind = "CREATETABLE"    -> <<"create", "table", f[1], "(">> \o text[f[2]] \o <<")">>
          [] ns[n].kind = "CREATEINDEX"    -> <<"create", "index", f[1], "(", f[2], ")">>
          [] ns[n].kind = "DROPTABLE"      -> <<"drop", "table", f[1]>>
          [] ns[n].kind = "DROPINDEX"      -> <<"drop", "index", f[1], "(", f[2], ")">>
          [] ns[n].kind = "LOAD"           -> <<"load", f[1], "(", f[2], ")">>
          [] ns[n].kind = "SET"            -> <<"set", f[1], "=", f[2]>>
          [] ns[n].kind = "HELP"           -> IF f[1] = "" THEN <<"help">> ELSE <<"help", f[1]>>
          [] ns[n].kind = "PRINT"          -> <<"print", f[1]>>
          [] ns[n].kind = "QUERY"          -> <<"select">> \o text[f[1]] \o <<"from">> \o text[f[2]] \o where(text[f[3]])
          [] ns[n].kind = "INSERT"         -> <<"insert", "into", f[1], "values">> \o text[f[2]]
          [] ns[n].kind = "DELETE"         -> <<"delete", "from", f[1]>> \o where(text[f[2]])
          [] ns[n].kind = "UPDATE"         -> <<"update", f[1], "set">> \o text[f[2]] \o <<"=">> \o text[f[3]] \o where(text[f[4]])
          [] ns[n].kind = "RELATTR"        -> IF f[1] = "" THEN <<f[2]>> ELSE <<f[1], ".", f[2]>>
          [] ns[n].kind = "RELATION"       -> f
          [] ns[n].kind = "VALUE"          -> f
          [] ns[n].kind = "RELATTR_OR_VALUE" -> text[f[1]] \o text[f[2]]
          [] ns[n].kind = "ATTRTYPE"       -> <<f[1], f[2], "(", f[3], ")">> \o (IF f[4] = 0 THEN <<"not", "null">> ELSE <<>>)
          [] ns[n].kind = "ATTRPROP"       -> <<"primary", "key", "(", f[1], ")">>
          [] ns[n].kind = "CONDITION"      ->
               text[f[1]] \o (CASE f[2] = "is null"     -> <<"is", "null">>
                                [] f[2] = "is not null" -> <<"is", "not", "null">>
                                [] OTHER                -> <<f[2]>> \o text[f[3]] \o text[f[4]])
          [] ns[n].kind = "LIST" ->
               Separated(IF ns[f[1]].kind = "LIST" THEN <<"(">> \o text[f[1]] \o <<")">> ELSE text[f[1]],
                         text[f[2]], ns[f[1]])
  IN text[root]

\* YYACCEPT: interp executes the tree if there is one.
Interp ==
  /\ pc = "parse" /\ predicted = <<>>
  /\ executed' = IF values[1] = 0 THEN executed ELSE Append(executed, Text(nodes, values[1]))
  /\ pc' = "prompt"
  /\ UNCHANGED <<scanner, token, parser, bExit, input>>

Next ==
  \/ NewQuery \/ Leave
  \/ Refill \/ Skip \/ Yylex
  \/ Predict \/ Shift \/ SyntaxError \/ MakeNode \/ PlainAction \/ Shell
  \/ Interp

\* The one thread runs whenever it is not waiting for input, which is typed in the end.
Spec == Init /\ [][Next]_vars /\ WF_vars(Next)

-----------------------------------------------------------------------------
(***************************************************************************)
(* What should be executed, without a grammar: the input is read token by  *)
(* token, and a token that no statement goes on with is an error.          *)
(***************************************************************************)
Began(tokens) == \E s \in Statements : IsPrefix(tokens, s)

\* mode, the tokens of the statement so far, what was executed, whether the rest of the line,
\* the read or the input is dropped.
Blank == [mode |-> "INITIAL", typed |-> <<>>, done |-> <<>>, drop |-> "no"]

Typed(s, t) ==
  LET typed == Append(s.typed, t) IN
  CASE s.drop \in {"input", "read"} -> s
    [] s.drop = "line" -> [s EXCEPT !.drop = IF t = Eol THEN "no" ELSE "line"]
    [] s.mode = "comment" -> [s EXCEPT !.mode = IF t = "*/" THEN "INITIAL" ELSE @]
    [] s.mode = "shell" ->
         IF t = Eol THEN [s EXCEPT !.mode = "INITIAL"]
         ELSE IF s.typed # <<>> THEN [s EXCEPT !.typed = <<>>, !.drop = "read"]
         ELSE [s EXCEPT !.mode = "command", !.done = Append(@, <<"!", t>>)]
    [] s.mode = "command" ->
         IF t = Eol THEN [s EXCEPT !.mode = "INITIAL"]
         ELSE [s EXCEPT !.done = Append(Front(@), Append(Last(@), t))]
    [] t = "/*" -> [s EXCEPT !.mode = "comment"]
    [] t = "!"  -> [s EXCEPT !.mode = "shell"]
    [] t = "unclosed" -> [s EXCEPT !.drop = "line"]
    [] t \in {Eol, "illegal"} -> s
    [] typed = <<"exit">> -> [s EXCEPT !.drop = "input"]
    [] typed = <<";">> -> s
    [] typed \in Statements -> [s EXCEPT !.typed = <<>>, !.done = Append(@, Front(typed))]
    [] Began(typed) -> [s EXCEPT !.typed = typed]
    [] OTHER -> [s EXCEPT !.typed = <<>>, !.drop = "read"]

TypedRead(s, read) ==
  LET r == FoldLeft(Typed, s, read) IN [r EXCEPT !.drop = IF @ \in {"line", "read"} THEN "no" ELSE @]

Expected == FoldLeft(TypedRead, Blank, input).done

\* The statements executed are those that were typed, with every list of them in the order
\* it was typed in, although lists and nodes are made from the last to the first: all up to
\* EXIT, but for those in the part of the read that follows a syntax error, and what is left
\* of a statement by an error is not taken for another.  (After an error at a "!" the next
\* line is a command for the shell.)
ExecutedAsTyped ==
  /\ pc = "ended" => executed = Expected
  /\ pc = "exit(1)" => IsStrictPrefix(executed, Expected)

-----------------------------------------------------------------------------
(***************************************************************************)
(* What interp takes a tree to be.  It looks at the kind of a statement    *)
(* and tells ATTRPROP from ATTRTYPE; all other nodes it comes to by a      *)
(* field it reads as what the field is for.                                *)
(***************************************************************************)
StatementKinds ==
  {"CREATEDATABASE", "DROPDATABASE", "USEDATABASE", "SHOWTABLES", "DESCTABLE", "CREATETABLE",
   "CREATEINDEX", "DROPTABLE", "DROPINDEX", "LOAD", "SET", "HELP", "PRINT",
   "QUERY", "INSERT", "DELETE", "UPDATE"}

\* A list, by what is in its first node.
ListOf ==
  [RELATTR |-> "attributes", RELATION |-> "relations", ATTRTYPE |-> "declarations",
   ATTRPROP |-> "declarations", VALUE |-> "values", LIST |-> "tuples", CONDITION |-> "conditions"]

Sort(ns, n) ==
  IF n = 0 THEN "nothing"
  ELSE CASE ns[n].kind = "LIST" -> ListOf[ns[ns[n].f[1]].kind]
         [] ns[n].kind \in StatementKinds -> "statement"
         [] ns[n].kind \in {"ATTRTYPE", "ATTRPROP"} -> "declaration"
         [] OTHER -> ns[n].kind

\* The fields of a node of some kind that hold nodes, and what is read there.
Follows ==
  {<<"CREATETABLE", 2, {"declarations"}>>,
   <<"QUERY", 1, {"attributes"}>>, <<"QUERY", 2, {"relations"}>>, <<"QUERY", 3, {"conditions", "nothing"}>>,
   <<"INSERT", 2, {"tuples"}>>, <<"DELETE", 2, {"conditions", "nothing"}>>,
   <<"UPDATE", 2, {"RELATTR"}>>, <<"UPDATE", 3, {"RELATTR_OR_VALUE"}>>, <<"UPDATE", 4, {"conditions", "nothing"}>>,
   <<"RELATTR_OR_VALUE", 1, {"RELATTR", "nothing"}>>, <<"RELATTR_OR_VALUE", 2, {"VALUE", "nothing"}>>,
   <<"CONDITION", 1, {"RELATTR"}>>, <<"CONDITION", 3, {"RELATTR", "nothing"}>>,
   <<"CONDITION", 4, {"VALUE", "nothing"}>>,
   <<"LIST", 1, {"RELATTR", "RELATION", "declaration", "VALUE", "values", "CONDITION"}>>}

\* The nth node of the pool can be read; what it leads to was made before it.
Readable(ns, n) ==
  /\ \A r \in Follows :
       ns[n].kind = r[1] => ns[n].f[r[2]] \in 0 .. n - 1 /\ Sort(ns, ns[n].f[r[2]]) \in r[3]
  /\ ns[n].kind = "LIST" => /\ ns[n].f[2] \in 0 .. n - 1
                            /\ Sort(ns, ns[n].f[2]) \in {Sort(ns, n), "nothing"}
  /\ ns[n].kind = "RELATTR_OR_VALUE" => (ns[n].f[1] = 0 <=> ns[n].f[2] # 0)
  /\ ns[n].kind = "CONDITION" =>
       IF ns[n].f[2] \in {"is null", "is not null"} THEN ns[n].f[3] = 0 /\ ns[n].f[4] = 0
       ELSE ns[n].f[3] = 0 <=> ns[n].f[4] # 0

\* Nodes are unions that are read without a look at their kind, by pointers that are followed
\* without a look at null: at any time each node of the pool has in its fields what interp
\* takes to be there, lists are of one kind of item and end, a comparison has one right hand
\* side, and what a statement leaves to interp is one value, a statement or none.
TreesAsRead ==
  /\ \A n \in DOMAIN nodes : Readable(nodes, n)
  /\ pc = "parse" /\ predicted = <<>> =>
       /\ Len(values) = 1 /\ values[1] \in 0 .. Len(nodes)
       /\ Sort(nodes, values[1]) \in {"statement", "nothing"}

\* The loop ends, wherever the input does: in a statement, a comment or a command for the
\* shell too.
SessionEnds == <>(pc \in {"ended", "exit(1)"})
=============================================================================

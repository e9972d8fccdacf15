--------------------------- MODULE FrontendProofs ---------------------------
(***************************************************************************)
(* Proofs about the front end: nodes are what interp takes them to be.     *)
(*                                                                         *)
(* The values on the parser's stack have types, and each symbol of the     *)
(* grammar takes values of some types from its top and leaves one there    *)
(* (Effect), or leaves the stack alone.  Each production does in all what  *)
(* its symbol does.  So at any time the symbols to come make a statement   *)
(* of the values there are (Derives), and an action finds on the stack     *)
(* what its node is made of.                                               *)
(***************************************************************************)
EXTENDS Frontend, SequenceTheorems, TLAPS

\* Tokens without a value.
Silent ==
  {"T_EOF", ";", "create", "database", "table", "(", ")", "index", "drop", "use", "show",
   "tables", "desc", "load", "set", "=", "help", "print", "exit", "select", "from", "insert",
   "into", "values", "delete", "update", "where", "*", ",", ".", "primary", "key", "not", "null",
   "and", "is"}

\* Token x leaves a value of type t.
TokenEffect(x, in, t) ==
  \/ x \in {"T_STRING", "T_INT", "T_QSTRING", "T_SHELL_CMD"} /\ in = <<>> /\ t = "text"
  \/ x = "T_OP" /\ in = <<>> /\ t = "op"

\* Nonterminal x takes values of the types in and leaves one of type t.  Where it begins after
\* the first part of what it stands for, it takes the values of this part.
PhraseEffect(x, in, t) ==
  \/ x \in {"start", "command", "creation", "dropping"} /\ in = <<>> /\ t = "statement?"
  \/ x = "opt_relname"      /\ in = <<>> /\ t = "text"
  \/ x = "relattr"          /\ in = <<>> /\ t = "RELATTR"
  \/ x = "qualified"        /\ in = <<"text">> /\ t = "RELATTR"
  \/ x = "relattr_or_value" /\ in = <<>> /\ t = "RELATTR_OR_VALUE"
  \/ x = "value"            /\ in = <<>> /\ t = "VALUE"
  \/ x = "nullable"         /\ in = <<"text", "text", "text">> /\ t = "declaration"
  \/ x \in {"test", "nullness"} /\ in = <<"RELATTR">> /\ t = "CONDITION"
  \/ x = "opt_where"        /\ in = <<>> /\ t = "conditions?"
  \/ x = "selected"         /\ in = <<>> /\ t = "attributes"
  \/ x = "more_selected"    /\ in = <<"RELATTR">> /\ t = "attributes"
  \/ x = "relations"        /\ in = <<>> /\ t = "relations"
  \/ x = "more_relations"   /\ in = <<"RELATION">> /\ t = "relations"
  \/ x = "attrtypes"        /\ in = <<>> /\ t = "declarations"
  \/ x = "more_attrtypes"   /\ in = <<"declaration">> /\ t = "declarations"
  \/ x = "values_"          /\ in = <<>> /\ t = "values"
  \/ x = "more_values"      /\ in = <<"VALUE">> /\ t = "values"
  \/ x = "tuples"           /\ in = <<>> /\ t = "tuples"
  \/ x = "more_tuples"      /\ in = <<"values">> /\ t = "tuples"
  \/ x = "conditions"       /\ in = <<>> /\ t \in {"conditions", "conditions?"}
  \/ x = "more_conditions"  /\ in = <<"CONDITION">> /\ t \in {"conditions", "conditions?"}

\* Actions that make no node, among them the one that has a command run.
PlainEffect(x, in, t) ==
  \/ x = "nothing"             /\ in = <<>> /\ t \in {"nothing", "conditions?", "statement?"}
  \/ x \in {"unnamed", "star"} /\ in = <<>> /\ t = "text"
  \/ x = "EQ_OP"               /\ in = <<>> /\ t = "op"
  \/ x \in {"EXIT", "EOF"}     /\ in = <<>> /\ t = "statement?"
  \/ x = "SHELL"               /\ in = <<"text">> /\ t = "statement?"

\* A list takes an item, and the rest of the list.
ListEffect(x, in, t) ==
  /\ x = "LIST"
  /\ \/ t = "attributes"   /\ in \in {<<"RELATTR", "nothing">>, <<"RELATTR", "attributes">>}
     \/ t = "relations"    /\ in \in {<<"RELATION", "nothing">>, <<"RELATION", "relations">>}
     \/ t = "declarations" /\ in \in {<<"declaration", "nothing">>, <<"declaration", "declarations">>}
     \/ t = "values"       /\ in \in {<<"VALUE", "nothing">>, <<"VALUE", "values">>}
     \/ t = "tuples"       /\ in \in {<<"values", "nothing">>, <<"values", "tuples">>}
     \/ t \in {"conditions", "conditions?"} /\ in \in {<<"CONDITION", "nothing">>, <<"CONDITION", t>>}

\* The action x takes the fields of a node and leaves the node.
NodeEffect(x, in, t) ==
  \/ x = "SHOWTABLES" /\ in = <<>> /\ t = "statement?"
  \/ /\ x \in {"CREATEDATABASE", "DROPDATABASE", "USEDATABASE", "DESCTABLE", "DROPTABLE", "HELP", "PRINT"}
     /\ in = <<"text">> /\ t = "statement?"
  \/ x \in {"CREATEINDEX", "DROPINDEX", "LOAD", "SET"} /\ in = <<"text", "text">> /\ t = "statement?"
  \/ x = "CREATETABLE" /\ in = <<"text", "declarations">> /\ t = "statement?"
  \/ x = "QUERY"       /\ in = <<"attributes", "relations", "conditions?">> /\ t = "statement?"
  \/ x = "INSERT"      /\ in = <<"text", "tuples">> /\ t = "statement?"
  \/ x = "DELETE"      /\ in = <<"text", "conditions?">> /\ t = "statement?"
  \/ x = "UPDATE"      /\ in = <<"text", "RELATTR", "RELATTR_OR_VALUE", "conditions?">>
                       /\ t = "statement?"
  \/ x = "ATTR"        /\ in = <<"text">> /\ t = "RELATTR"
  \/ x = "RELATTR"     /\ in = <<"text", "text">> /\ t = "RELATTR"
  \/ x = "RELATION"    /\ in = <<"text">> /\ t = "RELATION"
  \/ x \in {"ATTRTYPE", "ATTRTYPE_NOT_NULL"} /\ in = <<"text", "text", "text">> /\ t = "declaration"
  \/ x = "ATTRPROP"    /\ in = <<"text">> /\ t = "declaration"
  \/ x = "VALUE"       /\ in = <<"text">> /\ t = "VALUE"
  \/ x = "NULLV"       /\ in = <<>> /\ t = "VALUE"
  \/ x = "RELATTR_OF"  /\ in = <<"RELATTR">> /\ t = "RELATTR_OR_VALUE"
  \/ x = "VALUE_OF"    /\ in = <<"VALUE">> /\ t = "RELATTR_OR_VALUE"
  \/ x = "CONDITION"   /\ in = <<"RELATTR", "op", "RELATTR_OR_VALUE">> /\ t = "CONDITION"
  \/ x \in {"IS_NULL", "NOT_NULL"} /\ in = <<"RELATTR">> /\ t = "CONDITION"
  \/ ListEffect(x, in, t)

Effect(x, in, t) ==
  TokenEffect(x, in, t) \/ PhraseEffect(x, in, t) \/ PlainEffect(x, in, t) \/ NodeEffect(x, in, t)

Types ==
  {"text", "op", "nothing", "statement?", "RELATTR", "RELATTR_OR_VALUE", "RELATION", "VALUE", "CONDITION",
   "declaration", "attributes", "relations", "declarations", "values", "tuples", "conditions",
   "conditions?"}

Stacks == Seq(Types)

\* Symbol x turns stack a into stack b.
Step(x, a, b) ==
  \/ x \in Silent /\ b = a
  \/ \E base, in \in Stacks, t \in Types : Effect(x, in, t) /\ a = base \o in /\ b = Append(base, t)

IsSeq(s) == \E S : s \in Seq(S)

\* The symbols s, one after the other, turn a into b; G are the stacks on the way.
Derives(s, a, b) ==
  /\ IsSeq(s)
  /\ \E G \in Seq(Stacks) :
       /\ Len(G) = Len(s) + 1 /\ G[1] = a /\ G[Len(G)] = b
       /\ \A i \in 1 .. Len(s) : Step(s[i], G[i], G[i + 1])

-----------------------------------------------------------------------------
(* Sequences.                                                               *)
LEMMA Stacked ==
  ASSUME NEW base \in Stacks, NEW t \in Types
  PROVE  Append(base, t) \in Stacks
BY DEF Stacks

LEMMA Onto0 ==
  ASSUME NEW base \in Stacks
  PROVE  <<>> \in Stacks /\ base \o <<>> = base
BY DEF Stacks

LEMMA Onto1 ==
  ASSUME NEW base \in Stacks, NEW s \in Types
  PROVE  << s >> \in Stacks /\ base \o << s >> = Append(base, s)
BY DEF Stacks

LEMMA Onto2 ==
  ASSUME NEW base \in Stacks, NEW s \in Types, NEW u \in Types
  PROVE  <<s, u>> \in Stacks /\ base \o <<s, u>> = Append(Append(base, s), u)
<1>1. <<s, u>> = Append(<< s >>, u)
  OBVIOUS
<1> QED
  BY <1>1, Stacked, Onto1 DEF Stacks

LEMMA Onto3 ==
  ASSUME NEW base \in Stacks, NEW s \in Types, NEW u \in Types, NEW v \in Types
  PROVE  <<s, u, v>> \in Stacks /\ base \o <<s, u, v>> = Append(Append(Append(base, s), u), v)
<1>1. <<s, u, v>> = Append(<<s, u>>, v)
  OBVIOUS
<1> QED
  BY <1>1, Stacked, Onto2 DEF Stacks

LEMMA Onto4 ==
  ASSUME NEW base \in Stacks, NEW s \in Types, NEW u \in Types, NEW v \in Types, NEW w \in Types
  PROVE  /\ <<s, u, v, w>> \in Stacks
         /\ base \o <<s, u, v, w>> = Append(Append(Append(Append(base, s), u), v), w)
<1>1. <<s, u, v, w>> = Append(<<s, u, v>>, w)
  OBVIOUS
<1> QED
  BY <1>1, Stacked, Onto3 DEF Stacks

-----------------------------------------------------------------------------
(* Steps on a stack that is known from its top on.                          *)
LEMMA Keeps ==
  ASSUME NEW x \in Silent, NEW a
  PROVE  Step(x, a, a)
BY DEF Step

LEMMA Applies ==
  ASSUME NEW base \in Stacks, NEW x, NEW in \in Stacks, NEW t \in Types, Effect(x, in, t)
  PROVE  Step(x, base \o in, Append(base, t))
BY DEF Step

LEMMA Pushes ==
  ASSUME NEW base \in Stacks, NEW x, NEW t \in Types,
         Effect(x, <<>>, t)
  PROVE  Step(x, base, Append(base, t))
<1>1. <<>> \in Stacks /\ base \o <<>> = base
  BY Onto0
<1> QED
  BY <1>1, Applies

LEMMA Turns ==
  ASSUME NEW base \in Stacks, NEW x, NEW t \in Types,
         NEW s \in Types, Effect(x, << s >>, t)
  PROVE  Step(x, Append(base, s), Append(base, t))
<1>1. << s >> \in Stacks /\ base \o << s >> = Append(base, s)
  BY Onto1
<1> QED
  BY <1>1, Applies

LEMMA Turns2 ==
  ASSUME NEW base \in Stacks, NEW x, NEW t \in Types,
         NEW s \in Types, NEW u \in Types, Effect(x, <<s, u>>, t)
  PROVE  Step(x, Append(Append(base, s), u), Append(base, t))
<1>1. <<s, u>> \in Stacks /\ base \o <<s, u>> = Append(Append(base, s), u)
  BY Onto2
<1> QED
  BY <1>1, Applies

LEMMA Turns3 ==
  ASSUME NEW base \in Stacks, NEW x, NEW t \in Types,
         NEW s \in Types, NEW u \in Types, NEW v \in Types,
         Effect(x, <<s, u, v>>, t)
  PROVE  Step(x, Append(Append(Append(base, s), u), v), Append(base, t))
<1>1. <<s, u, v>> \in Stacks /\ base \o <<s, u, v>> = Append(Append(Append(base, s), u), v)
  BY Onto3
<1> QED
  BY <1>1, Applies

LEMMA Turns4 ==
  ASSUME NEW base \in Stacks, NEW x, NEW t \in Types,
         NEW s \in Types, NEW u \in Types, NEW v \in Types, NEW w \in Types,
         Effect(x, <<s, u, v, w>>, t)
  PROVE  Step(x, Append(Append(Append(Append(base, s), u), v), w), Append(base, t))
<1>1. /\ <<s, u, v, w>> \in Stacks
      /\ base \o <<s, u, v, w>> = Append(Append(Append(Append(base, s), u), v), w)
  BY Onto4
<1> QED
  BY <1>1, Applies

-----------------------------------------------------------------------------
(* Symbols after each other.                                                *)
LEMMA DeriveNone ==
  ASSUME NEW a \in Stacks
  PROVE  Derives(<<>>, a, a)
<1> DEFINE G == << a >>
<1>1. G \in Seq(Stacks) /\ Len(G) = 1 /\ G[1] = a
  OBVIOUS
<1>2. IsSeq(<<>>) /\ Len(<<>>) = 0
  BY DEF IsSeq
<1> HIDE DEF G
<1>3. \A i \in 1 .. Len(<<>>) : Step(<<>>[i], G[i], G[i + 1])
  BY <1>2
<1> QED
  BY <1>1, <1>2, <1>3 DEF Derives

LEMMA ConsFacts ==
  ASSUME NEW S, NEW s \in Seq(S), NEW x \in S
  PROVE  /\ << x >> \o s \in Seq(S) /\ Len(<< x >> \o s) = Len(s) + 1
         /\ (<< x >> \o s)[1] = x
         /\ \A i \in 1 .. Len(s) : (<< x >> \o s)[i + 1] = s[i]
OBVIOUS

LEMMA SeqFacts ==
  ASSUME NEW s, NEW x, IsSeq(s)
  PROVE  /\ IsSeq(<< x >> \o s) /\ Len(s) \in Nat /\ Len(<< x >> \o s) = Len(s) + 1
         /\ (<< x >> \o s)[1] = x
         /\ \A i \in 1 .. Len(s) : (<< x >> \o s)[i + 1] = s[i]
<1>1. PICK S : s \in Seq(S)
  BY DEF IsSeq
<1>2. s \in Seq(S \cup {x}) /\ x \in S \cup {x}
  BY <1>1
<1> QED
  BY <1>2, ConsFacts DEF IsSeq

LEMMA PairOf == ASSUME NEW S, NEW x \in S, NEW y \in S PROVE <<x, y>> = << x >> \o << y >>
<1>1. << x >> \in Seq(S) /\ << y >> \in Seq(S)
  OBVIOUS
<1>2. << x >> \o << y >> = Append(<< x >>, y)
  BY <1>1
<1>3. <<x, y>> = Append(<< x >>, y)
  OBVIOUS
<1> QED
  BY <1>2, <1>3

LEMMA Pair == ASSUME NEW x, NEW y PROVE <<x, y>> = << x >> \o << y >>
<1>1. x \in {x, y} /\ y \in {x, y}
  OBVIOUS
<1> QED
  BY <1>1, PairOf

LEMMA DeriveCons ==
  ASSUME NEW x, NEW s, NEW a \in Stacks, NEW m, NEW b, Step(x, a, m), Derives(s, m, b)
  PROVE  Derives(<< x >> \o s, a, b)
<1>1. PICK G \in Seq(Stacks) :
        /\ Len(G) = Len(s) + 1 /\ G[1] = m /\ G[Len(G)] = b
        /\ \A i \in 1 .. Len(s) : Step(s[i], G[i], G[i + 1])
  BY DEF Derives
<1> DEFINE H == << a >> \o G
           r == << x >> \o s
<1>2. /\ H \in Seq(Stacks) /\ Len(H) = Len(G) + 1 /\ H[1] = a
      /\ \A i \in 1 .. Len(G) : H[i + 1] = G[i]
  BY <1>1, ConsFacts
<1>3. /\ IsSeq(r) /\ Len(r) = Len(s) + 1 /\ r[1] = x
      /\ \A i \in 1 .. Len(s) : r[i + 1] = s[i]
      /\ Len(s) \in Nat
  BY SeqFacts DEF Derives
<1> HIDE DEF H, r
<1>5. H[2] = m /\ H[Len(H)] = b
  BY <1>1, <1>2, <1>3
<1>6. ASSUME NEW i \in 1 .. Len(r) PROVE Step(r[i], H[i], H[i + 1])
  <2>1. CASE i = 1
    BY <2>1, <1>2, <1>3, <1>5
  <2>2. CASE i # 1
    <3>1. i - 1 \in 1 .. Len(s) /\ i - 1 \in 1 .. Len(G) /\ i \in 1 .. Len(G)
      BY <2>2, <1>1, <1>3
    <3>2. r[(i - 1) + 1] = s[i - 1] /\ H[(i - 1) + 1] = G[i - 1] /\ H[i + 1] = G[i]
      BY <3>1, <1>2, <1>3
    <3>4. (i - 1) + 1 = i
      OBVIOUS
    <3>3. Step(s[i - 1], G[i - 1], G[(i - 1) + 1])
      BY <3>1, <1>1
    <3> QED
      BY <3>2, <3>3, <3>4
  <2> QED
    BY <2>1, <2>2
<1>7. Derives(r, a, b)
  BY <1>1, <1>2, <1>3, <1>5, <1>6 DEF Derives
<1> QED
  BY <1>7 DEF r

LEMMA Derive1 ==
  ASSUME NEW x1,
         NEW a1 \in Stacks, NEW b \in Stacks,
         Step(x1, a1, b)
  PROVE  Derives(<< x1 >>, a1, b)
<1>1. << x1 >> = << x1 >> \o <<>>
  OBVIOUS
<1>2. Derives(<<>>, b, b)
  BY DeriveNone
<1> QED
  BY <1>1, <1>2, DeriveCons

LEMMA Derive2 ==
  ASSUME NEW x1, NEW x2,
         NEW a1 \in Stacks, NEW a2 \in Stacks, NEW b \in Stacks,
         Step(x1, a1, a2), Step(x2, a2, b)
  PROVE  Derives(<<x1, x2>>, a1, b)
<1>1. <<x1, x2>> = << x1 >> \o << x2 >>
  BY Pair
<1>2. Derives(<< x2 >>, a2, b)
  BY Derive1
<1> QED
  BY <1>1, <1>2, DeriveCons

LEMMA Derive3 ==
  ASSUME NEW x1, NEW x2, NEW x3,
         NEW a1 \in Stacks, NEW a2 \in Stacks, NEW a3 \in Stacks, NEW b \in Stacks,
         Step(x1, a1, a2), Step(x2, a2, a3), Step(x3, a3, b)
  PROVE  Derives(<<x1, x2, x3>>, a1, b)
<1>1. <<x1, x2, x3>> = << x1 >> \o <<x2, x3>>
  OBVIOUS
<1>2. Derives(<<x2, x3>>, a2, b)
  BY Derive2
<1> QED
  BY <1>1, <1>2, DeriveCons

LEMMA Derive4 ==
  ASSUME NEW x1, NEW x2, NEW x3, NEW x4,
         NEW a1 \in Stacks, NEW a2 \in Stacks, NEW a3 \in Stacks, NEW a4 \in Stacks, NEW b \in Stacks,
         Step(x1, a1, a2), Step(x2, a2, a3), Step(x3, a3, a4), Step(x4, a4, b)
  PROVE  Derives(<<x1, x2, x3, x4>>, a1, b)
<1>1. <<x1, x2, x3, x4>> = << x1 >> \o <<x2, x3, x4>>
  OBVIOUS
<1>2. Derives(<<x2, x3, x4>>, a2, b)
  BY Derive3
<1> QED
  BY <1>1, <1>2, DeriveCons

LEMMA Derive5 ==
  ASSUME NEW x1, NEW x2, NEW x3, NEW x4, NEW x5,
         NEW a1 \in Stacks, NEW a2 \in Stacks, NEW a3 \in Stacks, NEW a4 \in Stacks, NEW a5 \in Stacks,
         NEW b \in Stacks,
         Step(x1, a1, a2), Step(x2, a2, a3), Step(x3, a3, a4), Step(x4, a4, a5),
         Step(x5, a5, b)
  PROVE  Derives(<<x1, x2, x3, x4, x5>>, a1, b)
<1>1. <<x1, x2, x3, x4, x5>> = << x1 >> \o <<x2, x3, x4, x5>>
  OBVIOUS
<1>2. Derives(<<x2, x3, x4, x5>>, a2, b)
  BY Derive4
<1> QED
  BY <1>1, <1>2, DeriveCons

LEMMA Derive6 ==
  ASSUME NEW x1, NEW x2, NEW x3, NEW x4, NEW x5, NEW x6,
         NEW a1 \in Stacks, NEW a2 \in Stacks, NEW a3 \in Stacks, NEW a4 \in Stacks, NEW a5 \in Stacks,
         NEW a6 \in Stacks, NEW b \in Stacks,
         Step(x1, a1, a2), Step(x2, a2, a3), Step(x3, a3, a4), Step(x4, a4, a5),
         Step(x5, a5, a6), Step(x6, a6, b)
  PROVE  Derives(<<x1, x2, x3, x4, x5, x6>>, a1, b)
<1>1. <<x1, x2, x3, x4, x5, x6>> = << x1 >> \o <<x2, x3, x4, x5, x6>>
  OBVIOUS
<1>2. Derives(<<x2, x3, x4, x5, x6>>, a2, b)
  BY Derive5
<1> QED
  BY <1>1, <1>2, DeriveCons

LEMMA Derive7 ==
  ASSUME NEW x1, NEW x2, NEW x3, NEW x4, NEW x5, NEW x6, NEW x7,
         NEW a1 \in Stacks, NEW a2 \in Stacks, NEW a3 \in Stacks, NEW a4 \in Stacks, NEW a5 \in Stacks,
         NEW a6 \in Stacks, NEW a7 \in Stacks, NEW b \in Stacks,
         Step(x1, a1, a2), Step(x2, a2, a3), Step(x3, a3, a4), Step(x4, a4, a5),
         Step(x5, a5, a6), Step(x6, a6, a7), Step(x7, a7, b)
  PROVE  Derives(<<x1, x2, x3, x4, x5, x6, x7>>, a1, b)
<1>1. <<x1, x2, x3, x4, x5, x6, x7>> = << x1 >> \o <<x2, x3, x4, x5, x6, x7>>
  OBVIOUS
<1>2. Derives(<<x2, x3, x4, x5, x6, x7>>, a2, b)
  BY Derive6
<1> QED
  BY <1>1, <1>2, DeriveCons

LEMMA Derive8 ==
  ASSUME NEW x1, NEW x2, NEW x3, NEW x4, NEW x5, NEW x6, NEW x7, NEW x8,
         NEW a1 \in Stacks, NEW a2 \in Stacks, NEW a3 \in Stacks, NEW a4 \in Stacks, NEW a5 \in Stacks,
         NEW a6 \in Stacks, NEW a7 \in Stacks, NEW a8 \in Stacks, NEW b \in Stacks,
         Step(x1, a1, a2), Step(x2, a2, a3), Step(x3, a3, a4), Step(x4, a4, a5),
         Step(x5, a5, a6), Step(x6, a6, a7), Step(x7, a7, a8), Step(x8, a8, b)
  PROVE  Derives(<<x1, x2, x3, x4, x5, x6, x7, x8>>, a1, b)
<1>1. <<x1, x2, x3, x4, x5, x6, x7, x8>> = << x1 >> \o <<x2, x3, x4, x5, x6, x7, x8>>
  OBVIOUS
<1>2. Derives(<<x2, x3, x4, x5, x6, x7, x8>>, a2, b)
  BY Derive7
<1> QED
  BY <1>1, <1>2, DeriveCons

-----------------------------------------------------------------------------
(* What productions do, by their shape: a k in the name of a lemma is a     *)
(* token without a value, a number is a symbol that takes so many values.   *)
Makes(s, in, t) == \A base \in Stacks : Derives(s, base \o in, Append(base, t))

LEMMA Makes_k0 ==
  ASSUME NEW x1 \in Silent, NEW x2, NEW t \in Types, Effect(x2, <<>>, t)
  PROVE  Makes(<<x1, x2>>, <<>>, t)
<1> SUFFICES ASSUME NEW base \in Stacks
             PROVE  Derives(<<x1, x2>>, base \o <<>>, Append(base, t))
  BY DEF Makes
<1>1. /\ Step(x1, base, base)
      /\ Step(x2, base, Append(base, t))
  BY Stacked, Keeps, Pushes
<1> QED
  BY <1>1, Stacked, Onto0, Derive2

LEMMA Makes_01 ==
  ASSUME NEW x1, NEW x2, NEW t1 \in Types, NEW t \in Types, Effect(x1, <<>>, t1),
         Effect(x2, << t1 >>, t)
  PROVE  Makes(<<x1, x2>>, <<>>, t)
<1> SUFFICES ASSUME NEW base \in Stacks
             PROVE  Derives(<<x1, x2>>, base \o <<>>, Append(base, t))
  BY DEF Makes
<1>1. /\ Step(x1, base, Append(base, t1))
      /\ Step(x2, Append(base, t1), Append(base, t))
  BY Stacked, Pushes, Turns
<1> QED
  BY <1>1, Stacked, Onto0, Derive2

LEMMA Makes_0k ==
  ASSUME NEW x1, NEW x2 \in Silent, NEW t \in Types, Effect(x1, <<>>, t)
  PROVE  Makes(<<x1, x2>>, <<>>, t)
<1> SUFFICES ASSUME NEW base \in Stacks
             PROVE  Derives(<<x1, x2>>, base \o <<>>, Append(base, t))
  BY DEF Makes
<1>1. /\ Step(x1, base, Append(base, t))
      /\ Step(x2, Append(base, t), Append(base, t))
  BY Stacked, Keeps, Pushes
<1> QED
  BY <1>1, Stacked, Onto0, Derive2

LEMMA Makes_0 ==
  ASSUME NEW x1, NEW t \in Types, Effect(x1, <<>>, t)
  PROVE  Makes(<< x1 >>, <<>>, t)
<1> SUFFICES ASSUME NEW base \in Stacks
             PROVE  Derives(<< x1 >>, base \o <<>>, Append(base, t))
  BY DEF Makes
<1>1. /\ Step(x1, base, Append(base, t))
  BY Stacked, Pushes
<1> QED
  BY <1>1, Stacked, Onto0, Derive1

LEMMA Makes_k01 ==
  ASSUME NEW x1 \in Silent, NEW x2, NEW x3, NEW t1 \in Types, NEW t \in Types,
         Effect(x2, <<>>, t1), Effect(x3, << t1 >>, t)
  PROVE  Makes(<<x1, x2, x3>>, <<>>, t)
<1> SUFFICES ASSUME NEW base \in Stacks
             PROVE  Derives(<<x1, x2, x3>>, base \o <<>>, Append(base, t))
  BY DEF Makes
<1>1. /\ Step(x1, base, base)
      /\ Step(x2, base, Append(base, t1))
      /\ Step(x3, Append(base, t1), Append(base, t))
  BY Stacked, Keeps, Pushes, Turns
<1> QED
  BY <1>1, Stacked, Onto0, Derive3

LEMMA Makes_k0k0k2 ==
  ASSUME NEW x1 \in Silent, NEW x2, NEW x3 \in Silent, NEW x4, NEW x5 \in Silent, NEW x6,
         NEW t1 \in Types, NEW t2 \in Types, NEW t \in Types, Effect(x2, <<>>, t1),
         Effect(x4, <<>>, t2), Effect(x6, <<t1, t2>>, t)
  PROVE  Makes(<<x1, x2, x3, x4, x5, x6>>, <<>>, t)
<1> SUFFICES ASSUME NEW base \in Stacks
             PROVE  Derives(<<x1, x2, x3, x4, x5, x6>>, base \o <<>>, Append(base, t))
  BY DEF Makes
<1> DEFINE b1 == Append(base, t1)
           b2 == Append(b1, t2)
           b3 == Append(base, t)
<1>1. b1 \in Stacks /\ b2 \in Stacks /\ b3 \in Stacks
  BY Stacked
<1>2. Step(x1, base, base)
  BY <1>1, Keeps
<1>3. Step(x2, base, b1)
  BY <1>1, Pushes
<1>4. Step(x3, b1, b1)
  BY <1>1, Keeps
<1>5. Step(x4, b1, b2)
  BY <1>1, Pushes
<1>6. Step(x5, b2, b2)
  BY <1>1, Keeps
<1>7. Step(x6, b2, b3)
  BY <1>1, Turns2
<1>8. base \o <<>> = base
  BY Onto0
<1> HIDE DEF b1, b2, b3
<1>9. Derives(<<x1, x2, x3, x4, x5, x6>>, base, b3)
  BY <1>1, <1>2, <1>3, <1>4, <1>5, <1>6, <1>7, Derive6
<1> QED
  BY <1>8, <1>9 DEF b3

LEMMA Makes_kk0 ==
  ASSUME NEW x1 \in Silent, NEW x2 \in Silent, NEW x3, NEW t \in Types, Effect(x3, <<>>, t)
  PROVE  Makes(<<x1, x2, x3>>, <<>>, t)
<1> SUFFICES ASSUME NEW base \in Stacks
             PROVE  Derives(<<x1, x2, x3>>, base \o <<>>, Append(base, t))
  BY DEF Makes
<1>1. /\ Step(x1, base, base)
      /\ Step(x2, base, base)
      /\ Step(x3, base, Append(base, t))
  BY Stacked, Keeps, Pushes
<1> QED
  BY <1>1, Stacked, Onto0, Derive3

LEMMA Makes_k0k02 ==
  ASSUME NEW x1 \in Silent, NEW x2, NEW x3 \in Silent, NEW x4, NEW x5, NEW t1 \in Types,
         NEW t2 \in Types, NEW t \in Types, Effect(x2, <<>>, t1), Effect(x4, <<>>, t2),
         Effect(x5, <<t1, t2>>, t)
  PROVE  Makes(<<x1, x2, x3, x4, x5>>, <<>>, t)
<1> SUFFICES ASSUME NEW base \in Stacks
             PROVE  Derives(<<x1, x2, x3, x4, x5>>, base \o <<>>, Append(base, t))
  BY DEF Makes
<1> DEFINE b1 == Append(base, t1)
           b2 == Append(b1, t2)
           b3 == Append(base, t)
<1>1. b1 \in Stacks /\ b2 \in Stacks /\ b3 \in Stacks
  BY Stacked
<1>2. Step(x1, base, base)
  BY <1>1, Keeps
<1>3. Step(x2, base, b1)
  BY <1>1, Pushes
<1>4. Step(x3, b1, b1)
  BY <1>1, Keeps
<1>5. Step(x4, b1, b2)
  BY <1>1, Pushes
<1>6. Step(x5, b2, b3)
  BY <1>1, Turns2
<1>7. base \o <<>> = base
  BY Onto0
<1> HIDE DEF b1, b2, b3
<1>8. Derives(<<x1, x2, x3, x4, x5>>, base, b3)
  BY <1>1, <1>2, <1>3, <1>4, <1>5, <1>6, Derive5
<1> QED
  BY <1>7, <1>8 DEF b3

LEMMA Makes_k0k003 ==
  ASSUME NEW x1 \in Silent, NEW x2, NEW x3 \in Silent, NEW x4, NEW x5, NEW x6, NEW t1 \in Types,
         NEW t2 \in Types, NEW t3 \in Types, NEW t \in Types, Effect(x2, <<>>, t1),
         Effect(x4, <<>>, t2), Effect(x5, <<>>, t3), Effect(x6, <<t1, t2, t3>>, t)
  PROVE  Makes(<<x1, x2, x3, x4, x5, x6>>, <<>>, t)
<1> SUFFICES ASSUME NEW base \in Stacks
             PROVE  Derives(<<x1, x2, x3, x4, x5, x6>>, base \o <<>>, Append(base, t))
  BY DEF Makes
<1> DEFINE b1 == Append(base, t1)
           b2 == Append(b1, t2)
           b3 == Append(b2, t3)
           b4 == Append(base, t)
<1>1. b1 \in Stacks /\ b2 \in Stacks /\ b3 \in Stacks /\ b4 \in Stacks
  BY Stacked
<1>2. Step(x1, base, base)
  BY <1>1, Keeps
<1>3. Step(x2, base, b1)
  BY <1>1, Pushes
<1>4. Step(x3, b1, b1)
  BY <1>1, Keeps
<1>5. Step(x4, b1, b2)
  BY <1>1, Pushes
<1>6. Step(x5, b2, b3)
  BY <1>1, Pushes
<1>7. Step(x6, b3, b4)
  BY <1>1, Turns3
<1>8. base \o <<>> = base
  BY Onto0
<1> HIDE DEF b1, b2, b3, b4
<1>9. Derives(<<x1, x2, x3, x4, x5, x6>>, base, b4)
  BY <1>1, <1>2, <1>3, <1>4, <1>5, <1>6, <1>7, Derive6
<1> QED
  BY <1>8, <1>9 DEF b4

LEMMA Makes_kk0k02 ==
  ASSUME NEW x1 \in Silent, NEW x2 \in Silent, NEW x3, NEW x4 \in Silent, NEW x5, NEW x6,
         NEW t1 \in Types, NEW t2 \in Types, NEW t \in Types, Effect(x3, <<>>, t1),
         Effect(x5, <<>>, t2), Effect(x6, <<t1, t2>>, t)
  PROVE  Makes(<<x1, x2, x3, x4, x5, x6>>, <<>>, t)
<1> SUFFICES ASSUME NEW base \in Stacks
             PROVE  Derives(<<x1, x2, x3, x4, x5, x6>>, base \o <<>>, Append(base, t))
  BY DEF Makes
<1> DEFINE b1 == Append(base, t1)
           b2 == Append(b1, t2)
           b3 == Append(base, t)
<1>1. b1 \in Stacks /\ b2 \in Stacks /\ b3 \in Stacks
  BY Stacked
<1>2. Step(x1, base, base)
  BY <1>1, Keeps
<1>3. Step(x2, base, base)
  BY <1>1, Keeps
<1>4. Step(x3, base, b1)
  BY <1>1, Pushes
<1>5. Step(x4, b1, b1)
  BY <1>1, Keeps
<1>6. Step(x5, b1, b2)
  BY <1>1, Pushes
<1>7. Step(x6, b2, b3)
  BY <1>1, Turns2
<1>8. base \o <<>> = base
  BY Onto0
<1> HIDE DEF b1, b2, b3
<1>9. Derives(<<x1, x2, x3, x4, x5, x6>>, base, b3)
  BY <1>1, <1>2, <1>3, <1>4, <1>5, <1>6, <1>7, Derive6
<1> QED
  BY <1>8, <1>9 DEF b3

LEMMA Makes_kk002 ==
  ASSUME NEW x1 \in Silent, NEW x2 \in Silent, NEW x3, NEW x4, NEW x5, NEW t1 \in Types,
         NEW t2 \in Types, NEW t \in Types, Effect(x3, <<>>, t1), Effect(x4, <<>>, t2),
         Effect(x5, <<t1, t2>>, t)
  PROVE  Makes(<<x1, x2, x3, x4, x5>>, <<>>, t)
<1> SUFFICES ASSUME NEW base \in Stacks
             PROVE  Derives(<<x1, x2, x3, x4, x5>>, base \o <<>>, Append(base, t))
  BY DEF Makes
<1> DEFINE b1 == Append(base, t1)
           b2 == Append(b1, t2)
           b3 == Append(base, t)
<1>1. b1 \in Stacks /\ b2 \in Stacks /\ b3 \in Stacks
  BY Stacked
<1>2. Step(x1, base, base)
  BY <1>1, Keeps
<1>3. Step(x2, base, base)
  BY <1>1, Keeps
<1>4. Step(x3, base, b1)
  BY <1>1, Pushes
<1>5. Step(x4, b1, b2)
  BY <1>1, Pushes
<1>6. Step(x5, b2, b3)
  BY <1>1, Turns2
<1>7. base \o <<>> = base
  BY Onto0
<1> HIDE DEF b1, b2, b3
<1>8. Derives(<<x1, x2, x3, x4, x5>>, base, b3)
  BY <1>1, <1>2, <1>3, <1>4, <1>5, <1>6, Derive5
<1> QED
  BY <1>7, <1>8 DEF b3

LEMMA Makes_k0k0k004 ==
  ASSUME NEW x1 \in Silent, NEW x2, NEW x3 \in Silent, NEW x4, NEW x5 \in Silent, NEW x6, NEW x7,
         NEW x8, NEW t1 \in Types, NEW t2 \in Types, NEW t3 \in Types, NEW t4 \in Types,
         NEW t \in Types, Effect(x2, <<>>, t1), Effect(x4, <<>>, t2), Effect(x6, <<>>, t3),
         Effect(x7, <<>>, t4), Effect(x8, <<t1, t2, t3, t4>>, t)
  PROVE  Makes(<<x1, x2, x3, x4, x5, x6, x7, x8>>, <<>>, t)
<1> SUFFICES ASSUME NEW base \in Stacks
             PROVE  Derives(<<x1, x2, x3, x4, x5, x6, x7, x8>>, base \o <<>>, Append(base, t))
  BY DEF Makes
<1> DEFINE b1 == Append(base, t1)
           b2 == Append(b1, t2)
           b3 == Append(b2, t3)
           b4 == Append(b3, t4)
           b5 == Append(base, t)
<1>1. b1 \in Stacks /\ b2 \in Stacks /\ b3 \in Stacks /\ b4 \in Stacks /\ b5 \in Stacks
  BY Stacked
<1>2. Step(x1, base, base)
  BY <1>1, Keeps
<1>3. Step(x2, base, b1)
  BY <1>1, Pushes
<1>4. Step(x3, b1, b1)
  BY <1>1, Keeps
<1>5. Step(x4, b1, b2)
  BY <1>1, Pushes
<1>6. Step(x5, b2, b2)
  BY <1>1, Keeps
<1>7. Step(x6, b2, b3)
  BY <1>1, Pushes
<1>8. Step(x7, b3, b4)
  BY <1>1, Pushes
<1>9. Step(x8, b4, b5)
  BY <1>1, Turns4
<1>10. base \o <<>> = base
  BY Onto0
<1> HIDE DEF b1, b2, b3, b4, b5
<1>11. Derives(<<x1, x2, x3, x4, x5, x6, x7, x8>>, base, b5)
  BY <1>1, <1>2, <1>3, <1>4, <1>5, <1>6, <1>7, <1>8, <1>9, Derive8
<1> QED
  BY <1>10, <1>11 DEF b5

LEMMA Makes_k0102 ==
  ASSUME NEW x1 \in Silent, NEW x2, NEW x3, NEW x4, NEW x5, NEW t1 \in Types, NEW t2 \in Types,
         NEW t3 \in Types, NEW t \in Types, Effect(x2, <<>>, t1), Effect(x3, << t1 >>, t2),
         Effect(x4, <<>>, t3), Effect(x5, <<t2, t3>>, t)
  PROVE  Makes(<<x1, x2, x3, x4, x5>>, <<>>, t)
<1> SUFFICES ASSUME NEW base \in Stacks
             PROVE  Derives(<<x1, x2, x3, x4, x5>>, base \o <<>>, Append(base, t))
  BY DEF Makes
<1> DEFINE b1 == Append(base, t1)
           b2 == Append(base, t2)
           b3 == Append(b2, t3)
           b4 == Append(base, t)
<1>1. b1 \in Stacks /\ b2 \in Stacks /\ b3 \in Stacks /\ b4 \in Stacks
  BY Stacked
<1>2. Step(x1, base, base)
  BY <1>1, Keeps
<1>3. Step(x2, base, b1)
  BY <1>1, Pushes
<1>4. Step(x3, b1, b2)
  BY <1>1, Turns
<1>5. Step(x4, b2, b3)
  BY <1>1, Pushes
<1>6. Step(x5, b3, b4)
  BY <1>1, Turns2
<1>7. base \o <<>> = base
  BY Onto0
<1> HIDE DEF b1, b2, b3, b4
<1>8. Derives(<<x1, x2, x3, x4, x5>>, base, b4)
  BY <1>1, <1>2, <1>3, <1>4, <1>5, <1>6, Derive5
<1> QED
  BY <1>7, <1>8 DEF b4

LEMMA Makes_k012_on1 ==
  ASSUME NEW x1 \in Silent, NEW x2, NEW x3, NEW x4, NEW s \in Types, NEW t1 \in Types,
         NEW t2 \in Types, NEW t \in Types, Effect(x2, <<>>, t1), Effect(x3, << t1 >>, t2),
         Effect(x4, <<s, t2>>, t)
  PROVE  Makes(<<x1, x2, x3, x4>>, << s >>, t)
<1> SUFFICES ASSUME NEW base \in Stacks
             PROVE  Derives(<<x1, x2, x3, x4>>, base \o << s >>, Append(base, t))
  BY DEF Makes
<1> DEFINE b1 == Append(base, s)
           b2 == Append(b1, t1)
           b3 == Append(b1, t2)
           b4 == Append(base, t)
<1>1. b1 \in Stacks /\ b2 \in Stacks /\ b3 \in Stacks /\ b4 \in Stacks
  BY Stacked
<1>2. Step(x1, b1, b1)
  BY <1>1, Keeps
<1>3. Step(x2, b1, b2)
  BY <1>1, Pushes
<1>4. Step(x3, b2, b3)
  BY <1>1, Turns
<1>5. Step(x4, b3, b4)
  BY <1>1, Turns2
<1>6. base \o << s >> = b1
  BY Onto1
<1> HIDE DEF b1, b2, b3, b4
<1>7. Derives(<<x1, x2, x3, x4>>, b1, b4)
  BY <1>1, <1>2, <1>3, <1>4, <1>5, Derive4
<1> QED
  BY <1>6, <1>7 DEF b4

LEMMA Makes_k02_on1 ==
  ASSUME NEW x1 \in Silent, NEW x2, NEW x3, NEW s \in Types, NEW t1 \in Types, NEW t \in Types,
         Effect(x2, <<>>, t1), Effect(x3, <<s, t1>>, t)
  PROVE  Makes(<<x1, x2, x3>>, << s >>, t)
<1> SUFFICES ASSUME NEW base \in Stacks
             PROVE  Derives(<<x1, x2, x3>>, base \o << s >>, Append(base, t))
  BY DEF Makes
<1>1. /\ Step(x1, Append(base, s), Append(base, s))
      /\ Step(x2, Append(base, s), Append(Append(base, s), t1))
      /\ Step(x3, Append(Append(base, s), t1), Append(base, t))
  BY Stacked, Keeps, Pushes, Turns2
<1> QED
  BY <1>1, Stacked, Onto1, Derive3

LEMMA Makes_1_on1 ==
  ASSUME NEW x1, NEW s \in Types, NEW t \in Types, Effect(x1, << s >>, t)
  PROVE  Makes(<< x1 >>, << s >>, t)
<1> SUFFICES ASSUME NEW base \in Stacks
             PROVE  Derives(<< x1 >>, base \o << s >>, Append(base, t))
  BY DEF Makes
<1>1. /\ Step(x1, Append(base, s), Append(base, t))
  BY Stacked, Turns
<1> QED
  BY <1>1, Stacked, Onto1, Derive1

LEMMA Makes_011 ==
  ASSUME NEW x1, NEW x2, NEW x3, NEW t1 \in Types, NEW t2 \in Types, NEW t \in Types,
         Effect(x1, <<>>, t1), Effect(x2, << t1 >>, t2), Effect(x3, << t2 >>, t)
  PROVE  Makes(<<x1, x2, x3>>, <<>>, t)
<1> SUFFICES ASSUME NEW base \in Stacks
             PROVE  Derives(<<x1, x2, x3>>, base \o <<>>, Append(base, t))
  BY DEF Makes
<1>1. /\ Step(x1, base, Append(base, t1))
      /\ Step(x2, Append(base, t1), Append(base, t2))
      /\ Step(x3, Append(base, t2), Append(base, t))
  BY Stacked, Pushes, Turns
<1> QED
  BY <1>1, Stacked, Onto0, Derive3

LEMMA Makes_00k0k31 ==
  ASSUME NEW x1, NEW x2, NEW x3 \in Silent, NEW x4, NEW x5 \in Silent, NEW x6, NEW x7,
         NEW t1 \in Types, NEW t2 \in Types, NEW t3 \in Types, NEW t4 \in Types, NEW t \in Types,
         Effect(x1, <<>>, t1), Effect(x2, <<>>, t2), Effect(x4, <<>>, t3),
         Effect(x6, <<t1, t2, t3>>, t4), Effect(x7, << t4 >>, t)
  PROVE  Makes(<<x1, x2, x3, x4, x5, x6, x7>>, <<>>, t)
<1> SUFFICES ASSUME NEW base \in Stacks
             PROVE  Derives(<<x1, x2, x3, x4, x5, x6, x7>>, base \o <<>>, Append(base, t))
  BY DEF Makes
<1> DEFINE b1 == Append(base, t1)
           b2 == Append(b1, t2)
           b3 == Append(b2, t3)
           b4 == Append(base, t4)
           b5 == Append(base, t)
<1>1. b1 \in Stacks /\ b2 \in Stacks /\ b3 \in Stacks /\ b4 \in Stacks /\ b5 \in Stacks
  BY Stacked
<1>2. Step(x1, base, b1)
  BY <1>1, Pushes
<1>3. Step(x2, b1, b2)
  BY <1>1, Pushes
<1>4. Step(x3, b2, b2)
  BY <1>1, Keeps
<1>5. Step(x4, b2, b3)
  BY <1>1, Pushes
<1>6. Step(x5, b3, b3)
  BY <1>1, Keeps
<1>7. Step(x6, b3, b4)
  BY <1>1, Turns3
<1>8. Step(x7, b4, b5)
  BY <1>1, Turns
<1>9. base \o <<>> = base
  BY Onto0
<1> HIDE DEF b1, b2, b3, b4, b5
<1>10. Derives(<<x1, x2, x3, x4, x5, x6, x7>>, base, b5)
  BY <1>1, <1>2, <1>3, <1>4, <1>5, <1>6, <1>7, <1>8, Derive7
<1> QED
  BY <1>9, <1>10 DEF b5

LEMMA Makes_kkk0k11 ==
  ASSUME NEW x1 \in Silent, NEW x2 \in Silent, NEW x3 \in Silent, NEW x4, NEW x5 \in Silent,
         NEW x6, NEW x7, NEW t1 \in Types, NEW t2 \in Types, NEW t \in Types,
         Effect(x4, <<>>, t1), Effect(x6, << t1 >>, t2), Effect(x7, << t2 >>, t)
  PROVE  Makes(<<x1, x2, x3, x4, x5, x6, x7>>, <<>>, t)
<1> SUFFICES ASSUME NEW base \in Stacks
             PROVE  Derives(<<x1, x2, x3, x4, x5, x6, x7>>, base \o <<>>, Append(base, t))
  BY DEF Makes
<1> DEFINE b1 == Append(base, t1)
           b2 == Append(base, t2)
           b3 == Append(base, t)
<1>1. b1 \in Stacks /\ b2 \in Stacks /\ b3 \in Stacks
  BY Stacked
<1>2. Step(x1, base, base)
  BY <1>1, Keeps
<1>3. Step(x2, base, base)
  BY <1>1, Keeps
<1>4. Step(x3, base, base)
  BY <1>1, Keeps
<1>5. Step(x4, base, b1)
  BY <1>1, Pushes
<1>6. Step(x5, b1, b1)
  BY <1>1, Keeps
<1>7. Step(x6, b1, b2)
  BY <1>1, Turns
<1>8. Step(x7, b2, b3)
  BY <1>1, Turns
<1>9. base \o <<>> = base
  BY Onto0
<1> HIDE DEF b1, b2, b3
<1>10. Derives(<<x1, x2, x3, x4, x5, x6, x7>>, base, b3)
  BY <1>1, <1>2, <1>3, <1>4, <1>5, <1>6, <1>7, <1>8, Derive7
<1> QED
  BY <1>9, <1>10 DEF b3

LEMMA Makes_kk3_on3 ==
  ASSUME NEW x1 \in Silent, NEW x2 \in Silent, NEW x3, NEW s \in Types, NEW u \in Types,
         NEW v \in Types, NEW t \in Types, Effect(x3, <<s, u, v>>, t)
  PROVE  Makes(<<x1, x2, x3>>, <<s, u, v>>, t)
<1> SUFFICES ASSUME NEW base \in Stacks
             PROVE  Derives(<<x1, x2, x3>>, base \o <<s, u, v>>, Append(base, t))
  BY DEF Makes
<1> DEFINE b1 == Append(base, s)
           b2 == Append(b1, u)
           b3 == Append(b2, v)
           b4 == Append(base, t)
<1>1. b1 \in Stacks /\ b2 \in Stacks /\ b3 \in Stacks /\ b4 \in Stacks
  BY Stacked
<1>2. Step(x1, b3, b3)
  BY <1>1, Keeps
<1>3. Step(x2, b3, b3)
  BY <1>1, Keeps
<1>4. Step(x3, b3, b4)
  BY <1>1, Turns3
<1>5. base \o <<s, u, v>> = b3
  BY Onto3
<1> HIDE DEF b1, b2, b3, b4
<1>6. Derives(<<x1, x2, x3>>, b3, b4)
  BY <1>1, <1>2, <1>3, <1>4, Derive3
<1> QED
  BY <1>5, <1>6 DEF b4

LEMMA Makes_3_on3 ==
  ASSUME NEW x1, NEW s \in Types, NEW u \in Types, NEW v \in Types, NEW t \in Types,
         Effect(x1, <<s, u, v>>, t)
  PROVE  Makes(<< x1 >>, <<s, u, v>>, t)
<1> SUFFICES ASSUME NEW base \in Stacks
             PROVE  Derives(<< x1 >>, base \o <<s, u, v>>, Append(base, t))
  BY DEF Makes
<1> DEFINE b1 == Append(base, s)
           b2 == Append(b1, u)
           b3 == Append(b2, v)
           b4 == Append(base, t)
<1>1. b1 \in Stacks /\ b2 \in Stacks /\ b3 \in Stacks /\ b4 \in Stacks
  BY Stacked
<1>2. Step(x1, b3, b4)
  BY <1>1, Turns3
<1>3. base \o <<s, u, v>> = b3
  BY Onto3
<1> HIDE DEF b1, b2, b3, b4
<1>4. Derives(<< x1 >>, b3, b4)
  BY <1>1, <1>2, Derive1
<1> QED
  BY <1>3, <1>4 DEF b4

LEMMA Makes_k0k1 ==
  ASSUME NEW x1 \in Silent, NEW x2, NEW x3 \in Silent, NEW x4, NEW t1 \in Types, NEW t \in Types,
         Effect(x2, <<>>, t1), Effect(x4, << t1 >>, t)
  PROVE  Makes(<<x1, x2, x3, x4>>, <<>>, t)
<1> SUFFICES ASSUME NEW base \in Stacks
             PROVE  Derives(<<x1, x2, x3, x4>>, base \o <<>>, Append(base, t))
  BY DEF Makes
<1> DEFINE b1 == Append(base, t1)
           b2 == Append(base, t)
<1>1. b1 \in Stacks /\ b2 \in Stacks
  BY Stacked
<1>2. Step(x1, base, base)
  BY <1>1, Keeps
<1>3. Step(x2, base, b1)
  BY <1>1, Pushes
<1>4. Step(x3, b1, b1)
  BY <1>1, Keeps
<1>5. Step(x4, b1, b2)
  BY <1>1, Turns
<1>6. base \o <<>> = base
  BY Onto0
<1> HIDE DEF b1, b2
<1>7. Derives(<<x1, x2, x3, x4>>, base, b2)
  BY <1>1, <1>2, <1>3, <1>4, <1>5, Derive4
<1> QED
  BY <1>6, <1>7 DEF b2

LEMMA Makes_k003_on1 ==
  ASSUME NEW x1 \in Silent, NEW x2, NEW x3, NEW x4, NEW s \in Types, NEW t1 \in Types,
         NEW t2 \in Types, NEW t \in Types, Effect(x2, <<>>, t1), Effect(x3, <<>>, t2),
         Effect(x4, <<s, t1, t2>>, t)
  PROVE  Makes(<<x1, x2, x3, x4>>, << s >>, t)
<1> SUFFICES ASSUME NEW base \in Stacks
             PROVE  Derives(<<x1, x2, x3, x4>>, base \o << s >>, Append(base, t))
  BY DEF Makes
<1> DEFINE b1 == Append(base, s)
           b2 == Append(b1, t1)
           b3 == Append(b2, t2)
           b4 == Append(base, t)
<1>1. b1 \in Stacks /\ b2 \in Stacks /\ b3 \in Stacks /\ b4 \in Stacks
  BY Stacked
<1>2. Step(x1, b1, b1)
  BY <1>1, Keeps
<1>3. Step(x2, b1, b2)
  BY <1>1, Pushes
<1>4. Step(x3, b2, b3)
  BY <1>1, Pushes
<1>5. Step(x4, b3, b4)
  BY <1>1, Turns3
<1>6. base \o << s >> = b1
  BY Onto1
<1> HIDE DEF b1, b2, b3, b4
<1>7. Derives(<<x1, x2, x3, x4>>, b1, b4)
  BY <1>1, <1>2, <1>3, <1>4, <1>5, Derive4
<1> QED
  BY <1>6, <1>7 DEF b4

LEMMA Makes_003_on1 ==
  ASSUME NEW x1, NEW x2, NEW x3, NEW s \in Types, NEW t1 \in Types, NEW t2 \in Types,
         NEW t \in Types, Effect(x1, <<>>, t1), Effect(x2, <<>>, t2),
         Effect(x3, <<s, t1, t2>>, t)
  PROVE  Makes(<<x1, x2, x3>>, << s >>, t)
<1> SUFFICES ASSUME NEW base \in Stacks
             PROVE  Derives(<<x1, x2, x3>>, base \o << s >>, Append(base, t))
  BY DEF Makes
<1>1. /\ Step(x1, Append(base, s), Append(Append(base, s), t1))
      /\ Step(x2, Append(Append(base, s), t1), Append(Append(Append(base, s), t1), t2))
      /\ Step(x3, Append(Append(Append(base, s), t1), t2), Append(base, t))
  BY Stacked, Pushes, Turns3
<1> QED
  BY <1>1, Stacked, Onto1, Derive3

LEMMA Makes_k1_on1 ==
  ASSUME NEW x1 \in Silent, NEW x2, NEW s \in Types, NEW t \in Types, Effect(x2, << s >>, t)
  PROVE  Makes(<<x1, x2>>, << s >>, t)
<1> SUFFICES ASSUME NEW base \in Stacks
             PROVE  Derives(<<x1, x2>>, base \o << s >>, Append(base, t))
  BY DEF Makes
<1>1. /\ Step(x1, Append(base, s), Append(base, s))
      /\ Step(x2, Append(base, s), Append(base, t))
  BY Stacked, Keeps, Turns
<1> QED
  BY <1>1, Stacked, Onto1, Derive2

LEMMA Makes_kk1_on1 ==
  ASSUME NEW x1 \in Silent, NEW x2 \in Silent, NEW x3, NEW s \in Types, NEW t \in Types,
         Effect(x3, << s >>, t)
  PROVE  Makes(<<x1, x2, x3>>, << s >>, t)
<1> SUFFICES ASSUME NEW base \in Stacks
             PROVE  Derives(<<x1, x2, x3>>, base \o << s >>, Append(base, t))
  BY DEF Makes
<1>1. /\ Step(x1, Append(base, s), Append(base, s))
      /\ Step(x2, Append(base, s), Append(base, s))
      /\ Step(x3, Append(base, s), Append(base, t))
  BY Stacked, Keeps, Turns
<1> QED
  BY <1>1, Stacked, Onto1, Derive3

LEMMA Makes_02_on1 ==
  ASSUME NEW x1, NEW x2, NEW s \in Types, NEW t1 \in Types, NEW t \in Types,
         Effect(x1, <<>>, t1), Effect(x2, <<s, t1>>, t)
  PROVE  Makes(<<x1, x2>>, << s >>, t)
<1> SUFFICES ASSUME NEW base \in Stacks
             PROVE  Derives(<<x1, x2>>, base \o << s >>, Append(base, t))
  BY DEF Makes
<1>1. /\ Step(x1, Append(base, s), Append(Append(base, s), t1))
      /\ Step(x2, Append(Append(base, s), t1), Append(base, t))
  BY Stacked, Pushes, Turns2
<1> QED
  BY <1>1, Stacked, Onto1, Derive2

-----------------------------------------------------------------------------
(* What the symbols of the productions do.                                  *)
LEMMA TokenFacts ==
  /\ Effect("T_SHELL_CMD", <<>>, "text") /\ Effect("T_STRING", <<>>, "text")
  /\ Effect("T_QSTRING", <<>>, "text") /\ Effect("T_INT", <<>>, "text")
  /\ Effect("T_OP", <<>>, "op")
BY DEF Effect, TokenEffect

LEMMA PhraseFacts ==
  /\ Effect("command", <<>>, "statement?") /\ Effect("creation", <<>>, "statement?")
  /\ Effect("attrtypes", <<>>, "declarations") /\ Effect("dropping", <<>>, "statement?")
  /\ Effect("opt_relname", <<>>, "text") /\ Effect("selected", <<>>, "attributes")
  /\ Effect("relations", <<>>, "relations") /\ Effect("opt_where", <<>>, "conditions?")
  /\ Effect("tuples", <<>>, "tuples") /\ Effect("relattr", <<>>, "RELATTR")
  /\ Effect("relattr_or_value", <<>>, "RELATTR_OR_VALUE")
  /\ Effect("conditions", <<>>, "conditions?")
  /\ Effect("more_selected", << "RELATTR" >>, "attributes")
  /\ Effect("qualified", << "text" >>, "RELATTR")
  /\ Effect("more_relations", << "RELATION" >>, "relations")
  /\ Effect("nullable", <<"text", "text", "text">>, "declaration")
  /\ Effect("more_attrtypes", << "declaration" >>, "declarations")
  /\ Effect("values_", <<>>, "values") /\ Effect("more_tuples", << "values" >>, "tuples")
  /\ Effect("value", <<>>, "VALUE") /\ Effect("more_values", << "VALUE" >>, "values")
  /\ Effect("test", << "RELATTR" >>, "CONDITION")
  /\ Effect("more_conditions", << "CONDITION" >>, "conditions")
  /\ Effect("more_conditions", << "CONDITION" >>, "conditions?")
  /\ Effect("conditions", <<>>, "conditions") /\ Effect("nullness", << "RELATTR" >>, "CONDITION")
<1>1. /\ Effect("command", <<>>, "statement?") /\ Effect("creation", <<>>, "statement?")
      /\ Effect("attrtypes", <<>>, "declarations") /\ Effect("dropping", <<>>, "statement?")
      /\ Effect("opt_relname", <<>>, "text") /\ Effect("selected", <<>>, "attributes")
      /\ Effect("relations", <<>>, "relations") /\ Effect("opt_where", <<>>, "conditions?")
      /\ Effect("tuples", <<>>, "tuples") /\ Effect("relattr", <<>>, "RELATTR")
      /\ Effect("relattr_or_value", <<>>, "RELATTR_OR_VALUE")
  BY DEF Effect, PhraseEffect
<1>2. /\ Effect("conditions", <<>>, "conditions?")
      /\ Effect("more_selected", << "RELATTR" >>, "attributes")
      /\ Effect("qualified", << "text" >>, "RELATTR")
      /\ Effect("more_relations", << "RELATION" >>, "relations")
      /\ Effect("nullable", <<"text", "text", "text">>, "declaration")
      /\ Effect("more_attrtypes", << "declaration" >>, "declarations")
  BY DEF Effect, PhraseEffect
<1>3. /\ Effect("values_", <<>>, "values") /\ Effect("more_tuples", << "values" >>, "tuples")
      /\ Effect("value", <<>>, "VALUE") /\ Effect("more_values", << "VALUE" >>, "values")
      /\ Effect("test", << "RELATTR" >>, "CONDITION")
      /\ Effect("more_conditions", << "CONDITION" >>, "conditions")
      /\ Effect("more_conditions", << "CONDITION" >>, "conditions?")
      /\ Effect("conditions", <<>>, "conditions") /\ Effect("nullness", << "RELATTR" >>, "CONDITION")
  BY DEF Effect, PhraseEffect
<1> QED
  BY <1>1, <1>2, <1>3

LEMMA PlainFacts ==
  /\ Effect("EOF", <<>>, "statement?") /\ Effect("SHELL", << "text" >>, "statement?")
  /\ Effect("nothing", <<>>, "statement?") /\ Effect("unnamed", <<>>, "text")
  /\ Effect("EXIT", <<>>, "statement?") /\ Effect("nothing", <<>>, "conditions?")
  /\ Effect("star", <<>>, "text") /\ Effect("nothing", <<>>, "nothing")
  /\ Effect("EQ_OP", <<>>, "op")
BY DEF Effect, PlainEffect

LEMMA NodeFacts ==
  /\ Effect("CREATEDATABASE", << "text" >>, "statement?")
  /\ Effect("CREATETABLE", <<"text", "declarations">>, "statement?")
  /\ Effect("CREATEINDEX", <<"text", "text">>, "statement?")
  /\ Effect("DROPDATABASE", << "text" >>, "statement?")
  /\ Effect("DROPTABLE", << "text" >>, "statement?")
  /\ Effect("DROPINDEX", <<"text", "text">>, "statement?")
  /\ Effect("USEDATABASE", << "text" >>, "statement?") /\ Effect("SHOWTABLES", <<>>, "statement?")
  /\ Effect("DESCTABLE", << "text" >>, "statement?")
  /\ Effect("LOAD", <<"text", "text">>, "statement?")
  /\ Effect("SET", <<"text", "text">>, "statement?") /\ Effect("HELP", << "text" >>, "statement?")
  /\ Effect("PRINT", << "text" >>, "statement?")
  /\ Effect("QUERY", <<"attributes", "relations", "conditions?">>, "statement?")
  /\ Effect("INSERT", <<"text", "tuples">>, "statement?")
  /\ Effect("DELETE", <<"text", "conditions?">>, "statement?")
  /\ Effect("UPDATE", <<"text", "RELATTR", "RELATTR_OR_VALUE", "conditions?">>, "statement?")
  /\ Effect("ATTR", << "text" >>, "RELATTR")
  /\ Effect("LIST", <<"RELATTR", "nothing">>, "attributes")
  /\ Effect("LIST", <<"RELATTR", "attributes">>, "attributes")
  /\ Effect("RELATTR", <<"text", "text">>, "RELATTR")
  /\ Effect("RELATION", << "text" >>, "RELATION")
  /\ Effect("LIST", <<"RELATION", "relations">>, "relations")
  /\ Effect("ATTRPROP", << "text" >>, "declaration")
  /\ Effect("ATTRTYPE_NOT_NULL", <<"text", "text", "text">>, "declaration")
  /\ Effect("ATTRTYPE", <<"text", "text", "text">>, "declaration")
  /\ Effect("LIST", <<"declaration", "declarations">>, "declarations")
  /\ Effect("LIST", <<"values", "tuples">>, "tuples") /\ Effect("NULLV", <<>>, "VALUE")
  /\ Effect("LIST", <<"VALUE", "values">>, "values") /\ Effect("VALUE", << "text" >>, "VALUE")
  /\ Effect("LIST", <<"CONDITION", "conditions">>, "conditions")
  /\ Effect("LIST", <<"CONDITION", "conditions?">>, "conditions?")
  /\ Effect("CONDITION", <<"RELATTR", "op", "RELATTR_OR_VALUE">>, "CONDITION")
  /\ Effect("IS_NULL", << "RELATTR" >>, "CONDITION")
  /\ Effect("NOT_NULL", << "RELATTR" >>, "CONDITION")
  /\ Effect("RELATTR_OF", << "RELATTR" >>, "RELATTR_OR_VALUE")
  /\ Effect("VALUE_OF", << "VALUE" >>, "RELATTR_OR_VALUE")
  /\ Effect("LIST", <<"RELATION", "nothing">>, "relations")
  /\ Effect("LIST", <<"declaration", "nothing">>, "declarations")
  /\ Effect("LIST", <<"values", "nothing">>, "tuples")
  /\ Effect("LIST", <<"VALUE", "nothing">>, "values")
  /\ Effect("LIST", <<"CONDITION", "nothing">>, "conditions")
  /\ Effect("LIST", <<"CONDITION", "nothing">>, "conditions?")
<1>1. /\ Effect("CREATEDATABASE", << "text" >>, "statement?")
      /\ Effect("CREATETABLE", <<"text", "declarations">>, "statement?")
      /\ Effect("CREATEINDEX", <<"text", "text">>, "statement?")
      /\ Effect("DROPDATABASE", << "text" >>, "statement?")
      /\ Effect("DROPTABLE", << "text" >>, "statement?")
      /\ Effect("DROPINDEX", <<"text", "text">>, "statement?")
  BY DEF Effect, NodeEffect, ListEffect
<1>2. /\ Effect("USEDATABASE", << "text" >>, "statement?") /\ Effect("SHOWTABLES", <<>>, "statement?")
      /\ Effect("DESCTABLE", << "text" >>, "statement?")
      /\ Effect("LOAD", <<"text", "text">>, "statement?")
      /\ Effect("SET", <<"text", "text">>, "statement?") /\ Effect("HELP", << "text" >>, "statement?")
      /\ Effect("PRINT", << "text" >>, "statement?")
      /\ Effect("QUERY", <<"attributes", "relations", "conditions?">>, "statement?")
  BY DEF Effect, NodeEffect, ListEffect
<1>3. /\ Effect("INSERT", <<"text", "tuples">>, "statement?")
      /\ Effect("DELETE", <<"text", "conditions?">>, "statement?")
      /\ Effect("UPDATE", <<"text", "RELATTR", "RELATTR_OR_VALUE", "conditions?">>, "statement?")
      /\ Effect("ATTR", << "text" >>, "RELATTR")
      /\ Effect("LIST", <<"RELATTR", "nothing">>, "attributes")
      /\ Effect("LIST", <<"RELATTR", "attributes">>, "attributes")
  BY DEF Effect, NodeEffect, ListEffect
<1>4. /\ Effect("RELATTR", <<"text", "text">>, "RELATTR")
      /\ Effect("RELATION", << "text" >>, "RELATION")
      /\ Effect("LIST", <<"RELATION", "relations">>, "relations")
      /\ Effect("ATTRPROP", << "text" >>, "declaration")
      /\ Effect("ATTRTYPE_NOT_NULL", <<"text", "text", "text">>, "declaration")
      /\ Effect("ATTRTYPE", <<"text", "text", "text">>, "declaration")
  BY DEF Effect, NodeEffect, ListEffect
<1>5. /\ Effect("LIST", <<"declaration", "declarations">>, "declarations")
      /\ Effect("LIST", <<"values", "tuples">>, "tuples") /\ Effect("NULLV", <<>>, "VALUE")
      /\ Effect("LIST", <<"VALUE", "values">>, "values") /\ Effect("VALUE", << "text" >>, "VALUE")
      /\ Effect("LIST", <<"CONDITION", "conditions">>, "conditions")
      /\ Effect("LIST", <<"CONDITION", "conditions?">>, "conditions?")
      /\ Effect("CONDITION", <<"RELATTR", "op", "RELATTR_OR_VALUE">>, "CONDITION")
  BY DEF Effect, NodeEffect, ListEffect
<1>6. /\ Effect("IS_NULL", << "RELATTR" >>, "CONDITION")
      /\ Effect("NOT_NULL", << "RELATTR" >>, "CONDITION")
      /\ Effect("RELATTR_OF", << "RELATTR" >>, "RELATTR_OR_VALUE")
      /\ Effect("VALUE_OF", << "VALUE" >>, "RELATTR_OR_VALUE")
      /\ Effect("LIST", <<"RELATION", "nothing">>, "relations")
      /\ Effect("LIST", <<"declaration", "nothing">>, "declarations")
  BY DEF Effect, NodeEffect, ListEffect
<1>7. /\ Effect("LIST", <<"values", "nothing">>, "tuples")
      /\ Effect("LIST", <<"VALUE", "nothing">>, "values")
      /\ Effect("LIST", <<"CONDITION", "nothing">>, "conditions")
      /\ Effect("LIST", <<"CONDITION", "nothing">>, "conditions?")
  BY DEF Effect, NodeEffect, ListEffect
<1> QED
  BY <1>1, <1>2, <1>3, <1>4, <1>5, <1>6, <1>7

-----------------------------------------------------------------------------
(* Each production does what its symbol does.                               *)
\* The nonterminals.
Phrases ==
  {"start", "command", "creation", "dropping", "opt_relname", "opt_where", "selected",
   "more_selected", "relattr", "qualified", "relations", "more_relations", "attrtypes",
   "nullable", "more_attrtypes", "tuples", "more_tuples", "values_", "more_values", "value",
   "conditions", "more_conditions", "test", "nullness", "relattr_or_value"}

LEMMA StartMake ==
  ASSUME NEW p \in Start, NEW in, NEW t
  PROVE  p[1] \in Phrases /\ (PhraseEffect(p[1], in, t) => Makes(p[3], in, t))
<1>1. CASE p = <<"start", "T_EOF", <<"T_EOF", "EOF">>>>
  <2>1. p[1] = "start" /\ p[3] = <<"T_EOF", "EOF">>
    BY <1>1
  <2>2. PhraseEffect(p[1], in, t) => in = <<>> /\ t = "statement?"
    BY <2>1 DEF PhraseEffect
  <2>3. Makes(<<"T_EOF", "EOF">>, <<>>, "statement?")
      BY Makes_k0, PlainFacts DEF Silent, Types
  <2> QED
    BY <2>1, <2>2, <2>3 DEF Phrases
<1>2. CASE p = <<"start", "T_SHELL_CMD", <<"T_SHELL_CMD", "SHELL">>>>
  <2>1. p[1] = "start" /\ p[3] = <<"T_SHELL_CMD", "SHELL">>
    BY <1>2
  <2>2. PhraseEffect(p[1], in, t) => in = <<>> /\ t = "statement?"
    BY <2>1 DEF PhraseEffect
  <2>3. Makes(<<"T_SHELL_CMD", "SHELL">>, <<>>, "statement?")
      BY Makes_01, PlainFacts, TokenFacts DEF Silent, Types
  <2> QED
    BY <2>1, <2>2, <2>3 DEF Phrases
<1>3. CASE p = <<"start", "any", <<"command", ";">>>>
  <2>1. p[1] = "start" /\ p[3] = <<"command", ";">>
    BY <1>3
  <2>2. PhraseEffect(p[1], in, t) => in = <<>> /\ t = "statement?"
    BY <2>1 DEF PhraseEffect
  <2>3. Makes(<<"command", ";">>, <<>>, "statement?")
      BY Makes_0k, PhraseFacts DEF Silent, Types
  <2> QED
    BY <2>1, <2>2, <2>3 DEF Phrases
<1> QED
  BY <1>1, <1>2, <1>3 DEF Start

LEMMA CommandsMake ==
  ASSUME NEW p \in Commands, NEW in, NEW t
  PROVE  p[1] \in Phrases /\ (PhraseEffect(p[1], in, t) => Makes(p[3], in, t))
<1>1. CASE p = <<"command", ";", << "nothing" >>>>
  <2>1. p[1] = "command" /\ p[3] = << "nothing" >>
    BY <1>1
  <2>2. PhraseEffect(p[1], in, t) => in = <<>> /\ t = "statement?"
    BY <2>1 DEF PhraseEffect
  <2>3. Makes(<< "nothing" >>, <<>>, "statement?")
      BY Makes_0, PlainFacts DEF Silent, Types
  <2> QED
    BY <2>1, <2>2, <2>3 DEF Phrases
<1>2. CASE p = <<"command", "create", <<"create", "creation">>>>
  <2>1. p[1] = "command" /\ p[3] = <<"create", "creation">>
    BY <1>2
  <2>2. PhraseEffect(p[1], in, t) => in = <<>> /\ t = "statement?"
    BY <2>1 DEF PhraseEffect
  <2>3. Makes(<<"create", "creation">>, <<>>, "statement?")
      BY Makes_k0, PhraseFacts DEF Silent, Types
  <2> QED
    BY <2>1, <2>2, <2>3 DEF Phrases
<1>3. CASE p = <<"creation", "database", <<"database", "T_STRING", "CREATEDATABASE">>>>
  <2>1. p[1] = "creation" /\ p[3] = <<"database", "T_STRING", "CREATEDATABASE">>
    BY <1>3
  <2>2. PhraseEffect(p[1], in, t) => in = <<>> /\ t = "statement?"
    BY <2>1 DEF PhraseEffect
  <2>3. Makes(<<"database", "T_STRING", "CREATEDATABASE">>, <<>>, "statement?")
    <3>1. /\ "database" \in Silent /\ "text" \in Types /\ "statement?" \in Types
      BY DEF Silent, Types
    <3>2. /\ Effect("T_STRING", <<>>, "text")
          /\ Effect("CREATEDATABASE", << "text" >>, "statement?")
      BY NodeFacts, TokenFacts
    <3> QED
      BY <3>1, <3>2, Makes_k01
  <2> QED
    BY <2>1, <2>2, <2>3 DEF Phrases
<1>4. CASE p = <<"creation", "table", <<"table", "T_STRING", "(", "attrtypes", ")", "CREATETABLE">>>>
  <2>1. p[1] = "creation" /\ p[3] = <<"table", "T_STRING", "(", "attrtypes", ")", "CREATETABLE">>
    BY <1>4
  <2>2. PhraseEffect(p[1], in, t) => in = <<>> /\ t = "statement?"
    BY <2>1 DEF PhraseEffect
  <2>3. Makes(<<"table", "T_STRING", "(", "attrtypes", ")", "CREATETABLE">>, <<>>, "statement?")
    <3>1. /\ "table" \in Silent /\ "(" \in Silent /\ ")" \in Silent /\ "text" \in Types
          /\ "declarations" \in Types /\ "statement?" \in Types
      BY DEF Silent, Types
    <3>2. /\ Effect("T_STRING", <<>>, "text") /\ Effect("attrtypes", <<>>, "declarations")
          /\ Effect("CREATETABLE", <<"text", "declarations">>, "statement?")
      BY NodeFacts, PhraseFacts, TokenFacts
    <3> QED
      BY <3>1, <3>2, Makes_k0k0k2
  <2> QED
    BY <2>1, <2>2, <2>3 DEF Phrases
<1>5. CASE p = <<"creation", "index", <<"index", "T_STRING", "(", "T_STRING", ")", "CREATEINDEX">>>>
  <2>1. p[1] = "creation" /\ p[3] = <<"index", "T_STRING", "(", "T_STRING", ")", "CREATEINDEX">>
    BY <1>5
  <2>2. PhraseEffect(p[1], in, t) => in = <<>> /\ t = "statement?"
    BY <2>1 DEF PhraseEffect
  <2>3. Makes(<<"index", "T_STRING", "(", "T_STRING", ")", "CREATEINDEX">>, <<>>, "statement?")
    <3>1. /\ "index" \in Silent /\ "(" \in Silent /\ ")" \in Silent /\ "text" \in Types
          /\ "statement?" \in Types
      BY DEF Silent, Types
    <3>2. /\ Effect("T_STRING", <<>>, "text")
          /\ Effect("CREATEINDEX", <<"text", "text">>, "statement?")
      BY NodeFacts, TokenFacts
    <3> QED
      BY <3>1, <3>2, Makes_k0k0k2
  <2> QED
    BY <2>1, <2>2, <2>3 DEF Phrases
<1>6. CASE p = <<"command", "drop", <<"drop", "dropping">>>>
  <2>1. p[1] = "command" /\ p[3] = <<"drop", "dropping">>
    BY <1>6
  <2>2. PhraseEffect(p[1], in, t) => in = <<>> /\ t = "statement?"
    BY <2>1 DEF PhraseEffect
  <2>3. Makes(<<"drop", "dropping">>, <<>>, "statement?")
      BY Makes_k0, PhraseFacts DEF Silent, Types
  <2> QED
    BY <2>1, <2>2, <2>3 DEF Phrases
<1>7. CASE p = <<"dropping", "database", <<"database", "T_STRING", "DROPDATABASE">>>>
  <2>1. p[1] = "dropping" /\ p[3] = <<"database", "T_STRING", "DROPDATABASE">>
    BY <1>7
  <2>2. PhraseEffect(p[1], in, t) => in = <<>> /\ t = "statement?"
    BY <2>1 DEF PhraseEffect
  <2>3. Makes(<<"database", "T_STRING", "DROPDATABASE">>, <<>>, "statement?")
    <3>1. /\ "database" \in Silent /\ "text" \in Types /\ "statement?" \in Types
      BY DEF Silent, Types
    <3>2. /\ Effect("T_STRING", <<>>, "text")
          /\ Effect("DROPDATABASE", << "text" >>, "statement?")
      BY NodeFacts, TokenFacts
    <3> QED
      BY <3>1, <3>2, Makes_k01
  <2> QED
    BY <2>1, <2>2, <2>3 DEF Phrases
<1>8. CASE p = <<"dropping", "table", <<"table", "T_STRING", "DROPTABLE">>>>
  <2>1. p[1] = "dropping" /\ p[3] = <<"table", "T_STRING", "DROPTABLE">>
    BY <1>8
  <2>2. PhraseEffect(p[1], in, t) => in = <<>> /\ t = "statement?"
    BY <2>1 DEF PhraseEffect
  <2>3. Makes(<<"table", "T_STRING", "DROPTABLE">>, <<>>, "statement?")
    <3>1. /\ "table" \in Silent /\ "text" \in Types /\ "statement?" \in Types
      BY DEF Silent, Types
    <3>2. /\ Effect("T_STRING", <<>>, "text") /\ Effect("DROPTABLE", << "text" >>, "statement?")
      BY NodeFacts, TokenFacts
    <3> QED
      BY <3>1, <3>2, Makes_k01
  <2> QED
    BY <2>1, <2>2, <2>3 DEF Phrases
<1>9. CASE p = <<"dropping", "index", <<"index", "T_STRING", "(", "T_STRING", ")", "DROPINDEX">>>>
  <2>1. p[1] = "dropping" /\ p[3] = <<"index", "T_STRING", "(", "T_STRING", ")", "DROPINDEX">>
    BY <1>9
  <2>2. PhraseEffect(p[1], in, t) => in = <<>> /\ t = "statement?"
    BY <2>1 DEF PhraseEffect
  <2>3. Makes(<<"index", "T_STRING", "(", "T_STRING", ")", "DROPINDEX">>, <<>>, "statement?")
    <3>1. /\ "index" \in Silent /\ "(" \in Silent /\ ")" \in Silent /\ "text" \in Types
          /\ "statement?" \in Types
      BY DEF Silent, Types
    <3>2. /\ Effect("T_STRING", <<>>, "text")
          /\ Effect("DROPINDEX", <<"text", "text">>, "statement?")
      BY NodeFacts, TokenFacts
    <3> QED
      BY <3>1, <3>2, Makes_k0k0k2
  <2> QED
    BY <2>1, <2>2, <2>3 DEF Phrases
<1>10. CASE p = <<"command", "use", <<"use", "T_STRING", "USEDATABASE">>>>
  <2>1. p[1] = "command" /\ p[3] = <<"use", "T_STRING", "USEDATABASE">>
    BY <1>10
  <2>2. PhraseEffect(p[1], in, t) => in = <<>> /\ t = "statement?"
    BY <2>1 DEF PhraseEffect
  <2>3. Makes(<<"use", "T_STRING", "USEDATABASE">>, <<>>, "statement?")
    <3>1. /\ "use" \in Silent /\ "text" \in Types /\ "statement?" \in Types
      BY DEF Silent, Types
    <3>2. /\ Effect("T_STRING", <<>>, "text")
          /\ Effect("USEDATABASE", << "text" >>, "statement?")
      BY NodeFacts, TokenFacts
    <3> QED
      BY <3>1, <3>2, Makes_k01
  <2> QED
    BY <2>1, <2>2, <2>3 DEF Phrases
<1>11. CASE p = <<"command", "show", <<"show", "tables", "SHOWTABLES">>>>
  <2>1. p[1] = "command" /\ p[3] = <<"show", "tables", "SHOWTABLES">>
    BY <1>11
  <2>2. PhraseEffect(p[1], in, t) => in = <<>> /\ t = "statement?"
    BY <2>1 DEF PhraseEffect
  <2>3. Makes(<<"show", "tables", "SHOWTABLES">>, <<>>, "statement?")
    <3>1. /\ "show" \in Silent /\ "tables" \in Silent /\ "statement?" \in Types
      BY DEF Silent, Types
    <3>2. Effect("SHOWTABLES", <<>>, "statement?")
      BY NodeFacts
    <3> QED
      BY <3>1, <3>2, Makes_kk0
  <2> QED
    BY <2>1, <2>2, <2>3 DEF Phrases
<1>12. CASE p = <<"command", "desc", <<"desc", "T_STRING", "DESCTABLE">>>>
  <2>1. p[1] = "command" /\ p[3] = <<"desc", "T_STRING", "DESCTABLE">>
    BY <1>12
  <2>2. PhraseEffect(p[1], in, t) => in = <<>> /\ t = "statement?"
    BY <2>1 DEF PhraseEffect
  <2>3. Makes(<<"desc", "T_STRING", "DESCTABLE">>, <<>>, "statement?")
    <3>1. /\ "desc" \in Silent /\ "text" \in Types /\ "statement?" \in Types
      BY DEF Silent, Types
    <3>2. /\ Effect("T_STRING", <<>>, "text") /\ Effect("DESCTABLE", << "text" >>, "statement?")
      BY NodeFacts, TokenFacts
    <3> QED
      BY <3>1, <3>2, Makes_k01
  <2> QED
    BY <2>1, <2>2, <2>3 DEF Phrases
<1>13. CASE p = <<"command", "load", <<"load", "T_STRING", "(", "T_QSTRING", ")", "LOAD">>>>
  <2>1. p[1] = "command" /\ p[3] = <<"load", "T_STRING", "(", "T_QSTRING", ")", "LOAD">>
    BY <1>13
  <2>2. PhraseEffect(p[1], in, t) => in = <<>> /\ t = "statement?"
    BY <2>1 DEF PhraseEffect
  <2>3. Makes(<<"load", "T_STRING", "(", "T_QSTRING", ")", "LOAD">>, <<>>, "statement?")
    <3>1. /\ "load" \in Silent /\ "(" \in Silent /\ ")" \in Silent /\ "text" \in Types
          /\ "statement?" \in Types
      BY DEF Silent, Types
    <3>2. /\ Effect("T_STRING", <<>>, "text") /\ Effect("T_QSTRING", <<>>, "text")
          /\ Effect("LOAD", <<"text", "text">>, "statement?")
      BY NodeFacts, TokenFacts
    <3> QED
      BY <3>1, <3>2, Makes_k0k0k2
  <2> QED
    BY <2>1, <2>2, <2>3 DEF Phrases
<1>14. CASE p = <<"command", "set", <<"set", "T_STRING", "=", "T_QSTRING", "SET">>>>
  <2>1. p[1] = "command" /\ p[3] = <<"set", "T_STRING", "=", "T_QSTRING", "SET">>
    BY <1>14
  <2>2. PhraseEffect(p[1], in, t) => in = <<>> /\ t = "statement?"
    BY <2>1 DEF PhraseEffect
  <2>3. Makes(<<"set", "T_STRING", "=", "T_QSTRING", "SET">>, <<>>, "statement?")
    <3>1. /\ "set" \in Silent /\ "=" \in Silent /\ "text" \in Types /\ "statement?" \in Types
      BY DEF Silent, Types
    <3>2. /\ Effect("T_STRING", <<>>, "text") /\ Effect("T_QSTRING", <<>>, "text")
          /\ Effect("SET", <<"text", "text">>, "statement?")
      BY NodeFacts, TokenFacts
    <3> QED
      BY <3>1, <3>2, Makes_k0k02
  <2> QED
    BY <2>1, <2>2, <2>3 DEF Phrases
<1>15. CASE p = <<"command", "help", <<"help", "opt_relname", "HELP">>>>
  <2>1. p[1] = "command" /\ p[3] = <<"help", "opt_relname", "HELP">>
    BY <1>15
  <2>2. PhraseEffect(p[1], in, t) => in = <<>> /\ t = "statement?"
    BY <2>1 DEF PhraseEffect
  <2>3. Makes(<<"help", "opt_relname", "HELP">>, <<>>, "statement?")
    <3>1. /\ "help" \in Silent /\ "text" \in Types /\ "statement?" \in Types
      BY DEF Silent, Types
    <3>2. /\ Effect("opt_relname", <<>>, "text") /\ Effect("HELP", << "text" >>, "statement?")
      BY NodeFacts, PhraseFacts
    <3> QED
      BY <3>1, <3>2, Makes_k01
  <2> QED
    BY <2>1, <2>2, <2>3 DEF Phrases
<1>16. CASE p = <<"opt_relname", "T_STRING", << "T_STRING" >>>>
  <2>1. p[1] = "opt_relname" /\ p[3] = << "T_STRING" >>
    BY <1>16
  <2>2. PhraseEffect(p[1], in, t) => in = <<>> /\ t = "text"
    BY <2>1 DEF PhraseEffect
  <2>3. Makes(<< "T_STRING" >>, <<>>, "text")
      BY Makes_0, TokenFacts DEF Silent, Types
  <2> QED
    BY <2>1, <2>2, <2>3 DEF Phrases
<1>17. CASE p = <<"opt_relname", "any", << "unnamed" >>>>
  <2>1. p[1] = "opt_relname" /\ p[3] = << "unnamed" >>
    BY <1>17
  <2>2. PhraseEffect(p[1], in, t) => in = <<>> /\ t = "text"
    BY <2>1 DEF PhraseEffect
  <2>3. Makes(<< "unnamed" >>, <<>>, "text")
      BY Makes_0, PlainFacts DEF Silent, Types
  <2> QED
    BY <2>1, <2>2, <2>3 DEF Phrases
<1>18. CASE p = <<"command", "print", <<"print", "T_STRING", "PRINT">>>>
  <2>1. p[1] = "command" /\ p[3] = <<"print", "T_STRING", "PRINT">>
    BY <1>18
  <2>2. PhraseEffect(p[1], in, t) => in = <<>> /\ t = "statement?"
    BY <2>1 DEF PhraseEffect
  <2>3. Makes(<<"print", "T_STRING", "PRINT">>, <<>>, "statement?")
    <3>1. /\ "print" \in Silent /\ "text" \in Types /\ "statement?" \in Types
      BY DEF Silent, Types
    <3>2. /\ Effect("T_STRING", <<>>, "text") /\ Effect("PRINT", << "text" >>, "statement?")
      BY NodeFacts, TokenFacts
    <3> QED
      BY <3>1, <3>2, Makes_k01
  <2> QED
    BY <2>1, <2>2, <2>3 DEF Phrases
<1>19. CASE p = <<"command", "exit", <<"exit", "EXIT">>>>
  <2>1. p[1] = "command" /\ p[3] = <<"exit", "EXIT">>
    BY <1>19
  <2>2. PhraseEffect(p[1], in, t) => in = <<>> /\ t = "statement?"
    BY <2>1 DEF PhraseEffect
  <2>3. Makes(<<"exit", "EXIT">>, <<>>, "statement?")
      BY Makes_k0, PlainFacts DEF Silent, Types
  <2> QED
    BY <2>1, <2>2, <2>3 DEF Phrases
<1> QED
  BY <1>1, <1>2, <1>3, <1>4, <1>5, <1>6, <1>7, <1>8, <1>9, <1>10, <1>11, <1>12, <1>13, <1>14,
     <1>15, <1>16, <1>17, <1>18, <1>19 DEF Commands

LEMMA QueriesMake ==
  ASSUME NEW p \in Queries, NEW in, NEW t
  PROVE  p[1] \in Phrases /\ (PhraseEffect(p[1], in, t) => Makes(p[3], in, t))
<1>1. CASE p = <<"command", "select", <<"select", "selected", "from", "relations", "opt_where",
            "QUERY">>>>
  <2>1. p[1] = "command" /\ p[3] = <<"select", "selected", "from", "relations", "opt_where", "QUERY">>
    BY <1>1
  <2>2. PhraseEffect(p[1], in, t) => in = <<>> /\ t = "statement?"
    BY <2>1 DEF PhraseEffect
  <2>3. Makes(<<"select", "selected", "from", "relations", "opt_where", "QUERY">>, <<>>, "statement?")
    <3>1. /\ "select" \in Silent /\ "from" \in Silent /\ "attributes" \in Types
          /\ "relations" \in Types /\ "conditions?" \in Types /\ "statement?" \in Types
      BY DEF Silent, Types
    <3>2. /\ Effect("selected", <<>>, "attributes") /\ Effect("relations", <<>>, "relations")
          /\ Effect("opt_where", <<>>, "conditions?")
          /\ Effect("QUERY", <<"attributes", "relations", "conditions?">>, "statement?")
      BY NodeFacts, PhraseFacts
    <3> QED
      BY <3>1, <3>2, Makes_k0k003
  <2> QED
    BY <2>1, <2>2, <2>3 DEF Phrases
<1>2. CASE p = <<"command", "insert", <<"insert", "into", "T_STRING", "values", "tuples", "INSERT">>>>
  <2>1. p[1] = "command" /\ p[3] = <<"insert", "into", "T_STRING", "values", "tuples", "INSERT">>
    BY <1>2
  <2>2. PhraseEffect(p[1], in, t) => in = <<>> /\ t = "statement?"
    BY <2>1 DEF PhraseEffect
  <2>3. Makes(<<"insert", "into", "T_STRING", "values", "tuples", "INSERT">>, <<>>, "statement?")
    <3>1. /\ "insert" \in Silent /\ "into" \in Silent /\ "values" \in Silent /\ "text" \in Types
          /\ "tuples" \in Types /\ "statement?" \in Types
      BY DEF Silent, Types
    <3>2. /\ Effect("T_STRING", <<>>, "text") /\ Effect("tuples", <<>>, "tuples")
          /\ Effect("INSERT", <<"text", "tuples">>, "statement?")
      BY NodeFacts, PhraseFacts, TokenFacts
    <3> QED
      BY <3>1, <3>2, Makes_kk0k02
  <2> QED
    BY <2>1, <2>2, <2>3 DEF Phrases
<1>3. CASE p = <<"command", "delete", <<"delete", "from", "T_STRING", "opt_where", "DELETE">>>>
  <2>1. p[1] = "command" /\ p[3] = <<"delete", "from", "T_STRING", "opt_where", "DELETE">>
    BY <1>3
  <2>2. PhraseEffect(p[1], in, t) => in = <<>> /\ t = "statement?"
    BY <2>1 DEF PhraseEffect
  <2>3. Makes(<<"delete", "from", "T_STRING", "opt_where", "DELETE">>, <<>>, "statement?")
    <3>1. /\ "delete" \in Silent /\ "from" \in Silent /\ "text" \in Types
          /\ "conditions?" \in Types /\ "statement?" \in Types
      BY DEF Silent, Types
    <3>2. /\ Effect("T_STRING", <<>>, "text") /\ Effect("opt_where", <<>>, "conditions?")
          /\ Effect("DELETE", <<"text", "conditions?">>, "statement?")
      BY NodeFacts, PhraseFacts, TokenFacts
    <3> QED
      BY <3>1, <3>2, Makes_kk002
  <2> QED
    BY <2>1, <2>2, <2>3 DEF Phrases
<1>4. CASE p = <<"command", "update", <<"update", "T_STRING", "set", "relattr", "=",
            "relattr_or_value", "opt_where", "UPDATE">>>>
  <2>1. p[1] = "command" /\ p[3] = <<"update", "T_STRING", "set", "relattr", "=", "relattr_or_value",
              "opt_where", "UPDATE">>
    BY <1>4
  <2>2. PhraseEffect(p[1], in, t) => in = <<>> /\ t = "statement?"
    BY <2>1 DEF PhraseEffect
  <2>3. Makes(<<"update", "T_STRING", "set", "relattr", "=", "relattr_or_value", "opt_where",
              "UPDATE">>, <<>>, "statement?")
    <3>1. /\ "update" \in Silent /\ "set" \in Silent /\ "=" \in Silent /\ "text" \in Types
          /\ "RELATTR" \in Types /\ "RELATTR_OR_VALUE" \in Types /\ "conditions?" \in Types
          /\ "statement?" \in Types
      BY DEF Silent, Types
    <3>2. /\ Effect("T_STRING", <<>>, "text") /\ Effect("relattr", <<>>, "RELATTR")
          /\ Effect("relattr_or_value", <<>>, "RELATTR_OR_VALUE")
          /\ Effect("opt_where", <<>>, "conditions?")
          /\ Effect("UPDATE", <<"text", "RELATTR", "RELATTR_OR_VALUE", "conditions?">>, "statement?")
      BY NodeFacts, PhraseFacts, TokenFacts
    <3> QED
      BY <3>1, <3>2, Makes_k0k0k004
  <2> QED
    BY <2>1, <2>2, <2>3 DEF Phrases
<1>5. CASE p = <<"opt_where", "where", <<"where", "conditions">>>>
  <2>1. p[1] = "opt_where" /\ p[3] = <<"where", "conditions">>
    BY <1>5
  <2>2. PhraseEffect(p[1], in, t) => in = <<>> /\ t = "conditions?"
    BY <2>1 DEF PhraseEffect
  <2>3. Makes(<<"where", "conditions">>, <<>>, "conditions?")
      BY Makes_k0, PhraseFacts DEF Silent, Types
  <2> QED
    BY <2>1, <2>2, <2>3 DEF Phrases
<1>6. CASE p = <<"opt_where", "any", << "nothing" >>>>
  <2>1. p[1] = "opt_where" /\ p[3] = << "nothing" >>
    BY <1>6
  <2>2. PhraseEffect(p[1], in, t) => in = <<>> /\ t = "conditions?"
    BY <2>1 DEF PhraseEffect
  <2>3. Makes(<< "nothing" >>, <<>>, "conditions?")
      BY Makes_0, PlainFacts DEF Silent, Types
  <2> QED
    BY <2>1, <2>2, <2>3 DEF Phrases
<1> QED
  BY <1>1, <1>2, <1>3, <1>4, <1>5, <1>6 DEF Queries

LEMMA EndsMake ==
  ASSUME NEW m, NEW in, NEW t, PhraseEffect(m, in, t),
         m \in {"more_selected", "more_relations", "more_attrtypes",
                "more_tuples", "more_values", "more_conditions"}
  PROVE  Makes(<<"nothing", "LIST">>, in, t)
<1>1. Makes(<<"nothing", "LIST">>, << "RELATTR" >>, "attributes")
    BY Makes_02_on1, NodeFacts, PlainFacts DEF Silent, Types
<1>2. Makes(<<"nothing", "LIST">>, << "RELATION" >>, "relations")
    BY Makes_02_on1, NodeFacts, PlainFacts DEF Silent, Types
<1>3. Makes(<<"nothing", "LIST">>, << "declaration" >>, "declarations")
    BY Makes_02_on1, NodeFacts, PlainFacts DEF Silent, Types
<1>4. Makes(<<"nothing", "LIST">>, << "values" >>, "tuples")
    BY Makes_02_on1, NodeFacts, PlainFacts DEF Silent, Types
<1>5. Makes(<<"nothing", "LIST">>, << "VALUE" >>, "values")
    BY Makes_02_on1, NodeFacts, PlainFacts DEF Silent, Types
<1>6. Makes(<<"nothing", "LIST">>, << "CONDITION" >>, "conditions")
    BY Makes_02_on1, NodeFacts, PlainFacts DEF Silent, Types
<1>7. Makes(<<"nothing", "LIST">>, << "CONDITION" >>, "conditions?")
    BY Makes_02_on1, NodeFacts, PlainFacts DEF Silent, Types
<1> QED
  BY <1>1, <1>2, <1>3, <1>4, <1>5, <1>6, <1>7 DEF PhraseEffect

LEMMA PartsMake ==
  ASSUME NEW p \in Parts, NEW in, NEW t
  PROVE  p[1] \in Phrases /\ (PhraseEffect(p[1], in, t) => Makes(p[3], in, t))
<1>1. CASE p = <<"selected", "*", <<"*", "star", "ATTR", "nothing", "LIST">>>>
  <2>1. p[1] = "selected" /\ p[3] = <<"*", "star", "ATTR", "nothing", "LIST">>
    BY <1>1
  <2>2. PhraseEffect(p[1], in, t) => in = <<>> /\ t = "attributes"
    BY <2>1 DEF PhraseEffect
  <2>3. Makes(<<"*", "star", "ATTR", "nothing", "LIST">>, <<>>, "attributes")
    <3>1. /\ "*" \in Silent /\ "text" \in Types /\ "RELATTR" \in Types /\ "nothing" \in Types
          /\ "attributes" \in Types
      BY DEF Silent, Types
    <3>2. /\ Effect("star", <<>>, "text") /\ Effect("ATTR", << "text" >>, "RELATTR")
          /\ Effect("nothing", <<>>, "nothing")
          /\ Effect("LIST", <<"RELATTR", "nothing">>, "attributes")
      BY NodeFacts, PlainFacts
    <3> QED
      BY <3>1, <3>2, Makes_k0102
  <2> QED
    BY <2>1, <2>2, <2>3 DEF Phrases
<1>2. CASE p = <<"selected", "T_STRING", <<"relattr", "more_selected">>>>
  <2>1. p[1] = "selected" /\ p[3] = <<"relattr", "more_selected">>
    BY <1>2
  <2>2. PhraseEffect(p[1], in, t) => in = <<>> /\ t = "attributes"
    BY <2>1 DEF PhraseEffect
  <2>3. Makes(<<"relattr", "more_selected">>, <<>>, "attributes")
      BY Makes_01, PhraseFacts DEF Silent, Types
  <2> QED
    BY <2>1, <2>2, <2>3 DEF Phrases
<1>3. CASE p = <<"more_selected", ",", <<",", "relattr", "more_selected", "LIST">>>>
  <2>1. p[1] = "more_selected" /\ p[3] = <<",", "relattr", "more_selected", "LIST">>
    BY <1>3
  <2>2. PhraseEffect(p[1], in, t) => in = << "RELATTR" >> /\ t = "attributes"
    BY <2>1 DEF PhraseEffect
  <2>3. Makes(<<",", "relattr", "more_selected", "LIST">>, << "RELATTR" >>, "attributes")
    <3>1. /\ "," \in Silent /\ "RELATTR" \in Types /\ "attributes" \in Types
      BY DEF Silent, Types
    <3>2. /\ Effect("relattr", <<>>, "RELATTR")
          /\ Effect("more_selected", << "RELATTR" >>, "attributes")
          /\ Effect("LIST", <<"RELATTR", "attributes">>, "attributes")
      BY NodeFacts, PhraseFacts
    <3> QED
      BY <3>1, <3>2, Makes_k012_on1
  <2> QED
    BY <2>1, <2>2, <2>3 DEF Phrases
<1>4. CASE p = <<"relattr", "T_STRING", <<"T_STRING", "qualified">>>>
  <2>1. p[1] = "relattr" /\ p[3] = <<"T_STRING", "qualified">>
    BY <1>4
  <2>2. PhraseEffect(p[1], in, t) => in = <<>> /\ t = "RELATTR"
    BY <2>1 DEF PhraseEffect
  <2>3. Makes(<<"T_STRING", "qualified">>, <<>>, "RELATTR")
      BY Makes_01, PhraseFacts, TokenFacts DEF Silent, Types
  <2> QED
    BY <2>1, <2>2, <2>3 DEF Phrases
<1>5. CASE p = <<"qualified", ".", <<".", "T_STRING", "RELATTR">>>>
  <2>1. p[1] = "qualified" /\ p[3] = <<".", "T_STRING", "RELATTR">>
    BY <1>5
  <2>2. PhraseEffect(p[1], in, t) => in = << "text" >> /\ t = "RELATTR"
    BY <2>1 DEF PhraseEffect
  <2>3. Makes(<<".", "T_STRING", "RELATTR">>, << "text" >>, "RELATTR")
    <3>1. /\ "." \in Silent /\ "text" \in Types /\ "RELATTR" \in Types
      BY DEF Silent, Types
    <3>2. /\ Effect("T_STRING", <<>>, "text") /\ Effect("RELATTR", <<"text", "text">>, "RELATTR")
      BY NodeFacts, TokenFacts
    <3> QED
      BY <3>1, <3>2, Makes_k02_on1
  <2> QED
    BY <2>1, <2>2, <2>3 DEF Phrases
<1>6. CASE p = <<"qualified", "any", << "ATTR" >>>>
  <2>1. p[1] = "qualified" /\ p[3] = << "ATTR" >>
    BY <1>6
  <2>2. PhraseEffect(p[1], in, t) => in = << "text" >> /\ t = "RELATTR"
    BY <2>1 DEF PhraseEffect
  <2>3. Makes(<< "ATTR" >>, << "text" >>, "RELATTR")
      BY Makes_1_on1, NodeFacts DEF Silent, Types
  <2> QED
    BY <2>1, <2>2, <2>3 DEF Phrases
<1>7. CASE p = <<"relations", "T_STRING", <<"T_STRING", "RELATION", "more_relations">>>>
  <2>1. p[1] = "relations" /\ p[3] = <<"T_STRING", "RELATION", "more_relations">>
    BY <1>7
  <2>2. PhraseEffect(p[1], in, t) => in = <<>> /\ t = "relations"
    BY <2>1 DEF PhraseEffect
  <2>3. Makes(<<"T_STRING", "RELATION", "more_relations">>, <<>>, "relations")
    <3>1. /\ "text" \in Types /\ "RELATION" \in Types /\ "relations" \in Types
      BY DEF Silent, Types
    <3>2. /\ Effect("T_STRING", <<>>, "text") /\ Effect("RELATION", << "text" >>, "RELATION")
          /\ Effect("more_relations", << "RELATION" >>, "relations")
      BY NodeFacts, PhraseFacts, TokenFacts
    <3> QED
      BY <3>1, <3>2, Makes_011
  <2> QED
    BY <2>1, <2>2, <2>3 DEF Phrases
<1>8. CASE p = <<"more_relations", ",", <<",", "relations", "LIST">>>>
  <2>1. p[1] = "more_relations" /\ p[3] = <<",", "relations", "LIST">>
    BY <1>8
  <2>2. PhraseEffect(p[1], in, t) => in = << "RELATION" >> /\ t = "relations"
    BY <2>1 DEF PhraseEffect
  <2>3. Makes(<<",", "relations", "LIST">>, << "RELATION" >>, "relations")
    <3>1. /\ "," \in Silent /\ "relations" \in Types /\ "RELATION" \in Types
      BY DEF Silent, Types
    <3>2. /\ Effect("relations", <<>>, "relations")
          /\ Effect("LIST", <<"RELATION", "relations">>, "relations")
      BY NodeFacts, PhraseFacts
    <3> QED
      BY <3>1, <3>2, Makes_k02_on1
  <2> QED
    BY <2>1, <2>2, <2>3 DEF Phrases
<1>9. CASE p = <<"attrtypes", "T_STRING", <<"T_STRING", "T_STRING", "(", "T_INT", ")", "nullable",
            "more_attrtypes">>>>
  <2>1. p[1] = "attrtypes" /\ p[3] = <<"T_STRING", "T_STRING", "(", "T_INT", ")", "nullable",
              "more_attrtypes">>
    BY <1>9
  <2>2. PhraseEffect(p[1], in, t) => in = <<>> /\ t = "declarations"
    BY <2>1 DEF PhraseEffect
  <2>3. Makes(<<"T_STRING", "T_STRING", "(", "T_INT", ")", "nullable", "more_attrtypes">>, <<>>,
              "declarations")
    <3>1. /\ "(" \in Silent /\ ")" \in Silent /\ "text" \in Types /\ "declaration" \in Types
          /\ "declarations" \in Types
      BY DEF Silent, Types
    <3>2. /\ Effect("T_STRING", <<>>, "text") /\ Effect("T_INT", <<>>, "text")
          /\ Effect("nullable", <<"text", "text", "text">>, "declaration")
          /\ Effect("more_attrtypes", << "declaration" >>, "declarations")
      BY PhraseFacts, TokenFacts
    <3> QED
      BY <3>1, <3>2, Makes_00k0k31
  <2> QED
    BY <2>1, <2>2, <2>3 DEF Phrases
<1>10. CASE p = <<"attrtypes", "primary", <<"primary", "key", "(", "T_STRING", ")", "ATTRPROP",
            "more_attrtypes">>>>
  <2>1. p[1] = "attrtypes" /\ p[3] = <<"primary", "key", "(", "T_STRING", ")", "ATTRPROP",
              "more_attrtypes">>
    BY <1>10
  <2>2. PhraseEffect(p[1], in, t) => in = <<>> /\ t = "declarations"
    BY <2>1 DEF PhraseEffect
  <2>3. Makes(<<"primary", "key", "(", "T_STRING", ")", "ATTRPROP", "more_attrtypes">>, <<>>,
              "declarations")
    <3>1. /\ "primary" \in Silent /\ "key" \in Silent /\ "(" \in Silent /\ ")" \in Silent
          /\ "text" \in Types /\ "declaration" \in Types /\ "declarations" \in Types
      BY DEF Silent, Types
    <3>2. /\ Effect("T_STRING", <<>>, "text") /\ Effect("ATTRPROP", << "text" >>, "declaration")
          /\ Effect("more_attrtypes", << "declaration" >>, "declarations")
      BY NodeFacts, PhraseFacts, TokenFacts
    <3> QED
      BY <3>1, <3>2, Makes_kkk0k11
  <2> QED
    BY <2>1, <2>2, <2>3 DEF Phrases
<1>11. CASE p = <<"nullable", "not", <<"not", "null", "ATTRTYPE_NOT_NULL">>>>
  <2>1. p[1] = "nullable" /\ p[3] = <<"not", "null", "ATTRTYPE_NOT_NULL">>
    BY <1>11
  <2>2. PhraseEffect(p[1], in, t) => in = <<"text", "text", "text">> /\ t = "declaration"
    BY <2>1 DEF PhraseEffect
  <2>3. Makes(<<"not", "null", "ATTRTYPE_NOT_NULL">>, <<"text", "text", "text">>, "declaration")
    <3>1. /\ "not" \in Silent /\ "null" \in Silent /\ "text" \in Types /\ "declaration" \in Types
      BY DEF Silent, Types
    <3>2. Effect("ATTRTYPE_NOT_NULL", <<"text", "text", "text">>, "declaration")
      BY NodeFacts
    <3> QED
      BY <3>1, <3>2, Makes_kk3_on3
  <2> QED
    BY <2>1, <2>2, <2>3 DEF Phrases
<1>12. CASE p = <<"nullable", "any", << "ATTRTYPE" >>>>
  <2>1. p[1] = "nullable" /\ p[3] = << "ATTRTYPE" >>
    BY <1>12
  <2>2. PhraseEffect(p[1], in, t) => in = <<"text", "text", "text">> /\ t = "declaration"
    BY <2>1 DEF PhraseEffect
  <2>3. Makes(<< "ATTRTYPE" >>, <<"text", "text", "text">>, "declaration")
    <3>1. /\ "text" \in Types /\ "declaration" \in Types
      BY DEF Silent, Types
    <3>2. Effect("ATTRTYPE", <<"text", "text", "text">>, "declaration")
      BY NodeFacts
    <3> QED
      BY <3>1, <3>2, Makes_3_on3
  <2> QED
    BY <2>1, <2>2, <2>3 DEF Phrases
<1>13. CASE p = <<"more_attrtypes", ",", <<",", "attrtypes", "LIST">>>>
  <2>1. p[1] = "more_attrtypes" /\ p[3] = <<",", "attrtypes", "LIST">>
    BY <1>13
  <2>2. PhraseEffect(p[1], in, t) => in = << "declaration" >> /\ t = "declarations"
    BY <2>1 DEF PhraseEffect
  <2>3. Makes(<<",", "attrtypes", "LIST">>, << "declaration" >>, "declarations")
    <3>1. /\ "," \in Silent /\ "declarations" \in Types /\ "declaration" \in Types
      BY DEF Silent, Types
    <3>2. /\ Effect("attrtypes", <<>>, "declarations")
          /\ Effect("LIST", <<"declaration", "declarations">>, "declarations")
      BY NodeFacts, PhraseFacts
    <3> QED
      BY <3>1, <3>2, Makes_k02_on1
  <2> QED
    BY <2>1, <2>2, <2>3 DEF Phrases
<1>14. CASE p = <<"tuples", "(", <<"(", "values_", ")", "more_tuples">>>>
  <2>1. p[1] = "tuples" /\ p[3] = <<"(", "values_", ")", "more_tuples">>
    BY <1>14
  <2>2. PhraseEffect(p[1], in, t) => in = <<>> /\ t = "tuples"
    BY <2>1 DEF PhraseEffect
  <2>3. Makes(<<"(", "values_", ")", "more_tuples">>, <<>>, "tuples")
    <3>1. /\ "(" \in Silent /\ ")" \in Silent /\ "values" \in Types /\ "tuples" \in Types
      BY DEF Silent, Types
    <3>2. /\ Effect("values_", <<>>, "values") /\ Effect("more_tuples", << "values" >>, "tuples")
      BY PhraseFacts
    <3> QED
      BY <3>1, <3>2, Makes_k0k1
  <2> QED
    BY <2>1, <2>2, <2>3 DEF Phrases
<1>15. CASE p = <<"more_tuples", ",", <<",", "tuples", "LIST">>>>
  <2>1. p[1] = "more_tuples" /\ p[3] = <<",", "tuples", "LIST">>
    BY <1>15
  <2>2. PhraseEffect(p[1], in, t) => in = << "values" >> /\ t = "tuples"
    BY <2>1 DEF PhraseEffect
  <2>3. Makes(<<",", "tuples", "LIST">>, << "values" >>, "tuples")
    <3>1. /\ "," \in Silent /\ "tuples" \in Types /\ "values" \in Types
      BY DEF Silent, Types
    <3>2. /\ Effect("tuples", <<>>, "tuples") /\ Effect("LIST", <<"values", "tuples">>, "tuples")
      BY NodeFacts, PhraseFacts
    <3> QED
      BY <3>1, <3>2, Makes_k02_on1
  <2> QED
    BY <2>1, <2>2, <2>3 DEF Phrases
<1>16. CASE p = <<"values_", "T_INT", <<"value", "more_values">>>>
  <2>1. p[1] = "values_" /\ p[3] = <<"value", "more_values">>
    BY <1>16
  <2>2. PhraseEffect(p[1], in, t) => in = <<>> /\ t = "values"
    BY <2>1 DEF PhraseEffect
  <2>3. Makes(<<"value", "more_values">>, <<>>, "values")
      BY Makes_01, PhraseFacts DEF Silent, Types
  <2> QED
    BY <2>1, <2>2, <2>3 DEF Phrases
<1>17. CASE p = <<"values_", "T_QSTRING", <<"value", "more_values">>>>
  <2>1. p[1] = "values_" /\ p[3] = <<"value", "more_values">>
    BY <1>17
  <2>2. PhraseEffect(p[1], in, t) => in = <<>> /\ t = "values"
    BY <2>1 DEF PhraseEffect
  <2>3. Makes(<<"value", "more_values">>, <<>>, "values")
      BY Makes_01, PhraseFacts DEF Silent, Types
  <2> QED
    BY <2>1, <2>2, <2>3 DEF Phrases
<1>18. CASE p = <<"values_", "null", <<"null", "NULLV", "more_values">>>>
  <2>1. p[1] = "values_" /\ p[3] = <<"null", "NULLV", "more_values">>
    BY <1>18
  <2>2. PhraseEffect(p[1], in, t) => in = <<>> /\ t = "values"
    BY <2>1 DEF PhraseEffect
  <2>3. Makes(<<"null", "NULLV", "more_values">>, <<>>, "values")
    <3>1. /\ "null" \in Silent /\ "VALUE" \in Types /\ "values" \in Types
      BY DEF Silent, Types
    <3>2. /\ Effect("NULLV", <<>>, "VALUE") /\ Effect("more_values", << "VALUE" >>, "values")
      BY NodeFacts, PhraseFacts
    <3> QED
      BY <3>1, <3>2, Makes_k01
  <2> QED
    BY <2>1, <2>2, <2>3 DEF Phrases
<1>19. CASE p = <<"more_values", ",", <<",", "values_", "LIST">>>>
  <2>1. p[1] = "more_values" /\ p[3] = <<",", "values_", "LIST">>
    BY <1>19
  <2>2. PhraseEffect(p[1], in, t) => in = << "VALUE" >> /\ t = "values"
    BY <2>1 DEF PhraseEffect
  <2>3. Makes(<<",", "values_", "LIST">>, << "VALUE" >>, "values")
    <3>1. /\ "," \in Silent /\ "values" \in Types /\ "VALUE" \in Types
      BY DEF Silent, Types
    <3>2. /\ Effect("values_", <<>>, "values") /\ Effect("LIST", <<"VALUE", "values">>, "values")
      BY NodeFacts, PhraseFacts
    <3> QED
      BY <3>1, <3>2, Makes_k02_on1
  <2> QED
    BY <2>1, <2>2, <2>3 DEF Phrases
<1>20. CASE p = <<"value", "T_INT", <<"T_INT", "VALUE">>>>
  <2>1. p[1] = "value" /\ p[3] = <<"T_INT", "VALUE">>
    BY <1>20
  <2>2. PhraseEffect(p[1], in, t) => in = <<>> /\ t = "VALUE"
    BY <2>1 DEF PhraseEffect
  <2>3. Makes(<<"T_INT", "VALUE">>, <<>>, "VALUE")
      BY Makes_01, NodeFacts, TokenFacts DEF Silent, Types
  <2> QED
    BY <2>1, <2>2, <2>3 DEF Phrases
<1>21. CASE p = <<"value", "T_QSTRING", <<"T_QSTRING", "VALUE">>>>
  <2>1. p[1] = "value" /\ p[3] = <<"T_QSTRING", "VALUE">>
    BY <1>21
  <2>2. PhraseEffect(p[1], in, t) => in = <<>> /\ t = "VALUE"
    BY <2>1 DEF PhraseEffect
  <2>3. Makes(<<"T_QSTRING", "VALUE">>, <<>>, "VALUE")
      BY Makes_01, NodeFacts, TokenFacts DEF Silent, Types
  <2> QED
    BY <2>1, <2>2, <2>3 DEF Phrases
<1>22. CASE p = <<"conditions", "T_STRING", <<"relattr", "test", "more_conditions">>>>
  <2>1. p[1] = "conditions" /\ p[3] = <<"relattr", "test", "more_conditions">>
    BY <1>22
  <2>2. PhraseEffect(p[1], in, t) => in = <<>> /\ t \in {"conditions", "conditions?"}
    BY <2>1 DEF PhraseEffect
  <2>3. Makes(<<"relattr", "test", "more_conditions">>, <<>>, "conditions")
    <3>1. /\ "RELATTR" \in Types /\ "CONDITION" \in Types /\ "conditions" \in Types
      BY DEF Silent, Types
    <3>2. /\ Effect("relattr", <<>>, "RELATTR") /\ Effect("test", << "RELATTR" >>, "CONDITION")
          /\ Effect("more_conditions", << "CONDITION" >>, "conditions")
      BY PhraseFacts
    <3> QED
      BY <3>1, <3>2, Makes_011
  <2>4. Makes(<<"relattr", "test", "more_conditions">>, <<>>, "conditions?")
    <3>1. /\ "RELATTR" \in Types /\ "CONDITION" \in Types /\ "conditions?" \in Types
      BY DEF Silent, Types
    <3>2. /\ Effect("relattr", <<>>, "RELATTR") /\ Effect("test", << "RELATTR" >>, "CONDITION")
          /\ Effect("more_conditions", << "CONDITION" >>, "conditions?")
      BY PhraseFacts
    <3> QED
      BY <3>1, <3>2, Makes_011
  <2> QED
    BY <2>1, <2>2, <2>3, <2>4 DEF Phrases
<1>23. CASE p = <<"more_conditions", "and", <<"and", "conditions", "LIST">>>>
  <2>1. p[1] = "more_conditions" /\ p[3] = <<"and", "conditions", "LIST">>
    BY <1>23
  <2>2. PhraseEffect(p[1], in, t) => in = << "CONDITION" >> /\ t \in {"conditions", "conditions?"}
    BY <2>1 DEF PhraseEffect
  <2>3. Makes(<<"and", "conditions", "LIST">>, << "CONDITION" >>, "conditions")
    <3>1. /\ "and" \in Silent /\ "conditions" \in Types /\ "CONDITION" \in Types
      BY DEF Silent, Types
    <3>2. /\ Effect("conditions", <<>>, "conditions")
          /\ Effect("LIST", <<"CONDITION", "conditions">>, "conditions")
      BY NodeFacts, PhraseFacts
    <3> QED
      BY <3>1, <3>2, Makes_k02_on1
  <2>4. Makes(<<"and", "conditions", "LIST">>, << "CONDITION" >>, "conditions?")
    <3>1. /\ "and" \in Silent /\ "conditions?" \in Types /\ "CONDITION" \in Types
      BY DEF Silent, Types
    <3>2. /\ Effect("conditions", <<>>, "conditions?")
          /\ Effect("LIST", <<"CONDITION", "conditions?">>, "conditions?")
      BY NodeFacts, PhraseFacts
    <3> QED
      BY <3>1, <3>2, Makes_k02_on1
  <2> QED
    BY <2>1, <2>2, <2>3, <2>4 DEF Phrases
<1>24. CASE p = <<"test", "=", <<"=", "EQ_OP", "relattr_or_value", "CONDITION">>>>
  <2>1. p[1] = "test" /\ p[3] = <<"=", "EQ_OP", "relattr_or_value", "CONDITION">>
    BY <1>24
  <2>2. PhraseEffect(p[1], in, t) => in = << "RELATTR" >> /\ t = "CONDITION"
    BY <2>1 DEF PhraseEffect
  <2>3. Makes(<<"=", "EQ_OP", "relattr_or_value", "CONDITION">>, << "RELATTR" >>, "CONDITION")
    <3>1. /\ "=" \in Silent /\ "op" \in Types /\ "RELATTR_OR_VALUE" \in Types
          /\ "RELATTR" \in Types /\ "CONDITION" \in Types
      BY DEF Silent, Types
    <3>2. /\ Effect("EQ_OP", <<>>, "op") /\ Effect("relattr_or_value", <<>>, "RELATTR_OR_VALUE")
          /\ Effect("CONDITION", <<"RELATTR", "op", "RELATTR_OR_VALUE">>, "CONDITION")
      BY NodeFacts, PhraseFacts, PlainFacts
    <3> QED
      BY <3>1, <3>2, Makes_k003_on1
  <2> QED
    BY <2>1, <2>2, <2>3 DEF Phrases
<1>25. CASE p = <<"test", "T_OP", <<"T_OP", "relattr_or_value", "CONDITION">>>>
  <2>1. p[1] = "test" /\ p[3] = <<"T_OP", "relattr_or_value", "CONDITION">>
    BY <1>25
  <2>2. PhraseEffect(p[1], in, t) => in = << "RELATTR" >> /\ t = "CONDITION"
    BY <2>1 DEF PhraseEffect
  <2>3. Makes(<<"T_OP", "relattr_or_value", "CONDITION">>, << "RELATTR" >>, "CONDITION")
    <3>1. /\ "op" \in Types /\ "RELATTR_OR_VALUE" \in Types /\ "RELATTR" \in Types
          /\ "CONDITION" \in Types
      BY DEF Silent, Types
    <3>2. /\ Effect("T_OP", <<>>, "op") /\ Effect("relattr_or_value", <<>>, "RELATTR_OR_VALUE")
          /\ Effect("CONDITION", <<"RELATTR", "op", "RELATTR_OR_VALUE">>, "CONDITION")
      BY NodeFacts, PhraseFacts, TokenFacts
    <3> QED
      BY <3>1, <3>2, Makes_003_on1
  <2> QED
    BY <2>1, <2>2, <2>3 DEF Phrases
<1>26. CASE p = <<"test", "is", <<"is", "nullness">>>>
  <2>1. p[1] = "test" /\ p[3] = <<"is", "nullness">>
    BY <1>26
  <2>2. PhraseEffect(p[1], in, t) => in = << "RELATTR" >> /\ t = "CONDITION"
    BY <2>1 DEF PhraseEffect
  <2>3. Makes(<<"is", "nullness">>, << "RELATTR" >>, "CONDITION")
      BY Makes_k1_on1, PhraseFacts DEF Silent, Types
  <2> QED
    BY <2>1, <2>2, <2>3 DEF Phrases
<1>27. CASE p = <<"nullness", "null", <<"null", "IS_NULL">>>>
  <2>1. p[1] = "nullness" /\ p[3] = <<"null", "IS_NULL">>
    BY <1>27
  <2>2. PhraseEffect(p[1], in, t) => in = << "RELATTR" >> /\ t = "CONDITION"
    BY <2>1 DEF PhraseEffect
  <2>3. Makes(<<"null", "IS_NULL">>, << "RELATTR" >>, "CONDITION")
      BY Makes_k1_on1, NodeFacts DEF Silent, Types
  <2> QED
    BY <2>1, <2>2, <2>3 DEF Phrases
<1>28. CASE p = <<"nullness", "not", <<"not", "null", "NOT_NULL">>>>
  <2>1. p[1] = "nullness" /\ p[3] = <<"not", "null", "NOT_NULL">>
    BY <1>28
  <2>2. PhraseEffect(p[1], in, t) => in = << "RELATTR" >> /\ t = "CONDITION"
    BY <2>1 DEF PhraseEffect
  <2>3. Makes(<<"not", "null", "NOT_NULL">>, << "RELATTR" >>, "CONDITION")
    <3>1. /\ "not" \in Silent /\ "null" \in Silent /\ "RELATTR" \in Types
          /\ "CONDITION" \in Types
      BY DEF Silent, Types
    <3>2. Effect("NOT_NULL", << "RELATTR" >>, "CONDITION")
      BY NodeFacts
    <3> QED
      BY <3>1, <3>2, Makes_kk1_on1
  <2> QED
    BY <2>1, <2>2, <2>3 DEF Phrases
<1>29. CASE p = <<"relattr_or_value", "T_STRING", <<"relattr", "RELATTR_OF">>>>
  <2>1. p[1] = "relattr_or_value" /\ p[3] = <<"relattr", "RELATTR_OF">>
    BY <1>29
  <2>2. PhraseEffect(p[1], in, t) => in = <<>> /\ t = "RELATTR_OR_VALUE"
    BY <2>1 DEF PhraseEffect
  <2>3. Makes(<<"relattr", "RELATTR_OF">>, <<>>, "RELATTR_OR_VALUE")
      BY Makes_01, NodeFacts, PhraseFacts DEF Silent, Types
  <2> QED
    BY <2>1, <2>2, <2>3 DEF Phrases
<1>30. CASE p = <<"relattr_or_value", "T_INT", <<"value", "VALUE_OF">>>>
  <2>1. p[1] = "relattr_or_value" /\ p[3] = <<"value", "VALUE_OF">>
    BY <1>30
  <2>2. PhraseEffect(p[1], in, t) => in = <<>> /\ t = "RELATTR_OR_VALUE"
    BY <2>1 DEF PhraseEffect
  <2>3. Makes(<<"value", "VALUE_OF">>, <<>>, "RELATTR_OR_VALUE")
      BY Makes_01, NodeFacts, PhraseFacts DEF Silent, Types
  <2> QED
    BY <2>1, <2>2, <2>3 DEF Phrases
<1>31. CASE p = <<"relattr_or_value", "T_QSTRING", <<"value", "VALUE_OF">>>>
  <2>1. p[1] = "relattr_or_value" /\ p[3] = <<"value", "VALUE_OF">>
    BY <1>31
  <2>2. PhraseEffect(p[1], in, t) => in = <<>> /\ t = "RELATTR_OR_VALUE"
    BY <2>1 DEF PhraseEffect
  <2>3. Makes(<<"value", "VALUE_OF">>, <<>>, "RELATTR_OR_VALUE")
      BY Makes_01, NodeFacts, PhraseFacts DEF Silent, Types
  <2> QED
    BY <2>1, <2>2, <2>3 DEF Phrases
<1>32. CASE p \in {<<m, "any", <<"nothing", "LIST">>>> :
                 m \in {"more_selected", "more_relations", "more_attrtypes",
                       "more_tuples", "more_values", "more_conditions"}}
  <2>1. PICK m \in {"more_selected", "more_relations", "more_attrtypes",
                    "more_tuples", "more_values", "more_conditions"} :
            p = <<m, "any", <<"nothing", "LIST">>>>
    BY <1>32
  <2>2. p[1] = m /\ p[3] = <<"nothing", "LIST">>
    BY <2>1
  <2>3. PhraseEffect(m, in, t) => Makes(<<"nothing", "LIST">>, in, t)
    BY EndsMake
  <2> QED
    BY <2>2, <2>3 DEF Phrases
<1> QED
  BY <1>1, <1>2, <1>3, <1>4, <1>5, <1>6, <1>7, <1>8, <1>9, <1>10, <1>11, <1>12, <1>13, <1>14,
     <1>15, <1>16, <1>17, <1>18, <1>19, <1>20, <1>21, <1>22, <1>23, <1>24, <1>25, <1>26, <1>27,
     <1>28, <1>29, <1>30, <1>31, <1>32 DEF Parts

LEMMA ProductionsMake ==
  ASSUME NEW p \in Productions, NEW in, NEW t
  PROVE  p[1] \in Phrases /\ (PhraseEffect(p[1], in, t) => Makes(p[3], in, t))
BY StartMake, CommandsMake, QueriesMake, PartsMake DEF Productions

LEMMA HeadIs ==
  ASSUME NEW x, NEW c, NEW s, <<x, c, s>> \in Productions
  PROVE  x \in Nonterminals
<1>1. <<x, c, s>>[1] = x
  OBVIOUS
<1> QED
  BY <1>1 DEF Nonterminals

LEMMA PhrasesAreSymbols ==
  ASSUME NEW x \in Phrases
  PROVE  x \in Nonterminals
<1>1. /\ <<"start", "T_EOF", <<"T_EOF", "EOF">>>> \in Start
  BY DEF Start
<1>2. /\ <<"command", ";", << "nothing" >>>> \in Commands
      /\ <<"creation", "database", <<"database", "T_STRING", "CREATEDATABASE">>>> \in Commands
      /\ <<"dropping", "database", <<"database", "T_STRING", "DROPDATABASE">>>> \in Commands
      /\ <<"opt_relname", "T_STRING", << "T_STRING" >>>> \in Commands
  BY DEF Commands
<1>3. /\ <<"opt_where", "where", <<"where", "conditions">>>> \in Queries
  BY DEF Queries
<1>4. /\ <<"selected", "*", <<"*", "star", "ATTR", "nothing", "LIST">>>> \in Parts
      /\ <<"more_selected", ",", <<",", "relattr", "more_selected", "LIST">>>> \in Parts
      /\ <<"relattr", "T_STRING", <<"T_STRING", "qualified">>>> \in Parts
      /\ <<"qualified", ".", <<".", "T_STRING", "RELATTR">>>> \in Parts
      /\ <<"relations", "T_STRING", <<"T_STRING", "RELATION", "more_relations">>>> \in Parts
  BY DEF Parts
<1>5. /\ <<"more_relations", ",", <<",", "relations", "LIST">>>> \in Parts
      /\ <<"attrtypes", "T_STRING", <<"T_STRING", "T_STRING", "(", "T_INT", ")", "nullable",
                  "more_attrtypes">>>> \in Parts
      /\ <<"nullable", "not", <<"not", "null", "ATTRTYPE_NOT_NULL">>>> \in Parts
      /\ <<"more_attrtypes", ",", <<",", "attrtypes", "LIST">>>> \in Parts
      /\ <<"tuples", "(", <<"(", "values_", ")", "more_tuples">>>> \in Parts
  BY DEF Parts
<1>6. /\ <<"more_tuples", ",", <<",", "tuples", "LIST">>>> \in Parts
      /\ <<"values_", "T_INT", <<"value", "more_values">>>> \in Parts
      /\ <<"more_values", ",", <<",", "values_", "LIST">>>> \in Parts
      /\ <<"value", "T_INT", <<"T_INT", "VALUE">>>> \in Parts
      /\ <<"conditions", "T_STRING", <<"relattr", "test", "more_conditions">>>> \in Parts
  BY DEF Parts
<1>7. /\ <<"more_conditions", "and", <<"and", "conditions", "LIST">>>> \in Parts
      /\ <<"test", "=", <<"=", "EQ_OP", "relattr_or_value", "CONDITION">>>> \in Parts
      /\ <<"nullness", "null", <<"null", "IS_NULL">>>> \in Parts
      /\ <<"relattr_or_value", "T_STRING", <<"relattr", "RELATTR_OF">>>> \in Parts
  BY DEF Parts
<1> QED
  BY <1>1, <1>2, <1>3, <1>4, <1>5, <1>6, <1>7, HeadIs DEF Productions, Phrases

-----------------------------------------------------------------------------
(* Derivations, cut and joined.                                             *)
LEMMA SeqCounted ==
  ASSUME NEW s, IsSeq(s)
  PROVE  Len(s) \in Nat /\ DOMAIN s = 1 .. Len(s)
BY DEF IsSeq

LEMMA SeqBasics ==
  ASSUME NEW S, NEW s \in Seq(S), NEW t \in Seq(S)
  PROVE  /\ s \o t \in Seq(S) /\ Len(s \o t) = Len(s) + Len(t)
         /\ \A i \in 1 .. Len(s) : (s \o t)[i] = s[i]
         /\ \A i \in 1 .. Len(t) : (s \o t)[Len(s) + i] = t[i]
OBVIOUS

LEMMA SeqJoined ==
  ASSUME NEW s, NEW t, IsSeq(s), IsSeq(t)
  PROVE  /\ IsSeq(s \o t) /\ Len(s \o t) = Len(s) + Len(t)
         /\ \A i \in 1 .. Len(s) : (s \o t)[i] = s[i]
         /\ \A i \in 1 .. Len(t) : (s \o t)[Len(s) + i] = t[i]
<1>1. PICK S : s \in Seq(S)
  BY DEF IsSeq
<1>2. PICK T : t \in Seq(T)
  BY DEF IsSeq
<1>3. s \in Seq(S \cup T) /\ t \in Seq(S \cup T)
  BY <1>1, <1>2
<1> QED
  BY <1>3, SeqBasics DEF IsSeq

LEMMA TailBasics ==
  ASSUME NEW S, NEW s \in Seq(S), s # <<>>
  PROVE  /\ Tail(s) \in Seq(S) /\ Len(s) \in Nat \ {0} /\ Len(Tail(s)) = Len(s) - 1
         /\ \A i \in 1 .. Len(s) - 1 : Tail(s)[i] = s[i + 1]
OBVIOUS

LEMMA SeqTail ==
  ASSUME NEW s, IsSeq(s), s # <<>>
  PROVE  /\ IsSeq(Tail(s)) /\ Len(s) \in Nat \ {0} /\ Len(Tail(s)) = Len(s) - 1
         /\ \A i \in 1 .. Len(s) - 1 : Tail(s)[i] = s[i + 1]
<1>1. PICK S : s \in Seq(S)
  BY DEF IsSeq
<1> QED
  BY <1>1, TailBasics DEF IsSeq

LEMMA DeriveThen ==
  ASSUME NEW s, NEW t, NEW a, NEW m, NEW b, Derives(s, a, m), Derives(t, m, b)
  PROVE  Derives(s \o t, a, b)
<1>1. PICK G \in Seq(Stacks) :
        /\ Len(G) = Len(s) + 1 /\ G[1] = a /\ G[Len(G)] = m
        /\ \A i \in 1 .. Len(s) : Step(s[i], G[i], G[i + 1])
  BY DEF Derives
<1>2. PICK H \in Seq(Stacks) :
        /\ Len(H) = Len(t) + 1 /\ H[1] = m /\ H[Len(H)] = b
        /\ \A i \in 1 .. Len(t) : Step(t[i], H[i], H[i + 1])
  BY DEF Derives
<1>. IsSeq(s) /\ IsSeq(t)
  BY DEF Derives
<1>3. /\ Len(s) \in Nat /\ Len(t) \in Nat
      /\ IsSeq(s \o t) /\ Len(s \o t) = Len(s) + Len(t)
      /\ \A i \in 1 .. Len(s) : (s \o t)[i] = s[i]
      /\ \A i \in 1 .. Len(t) : (s \o t)[Len(s) + i] = t[i]
  BY SeqJoined, SeqCounted
<1> DEFINE r == s \o t
           j == Len(s)
           K == [i \in 1 .. j + Len(t) + 1 |-> IF i <= j THEN G[i] ELSE H[i - j]]
<1>4. \A i \in 1 .. j + 1 : G[i] \in Stacks
  BY <1>1, <1>3
<1>5. \A i \in 1 .. Len(t) + 1 : H[i] \in Stacks
  BY <1>2, <1>3
<1>6. K \in Seq(Stacks) /\ Len(K) = j + Len(t) + 1
  <2>1. \A i \in 1 .. j + Len(t) + 1 : (i <= j => i \in 1 .. j + 1) /\ (~(i <= j) => i - j \in 1 .. Len(t) + 1)
    BY <1>3
  <2>2. K \in [1 .. j + Len(t) + 1 -> Stacks]
    BY <2>1, <1>4, <1>5
  <2>3. j + Len(t) + 1 \in Nat
    BY <1>3
  <2> HIDE DEF K
  <2> QED
    BY <2>2, <2>3
<1>7. K[1] = a /\ K[j + Len(t) + 1] = b
  BY <1>1, <1>2, <1>3
<1>8. ASSUME NEW i \in 1 .. Len(r) PROVE Step(r[i], K[i], K[i + 1])
  <2>1. CASE i <= j
    <3>1. i \in 1 .. Len(s)
      BY <2>1, <1>3
    <3>2. r[i] = s[i] /\ K[i] = G[i]
      BY <3>1, <1>3
    <3>3. K[i + 1] = G[i + 1]
      BY <3>1, <1>1, <1>2, <1>3
    <3> QED
      BY <3>1, <3>2, <3>3, <1>1
  <2>2. CASE ~(i <= j)
    <3> DEFINE k == i - j
    <3>1. k \in 1 .. Len(t) /\ i = Len(s) + k
      BY <2>2, <1>3
    <3>2. r[i] = t[k]
      BY <3>1, <1>3
    <3>3. K[i] = H[k] /\ K[i + 1] = H[k + 1]
      BY <3>1, <2>2, <1>3
    <3> QED
      BY <3>1, <3>2, <3>3, <1>2
  <2> QED
    BY <2>1, <2>2
<1> HIDE DEF K
<1>9. Len(K) = Len(r) + 1
  BY <1>6, <1>3
<1> QED
  BY <1>3, <1>6, <1>7, <1>8, <1>9 DEF Derives

LEMMA DeriveFirst ==
  ASSUME NEW s, NEW a, NEW b, Derives(s, a, b), s # <<>>
  PROVE  \E m \in Stacks : Step(s[1], a, m) /\ Derives(Tail(s), m, b)
<1>1. PICK G \in Seq(Stacks) :
        /\ Len(G) = Len(s) + 1 /\ G[1] = a /\ G[Len(G)] = b
        /\ \A i \in 1 .. Len(s) : Step(s[i], G[i], G[i + 1])
  BY DEF Derives
<1>2. /\ IsSeq(Tail(s)) /\ Len(s) \in Nat \ {0} /\ Len(Tail(s)) = Len(s) - 1
      /\ \A i \in 1 .. Len(s) - 1 : Tail(s)[i] = s[i + 1]
  BY SeqTail DEF Derives
<1> DEFINE H == Tail(G)
           r == Tail(s)
<1>3. H \in Seq(Stacks) /\ Len(H) = Len(s) /\ \A i \in 1 .. Len(s) : H[i] = G[i + 1]
  <2>1. Len(G) # 0 /\ G # <<>>
    BY <1>1, <1>2
  <2> QED
    BY <2>1, <1>1, <1>2, TailBasics
<1> HIDE DEF H, r
<1>4. Len(r) = Len(s) - 1 /\ \A i \in 1 .. Len(r) : r[i] = s[i + 1]
  BY <1>2 DEF r
<1>5. H[1] = G[2] /\ H[Len(H)] = b /\ Len(H) = Len(r) + 1
  BY <1>1, <1>2, <1>3, <1>4
<1>6. ASSUME NEW i \in 1 .. Len(r) PROVE Step(r[i], H[i], H[i + 1])
  <2>1. i + 1 \in 1 .. Len(s) /\ i \in 1 .. Len(s)
    BY <1>2, <1>4
  <2>2. Step(s[i + 1], G[i + 1], G[(i + 1) + 1])
    BY <2>1, <1>1
  <2> QED
    BY <2>1, <2>2, <1>3, <1>4
<1>7. Derives(r, H[1], b)
  BY <1>2, <1>3, <1>5, <1>6 DEF Derives, r
<1>8. Step(s[1], a, G[2]) /\ G[2] \in Stacks
  BY <1>1, <1>2
<1> QED
  BY <1>5, <1>7, <1>8 DEF r

LEMMA DerivedNone ==
  ASSUME NEW a, NEW b, Derives(<<>>, a, b)
  PROVE  a = b
<1>1. PICK G \in Seq(Stacks) : Len(G) = Len(<<>>) + 1 /\ G[1] = a /\ G[Len(G)] = b
  BY DEF Derives
<1>2. Len(<<>>) = 0
  OBVIOUS
<1> QED
  BY <1>1, <1>2

-----------------------------------------------------------------------------
(* Nodes are made from nodes, and stay what they are.                       *)
Kinds ==
  StatementKinds \cup
  {"RELATTR", "RELATION", "VALUE", "RELATTR_OR_VALUE", "CONDITION", "ATTRTYPE", "ATTRPROP", "LIST"}

\* The two sides of the node that has an attribute or a value are there.
TwoSided(node) == node.kind = "RELATTR_OR_VALUE" => IsSeq(node.f) /\ Len(node.f) = 2

AllReadable(ns) ==
  IsSeq(ns) /\ \A n \in 1 .. Len(ns) : ns[n].kind \in Kinds /\ TwoSided(ns[n]) /\ Readable(ns, n)

\* Sort of a node that is not yet in the pool.
SortOf(ns, node) ==
  CASE node.kind = "LIST" -> ListOf[ns[node.f[1]].kind]
    [] node.kind \in StatementKinds -> "statement"
    [] node.kind \in {"ATTRTYPE", "ATTRPROP"} -> "declaration"
    [] OTHER -> node.kind

\* Such a node is readable when it gets there.
WellMade(ns, node) ==
  /\ node.kind \in Kinds /\ TwoSided(node)
  /\ \A r \in Follows :
       node.kind = r[1] => node.f[r[2]] \in 0 .. Len(ns) /\ Sort(ns, node.f[r[2]]) \in r[3]
  /\ node.kind = "LIST" => /\ node.f[2] \in 0 .. Len(ns)
                           /\ Sort(ns, node.f[2]) \in {SortOf(ns, node), "nothing"}
  /\ node.kind = "RELATTR_OR_VALUE" => (node.f[1] = 0 <=> node.f[2] # 0)
  /\ node.kind = "CONDITION" =>
       IF node.f[2] \in {"is null", "is not null"} THEN node.f[3] = 0 /\ node.f[4] = 0
       ELSE node.f[3] = 0 <=> node.f[4] # 0

LEMMA AppendBasics ==
  ASSUME NEW S, NEW s \in Seq(S), NEW x \in S
  PROVE  /\ Append(s, x) \in Seq(S) /\ Len(Append(s, x)) = Len(s) + 1
         /\ \A i \in 1 .. Len(s) : Append(s, x)[i] = s[i]
         /\ Append(s, x)[Len(s) + 1] = x
OBVIOUS

LEMMA SeqAppended ==
  ASSUME NEW s, NEW x, IsSeq(s)
  PROVE  /\ IsSeq(Append(s, x)) /\ Len(Append(s, x)) = Len(s) + 1 /\ Len(s) \in Nat
         /\ \A i \in 1 .. Len(s) : Append(s, x)[i] = s[i]
         /\ Append(s, x)[Len(s) + 1] = x
<1>1. PICK S : s \in Seq(S)
  BY DEF IsSeq
<1>2. s \in Seq(S \cup {x}) /\ x \in S \cup {x}
  BY <1>1
<1> QED
  BY <1>2, AppendBasics DEF IsSeq

LEMMA ListItem ==
  ASSUME NEW ns, AllReadable(ns), NEW n \in 1 .. Len(ns), ns[n].kind = "LIST"
  PROVE  ns[n].f[1] \in 1 .. n - 1
<1> DEFINE items == {"RELATTR", "RELATION", "declaration", "VALUE", "values", "CONDITION"}
<1>1. <<"LIST", 1, items>> \in Follows
  BY DEF Follows
<1>2. Readable(ns, n)
  BY DEF AllReadable
<1>3. ns[n].f[1] \in 0 .. n - 1 /\ Sort(ns, ns[n].f[1]) \in items
  BY <1>1, <1>2 DEF Readable
<1>4. ns[n].f[1] # 0
  BY <1>3 DEF Sort
<1> QED
  BY <1>3, <1>4

LEMMA SortKept ==
  ASSUME NEW ns, AllReadable(ns), NEW node, NEW n \in 0 .. Len(ns)
  PROVE  Sort(Append(ns, node), n) = Sort(ns, n)
<1> DEFINE ms == Append(ns, node)
<1>1. Len(ns) \in Nat /\ \A i \in 1 .. Len(ns) : ms[i] = ns[i]
  BY SeqAppended DEF AllReadable
<1> SUFFICES Sort(ms, n) = Sort(ns, n)
  OBVIOUS
<1> HIDE DEF ms
<1>2. CASE n = 0
  BY <1>2 DEF Sort
<1>3. CASE n # 0
  <2>1. n \in 1 .. Len(ns) /\ ms[n] = ns[n]
    BY <1>1, <1>3
  <2>2. ns[n].kind = "LIST" => ms[ns[n].f[1]] = ns[ns[n].f[1]]
    <3>1. ns[n].kind = "LIST" => ns[n].f[1] \in 1 .. Len(ns)
      BY <1>1, <2>1, ListItem
    <3> QED
      BY <3>1, <1>1
  <2> QED
    BY <2>1, <2>2, <1>3 DEF Sort
<1> QED
  BY <1>2, <1>3

LEMMA ReadableKept ==
  ASSUME NEW ns, AllReadable(ns), NEW node, NEW n \in 1 .. Len(ns)
  PROVE  Readable(Append(ns, node), n)
<1> DEFINE ms == Append(ns, node)
<1>1. Len(ns) \in Nat /\ ms[n] = ns[n]
  BY SeqAppended DEF AllReadable
<1>2. \A k \in 0 .. n : Sort(ms, k) = Sort(ns, k)
  BY <1>1, SortKept
<1>3. Readable(ns, n)
  BY DEF AllReadable
<1> HIDE DEF ms
<1>4. ASSUME NEW r \in Follows, ms[n].kind = r[1]
      PROVE  ms[n].f[r[2]] \in 0 .. n - 1 /\ Sort(ms, ms[n].f[r[2]]) \in r[3]
  <2>1. ns[n].f[r[2]] \in 0 .. n - 1 /\ Sort(ns, ns[n].f[r[2]]) \in r[3]
    BY <1>1, <1>3, <1>4 DEF Readable
  <2> QED
    BY <2>1, <1>1, <1>2
<1>5. ms[n].kind = "LIST" => /\ ms[n].f[2] \in 0 .. n - 1
                             /\ Sort(ms, ms[n].f[2]) \in {Sort(ms, n), "nothing"}
  BY <1>1, <1>2, <1>3 DEF Readable
<1>6. Readable(ms, n)
  BY <1>1, <1>3, <1>4, <1>5 DEF Readable
<1> QED
  BY <1>6 DEF ms

LEMMA Added ==
  ASSUME NEW ns, AllReadable(ns), NEW node, WellMade(ns, node)
  PROVE  /\ AllReadable(Append(ns, node))
         /\ Sort(Append(ns, node), Len(ns) + 1) = SortOf(ns, node)
<1> DEFINE ms == Append(ns, node)
           n == Len(ns) + 1
<1>1. /\ Len(ns) \in Nat /\ IsSeq(ms) /\ Len(ms) = n /\ ms[n] = node
      /\ \A i \in 1 .. Len(ns) : ms[i] = ns[i]
  BY SeqAppended DEF AllReadable
<1>2. \A k \in 0 .. Len(ns) : Sort(ms, k) = Sort(ns, k)
  BY SortKept
<1>3. \A k \in 1 .. Len(ns) : Readable(ms, k)
  BY ReadableKept
<1> HIDE DEF ms
<1>4. Sort(ms, n) = SortOf(ns, node)
  <2>1. node.kind = "LIST" => ms[node.f[1]] = ns[node.f[1]]
    <3> SUFFICES ASSUME node.kind = "LIST" PROVE ms[node.f[1]] = ns[node.f[1]]
      OBVIOUS
    <3> DEFINE items == {"RELATTR", "RELATION", "declaration", "VALUE", "values", "CONDITION"}
    <3>1. <<"LIST", 1, items>> \in Follows
      BY DEF Follows
    <3>2. node.f[1] \in 0 .. Len(ns) /\ Sort(ns, node.f[1]) \in items
      BY <3>1 DEF WellMade
    <3>3. node.f[1] # 0
      BY <3>2 DEF Sort
    <3> QED
      BY <3>2, <3>3, <1>1
  <2> QED
    BY <2>1, <1>1 DEF Sort, SortOf
<1>5. Readable(ms, n)
  <2>1. 0 .. n - 1 = 0 .. Len(ns)
    BY <1>1
  <2>2. ASSUME NEW r \in Follows, ms[n].kind = r[1]
        PROVE  ms[n].f[r[2]] \in 0 .. n - 1 /\ Sort(ms, ms[n].f[r[2]]) \in r[3]
    <3>1. node.f[r[2]] \in 0 .. Len(ns) /\ Sort(ns, node.f[r[2]]) \in r[3]
      BY <1>1, <2>2 DEF WellMade
    <3> QED
      BY <3>1, <2>1, <1>1, <1>2
  <2>3. ms[n].kind = "LIST" => /\ ms[n].f[2] \in 0 .. n - 1
                               /\ Sort(ms, ms[n].f[2]) \in {Sort(ms, n), "nothing"}
    BY <2>1, <1>1, <1>2, <1>4 DEF WellMade
  <2>4. ms[n].kind = "RELATTR_OR_VALUE" => (ms[n].f[1] = 0 <=> ms[n].f[2] # 0)
    BY <1>1 DEF WellMade
  <2>5. ms[n].kind = "CONDITION" =>
          IF ms[n].f[2] \in {"is null", "is not null"} THEN ms[n].f[3] = 0 /\ ms[n].f[4] = 0
          ELSE ms[n].f[3] = 0 <=> ms[n].f[4] # 0
    BY <1>1 DEF WellMade
  <2> QED
    BY <2>2, <2>3, <2>4, <2>5 DEF Readable
<1>6. ASSUME NEW k \in 1 .. Len(ms) PROVE ms[k].kind \in Kinds /\ TwoSided(ms[k]) /\ Readable(ms, k)
  <2>1. CASE k = n
    BY <2>1, <1>1, <1>5 DEF WellMade
  <2>2. CASE k # n
    <3>1. k \in 1 .. Len(ns)
      BY <2>2, <1>1
    <3> QED
      BY <3>1, <1>1, <1>3 DEF AllReadable
  <2> QED
    BY <2>1, <2>2
<1>7. AllReadable(ms)
  BY <1>1, <1>6 DEF AllReadable
<1> QED
  BY <1>4, <1>7 DEF ms

LEMMA KindOf ==
  ASSUME NEW ns, AllReadable(ns), NEW n \in 1 .. Len(ns)
  PROVE  /\ ns[n].kind \in Kinds
         /\ ns[n].kind = "LIST" =>
              Sort(ns, n) \in {"attributes", "relations", "declarations", "values", "tuples",
                          "conditions"}
         /\ ns[n].kind \in StatementKinds => Sort(ns, n) = "statement"
         /\ ns[n].kind \in {"ATTRTYPE", "ATTRPROP"} => Sort(ns, n) = "declaration"
         /\ ns[n].kind \in {"RELATTR", "RELATION", "VALUE", "RELATTR_OR_VALUE", "CONDITION"} =>
              Sort(ns, n) = ns[n].kind
<1>1. /\ Len(ns) \in Nat /\ n # 0
      /\ \A k \in 1 .. Len(ns) : ns[k].kind \in Kinds
  BY SeqAppended DEF AllReadable
<1>2. /\ ns[n].kind \in StatementKinds => Sort(ns, n) = "statement"
      /\ ns[n].kind \in {"ATTRTYPE", "ATTRPROP"} => Sort(ns, n) = "declaration"
      /\ ns[n].kind \in {"RELATTR", "RELATION", "VALUE", "RELATTR_OR_VALUE", "CONDITION"} =>
           Sort(ns, n) = ns[n].kind
  BY <1>1 DEF Sort, StatementKinds
<1>3. ASSUME ns[n].kind = "LIST"
      PROVE  Sort(ns, n) \in {"attributes", "relations", "declarations", "values", "tuples", "conditions"}
  <2> DEFINE items == {"RELATTR", "RELATION", "declaration", "VALUE", "values", "CONDITION"}
             k == ns[n].f[1]
  <2>1. k \in 1 .. Len(ns)
    BY <1>1, <1>3, ListItem
  <2>2. Readable(ns, n)
    BY DEF AllReadable
  <2>3. <<"LIST", 1, items>> \in Follows
    BY DEF Follows
  <2>4. Sort(ns, k) \in items
    BY <1>3, <2>2, <2>3 DEF Readable
  <2>7. Sort(ns, n) = ListOf[ns[k].kind]
    BY <1>1, <1>3 DEF Sort, StatementKinds
  <2> HIDE DEF k
  <2>5. ns[k].kind \in Kinds \ {"RELATTR_OR_VALUE"} /\ ns[k].kind \notin StatementKinds
    BY <1>1, <2>1, <2>4 DEF Sort, StatementKinds
  <2>6. ListOf[ns[k].kind] \in {"attributes", "relations", "declarations", "values", "tuples",
              "conditions"}
    BY <2>5 DEF Kinds, ListOf
  <2> QED
    BY <2>6, <2>7
<1> QED
  BY <1>1, <1>2, <1>3

\* What the value v can be where one of type t is expected.
Meaning(t) ==
  CASE t = "conditions?" -> {"conditions", "nothing"}
    [] t = "statement?"  -> {"statement", "nothing"}
    [] OTHER -> {t}

Fits(ns, v, t) ==
  CASE t = "text" -> TRUE
    [] t = "op"   -> v \notin {"is null", "is not null"}
    [] OTHER      -> v \in 0 .. Len(ns) /\ Sort(ns, v) \in Meaning(t)

Holds(ns, vs, a) ==
  IsSeq(vs) /\ Len(vs) = Len(a) /\ \A i \in 1 .. Len(a) : Fits(ns, vs[i], a[i])

LEMMA FitsKept ==
  ASSUME NEW ns, AllReadable(ns), NEW node, NEW v, NEW t, Fits(ns, v, t)
  PROVE  Fits(Append(ns, node), v, t)
<1>1. Len(ns) \in Nat /\ Len(Append(ns, node)) = Len(ns) + 1
  BY SeqAppended DEF AllReadable
<1>2. v \in 0 .. Len(ns) => Sort(Append(ns, node), v) = Sort(ns, v)
  BY SortKept
<1>3. CASE t \in {"text", "op"}
  BY <1>3 DEF Fits
<1>4. CASE t \notin {"text", "op"}
  <2>1. v \in 0 .. Len(ns) /\ Sort(ns, v) \in Meaning(t)
    BY <1>4 DEF Fits
  <2>2. v \in 0 .. Len(Append(ns, node)) /\ Sort(Append(ns, node), v) \in Meaning(t)
    BY <1>1, <1>2, <2>1
  <2> QED
    BY <1>4, <2>2 DEF Fits
<1> QED
  BY <1>3, <1>4

LEMMA HoldsKept ==
  ASSUME NEW ns, AllReadable(ns), NEW node, NEW vs, NEW a, Holds(ns, vs, a)
  PROVE  Holds(Append(ns, node), vs, a)
BY FitsKept DEF Holds

LEMMA HoldsMore ==
  ASSUME NEW ns, NEW vs, NEW a \in Stacks, Holds(ns, vs, a), NEW v, NEW t \in Types, Fits(ns, v, t)
  PROVE  Holds(ns, Append(vs, v), Append(a, t))
<1> DEFINE ws == Append(vs, v)
           b  == Append(a, t)
<1>1. /\ IsSeq(ws) /\ Len(ws) = Len(vs) + 1 /\ Len(vs) \in Nat /\ ws[Len(vs) + 1] = v
      /\ \A i \in 1 .. Len(vs) : ws[i] = vs[i]
  BY SeqAppended DEF Holds
<1>2. /\ Len(b) = Len(a) + 1 /\ b[Len(a) + 1] = t
      /\ \A i \in 1 .. Len(a) : b[i] = a[i]
  BY AppendBasics DEF Stacks
<1> HIDE DEF ws, b
<1>3. Len(vs) = Len(a) /\ \A i \in 1 .. Len(a) : Fits(ns, vs[i], a[i])
  BY DEF Holds
<1>4. ASSUME NEW i \in 1 .. Len(b) PROVE Fits(ns, ws[i], b[i])
  <2>1. CASE i = Len(b)
    BY <2>1, <1>1, <1>2, <1>3
  <2>2. CASE i # Len(b)
    <3>1. i \in 1 .. Len(a)
      BY <2>2, <1>1, <1>2, <1>3
    <3> QED
      BY <3>1, <1>1, <1>2, <1>3
  <2> QED
    BY <2>1, <2>2
<1>5. Holds(ns, ws, b)
  BY <1>1, <1>2, <1>3, <1>4 DEF Holds
<1> QED
  BY <1>5 DEF ws, b

LEMMA SubSeqBasics ==
  ASSUME NEW S, NEW s \in Seq(S), NEW k \in 0 .. Len(s)
  PROVE  /\ SubSeq(s, 1, k) \in Seq(S) /\ Len(SubSeq(s, 1, k)) = k
         /\ \A i \in 1 .. k : SubSeq(s, 1, k)[i] = s[i]
         /\ SubSeq(s, k + 1, Len(s)) \in Seq(S) /\ Len(SubSeq(s, k + 1, Len(s))) = Len(s) - k
         /\ \A i \in 1 .. Len(s) - k : SubSeq(s, k + 1, Len(s))[i] = s[k + i]
OBVIOUS

LEMMA HoldsParts ==
  ASSUME NEW ns, NEW vs, NEW base \in Stacks, NEW in \in Stacks, Holds(ns, vs, base \o in)
  PROVE  /\ Len(vs) = Len(base) + Len(in)
         /\ Holds(ns, SubSeq(vs, 1, Len(vs) - Len(in)), base)
         /\ Holds(ns, SubSeq(vs, Len(vs) - Len(in) + 1, Len(vs)), in)
<1> DEFINE k == Len(vs) - Len(in)
           bs == SubSeq(vs, 1, k)
           is == SubSeq(vs, k + 1, Len(vs))
           a  == base \o in
<1>1. PICK S : vs \in Seq(S)
  BY DEF Holds, IsSeq
<1>2. /\ Len(base) \in Nat /\ Len(in) \in Nat /\ Len(a) = Len(base) + Len(in)
      /\ \A i \in 1 .. Len(base) : a[i] = base[i]
      /\ \A i \in 1 .. Len(in) : a[Len(base) + i] = in[i]
  BY SeqBasics DEF Stacks
<1>3. Len(vs) = Len(a) /\ \A i \in 1 .. Len(a) : Fits(ns, vs[i], a[i])
  BY DEF Holds
<1>4. k = Len(base) /\ k \in 0 .. Len(vs)
  BY <1>2, <1>3
<1> HIDE DEF k
<1>5. /\ bs \in Seq(S) /\ Len(bs) = k
      /\ \A i \in 1 .. k : bs[i] = vs[i]
      /\ is \in Seq(S) /\ Len(is) = Len(vs) - k
      /\ \A i \in 1 .. Len(vs) - k : is[i] = vs[k + i]
  BY <1>1, <1>4, SubSeqBasics
<1> HIDE DEF bs, is, a
<1>6. Holds(ns, bs, base)
  <2>1. ASSUME NEW i \in 1 .. Len(base) PROVE Fits(ns, bs[i], base[i])
    BY <1>2, <1>3, <1>4, <1>5
  <2> QED
    BY <2>1, <1>4, <1>5 DEF Holds, IsSeq
<1>7. Holds(ns, is, in)
  <2>1. Len(is) = Len(in)
    BY <1>2, <1>3, <1>4, <1>5
  <2>2. ASSUME NEW i \in 1 .. Len(in) PROVE Fits(ns, is[i], in[i])
    <3>1. k + i \in 1 .. Len(a) /\ Fits(ns, vs[k + i], a[k + i])
      BY <1>2, <1>3, <1>4
    <3> QED
      BY <3>1, <2>1, <1>2, <1>4, <1>5
  <2> QED
    BY <2>1, <2>2, <1>5 DEF Holds, IsSeq
<1> QED
  BY <1>2, <1>3, <1>6, <1>7 DEF bs, is, k

-----------------------------------------------------------------------------
(* What the actions make is what they are for.                              *)
LEMMA Holds1 ==
  ASSUME NEW ns, NEW vs, NEW s, Holds(ns, vs, << s >>)
  PROVE  vs = << vs[1] >> /\ Fits(ns, vs[1], s)
<1>1. PICK S : vs \in Seq(S)
  BY DEF Holds, IsSeq
<1>2. Len(vs) = 1 /\ Fits(ns, vs[1], s)
  BY DEF Holds
<1> QED
  BY <1>1, <1>2

LEMMA Holds2 ==
  ASSUME NEW ns, NEW vs, NEW s, NEW u, Holds(ns, vs, <<s, u>>)
  PROVE  /\ vs = <<vs[1], vs[2]>>
         /\ Fits(ns, vs[1], s) /\ Fits(ns, vs[2], u)
<1>1. PICK S : vs \in Seq(S)
  BY DEF Holds, IsSeq
<1>2. Len(vs) = 2 /\ Fits(ns, vs[1], s) /\ Fits(ns, vs[2], u)
  BY DEF Holds
<1> QED
  BY <1>1, <1>2

LEMMA Holds3 ==
  ASSUME NEW ns, NEW vs, NEW s, NEW u, NEW v, Holds(ns, vs, <<s, u, v>>)
  PROVE  /\ vs = <<vs[1], vs[2], vs[3]>>
         /\ Fits(ns, vs[1], s) /\ Fits(ns, vs[2], u) /\ Fits(ns, vs[3], v)
<1>1. PICK S : vs \in Seq(S)
  BY DEF Holds, IsSeq
<1>2. Len(vs) = 3 /\ Fits(ns, vs[1], s) /\ Fits(ns, vs[2], u) /\ Fits(ns, vs[3], v)
  BY DEF Holds
<1> QED
  BY <1>1, <1>2

LEMMA Holds4 ==
  ASSUME NEW ns, NEW vs, NEW s, NEW u, NEW v, NEW w, Holds(ns, vs, <<s, u, v, w>>)
  PROVE  /\ vs = <<vs[1], vs[2], vs[3], vs[4]>>
         /\ Fits(ns, vs[1], s) /\ Fits(ns, vs[2], u) /\ Fits(ns, vs[3], v) /\ Fits(ns, vs[4], w)
<1>1. PICK S : vs \in Seq(S)
  BY DEF Holds, IsSeq
<1>2. Len(vs) = 4 /\ Fits(ns, vs[1], s) /\ Fits(ns, vs[2], u) /\ Fits(ns, vs[3], v) /\ Fits(ns, vs[4], w)
  BY DEF Holds
<1> QED
  BY <1>1, <1>2

Made(ns, x, args, t) ==
  WellMade(ns, Node(ns, x, args)) /\ SortOf(ns, Node(ns, x, args)) \in Meaning(t)

\* A statement that leads to no node.
LEMMA LoneStatement ==
  ASSUME NEW ns, NEW args,
         NEW x \in {"CREATEDATABASE", "DROPDATABASE", "USEDATABASE", "SHOWTABLES", "DESCTABLE",
                   "CREATEINDEX", "DROPTABLE", "DROPINDEX", "LOAD", "SET", "HELP", "PRINT"}
  PROVE  Made(ns, x, args, "statement?")
<1> DEFINE node == [kind |-> x, f |-> args]
<1>1. Node(ns, x, args) = node
  BY DEF Node
<1>2. node.kind = x
  OBVIOUS
<1> HIDE DEF node
<1>3. \A r \in Follows : node.kind # r[1]
  BY <1>2 DEF Follows
<1>4. x \in StatementKinds /\ x \notin {"LIST", "RELATTR_OR_VALUE", "CONDITION", "ATTRTYPE", "ATTRPROP"}
  BY DEF StatementKinds
<1>5. WellMade(ns, node)
  BY <1>2, <1>3, <1>4 DEF WellMade, TwoSided, Kinds
<1>6. SortOf(ns, node) = "statement"
  BY <1>2, <1>4 DEF SortOf
<1> QED
  BY <1>1, <1>5, <1>6 DEF Made, Meaning

\* A node that leads to no node.
LEMMA Lone ==
  ASSUME NEW ns, NEW node, node.kind \in {"RELATTR", "RELATION", "VALUE", "ATTRTYPE", "ATTRPROP"}
  PROVE  /\ WellMade(ns, node)
         /\ SortOf(ns, node) = IF node.kind \in {"ATTRTYPE", "ATTRPROP"} THEN "declaration" ELSE node.kind
<1>1. \A r \in Follows : node.kind # r[1]
  BY DEF Follows
<1>2. WellMade(ns, node)
  BY <1>1 DEF WellMade, TwoSided, Kinds
<1>3. SortOf(ns, node) = IF node.kind \in {"ATTRTYPE", "ATTRPROP"} THEN "declaration" ELSE node.kind
  BY DEF SortOf, StatementKinds
<1> QED
  BY <1>2, <1>3

LEMMA LonesMade ==
  ASSUME NEW ns, NEW a, NEW b, NEW c, NEW args
  PROVE  /\ Made(ns, "ATTR", << a >>, "RELATTR") /\ Made(ns, "RELATTR", <<a, b>>, "RELATTR")
         /\ Made(ns, "RELATION", << a >>, "RELATION")
         /\ Made(ns, "ATTRTYPE", <<a, b, c>>, "declaration")
         /\ Made(ns, "ATTRTYPE_NOT_NULL", <<a, b, c>>, "declaration")
         /\ Made(ns, "ATTRPROP", << a >>, "declaration")
         /\ Made(ns, "VALUE", << a >>, "VALUE") /\ Made(ns, "NULLV", args, "VALUE")
<1>1. Made(ns, "ATTR", << a >>, "RELATTR")
  <2>1. Node(ns, "ATTR", << a >>).kind = "RELATTR"
    BY DEF Node
  <2> QED
    BY <2>1, Lone DEF Made, Meaning
<1>2. Made(ns, "RELATTR", <<a, b>>, "RELATTR")
  <2>1. Node(ns, "RELATTR", <<a, b>>).kind = "RELATTR"
    BY DEF Node
  <2> QED
    BY <2>1, Lone DEF Made, Meaning
<1>3. Made(ns, "RELATION", << a >>, "RELATION")
  <2>1. Node(ns, "RELATION", << a >>).kind = "RELATION"
    BY DEF Node
  <2> QED
    BY <2>1, Lone DEF Made, Meaning
<1>4. Made(ns, "ATTRTYPE", <<a, b, c>>, "declaration")
  <2>1. Node(ns, "ATTRTYPE", <<a, b, c>>).kind = "ATTRTYPE"
    BY DEF Node
  <2> QED
    BY <2>1, Lone DEF Made, Meaning
<1>5. Made(ns, "ATTRTYPE_NOT_NULL", <<a, b, c>>, "declaration")
  <2>1. Node(ns, "ATTRTYPE_NOT_NULL", <<a, b, c>>).kind = "ATTRTYPE"
    BY DEF Node
  <2> QED
    BY <2>1, Lone DEF Made, Meaning
<1>6. Made(ns, "ATTRPROP", << a >>, "declaration")
  <2>1. Node(ns, "ATTRPROP", << a >>).kind = "ATTRPROP"
    BY DEF Node
  <2> QED
    BY <2>1, Lone DEF Made, Meaning
<1>7. Made(ns, "VALUE", << a >>, "VALUE")
  <2>1. Node(ns, "VALUE", << a >>).kind = "VALUE"
    BY DEF Node
  <2> QED
    BY <2>1, Lone DEF Made, Meaning
<1>8. Made(ns, "NULLV", args, "VALUE")
  <2>1. Node(ns, "NULLV", args).kind = "VALUE"
    BY DEF Node
  <2> QED
    BY <2>1, Lone DEF Made, Meaning
<1> QED
  BY <1>1, <1>2, <1>3, <1>4, <1>5, <1>6, <1>7, <1>8

LEMMA CreateTableMade ==
  ASSUME NEW ns, NEW a, NEW b,
         Fits(ns, a, "text"), Fits(ns, b, "declarations")
  PROVE  Made(ns, "CREATETABLE", <<a, b>>, "statement?")
<1> DEFINE node == [kind |-> "CREATETABLE", f |-> Append(<<a, b>>, Primary(ns, b))]
<1>1. Node(ns, "CREATETABLE", <<a, b>>) = node
  BY DEF Node
<1>2. /\ b \in 0 .. Len(ns) /\ Sort(ns, b) \in {"declarations"}
  BY DEF Fits, Meaning
<1>3. node.kind = "CREATETABLE" /\ node.f[2] = b
  OBVIOUS
<1> HIDE DEF node
<1>4. \A r \in Follows :
        node.kind = r[1] => node.f[r[2]] \in 0 .. Len(ns) /\ Sort(ns, node.f[r[2]]) \in r[3]
  BY <1>2, <1>3 DEF Follows
<1>5. WellMade(ns, node)
  BY <1>3, <1>4 DEF WellMade, TwoSided, Kinds, StatementKinds
<1>6. SortOf(ns, node) = "statement"
  BY <1>3 DEF SortOf, StatementKinds
<1> QED
  BY <1>1, <1>5, <1>6 DEF Made, Meaning

LEMMA QueryMade ==
  ASSUME NEW ns, NEW a, NEW b, NEW c,
         Fits(ns, a, "attributes"), Fits(ns, b, "relations"), Fits(ns, c, "conditions?")
  PROVE  Made(ns, "QUERY", <<a, b, c>>, "statement?")
<1> DEFINE node == [kind |-> "QUERY", f |-> <<a, b, c>>]
<1>1. Node(ns, "QUERY", <<a, b, c>>) = node
  BY DEF Node
<1>2. /\ a \in 0 .. Len(ns) /\ Sort(ns, a) \in {"attributes"}
      /\ b \in 0 .. Len(ns) /\ Sort(ns, b) \in {"relations"}
      /\ c \in 0 .. Len(ns) /\ Sort(ns, c) \in {"conditions", "nothing"}
  BY DEF Fits, Meaning
<1>3. node.kind = "QUERY" /\ node.f[1] = a /\ node.f[2] = b /\ node.f[3] = c
  OBVIOUS
<1> HIDE DEF node
<1>4. \A r \in Follows :
        node.kind = r[1] => node.f[r[2]] \in 0 .. Len(ns) /\ Sort(ns, node.f[r[2]]) \in r[3]
  BY <1>2, <1>3 DEF Follows
<1>5. WellMade(ns, node)
  BY <1>3, <1>4 DEF WellMade, TwoSided, Kinds, StatementKinds
<1>6. SortOf(ns, node) = "statement"
  BY <1>3 DEF SortOf, StatementKinds
<1> QED
  BY <1>1, <1>5, <1>6 DEF Made, Meaning

LEMMA InsertMade ==
  ASSUME NEW ns, NEW a, NEW b,
         Fits(ns, a, "text"), Fits(ns, b, "tuples")
  PROVE  Made(ns, "INSERT", <<a, b>>, "statement?")
<1> DEFINE node == [kind |-> "INSERT", f |-> <<a, b>>]
<1>1. Node(ns, "INSERT", <<a, b>>) = node
  BY DEF Node
<1>2. /\ b \in 0 .. Len(ns) /\ Sort(ns, b) \in {"tuples"}
  BY DEF Fits, Meaning
<1>3. node.kind = "INSERT" /\ node.f[2] = b
  OBVIOUS
<1> HIDE DEF node
<1>4. \A r \in Follows :
        node.kind = r[1] => node.f[r[2]] \in 0 .. Len(ns) /\ Sort(ns, node.f[r[2]]) \in r[3]
  BY <1>2, <1>3 DEF Follows
<1>5. WellMade(ns, node)
  BY <1>3, <1>4 DEF WellMade, TwoSided, Kinds, StatementKinds
<1>6. SortOf(ns, node) = "statement"
  BY <1>3 DEF SortOf, StatementKinds
<1> QED
  BY <1>1, <1>5, <1>6 DEF Made, Meaning

LEMMA DeleteMade ==
  ASSUME NEW ns, NEW a, NEW b,
         Fits(ns, a, "text"), Fits(ns, b, "conditions?")
  PROVE  Made(ns, "DELETE", <<a, b>>, "statement?")
<1> DEFINE node == [kind |-> "DELETE", f |-> <<a, b>>]
<1>1. Node(ns, "DELETE", <<a, b>>) = node
  BY DEF Node
<1>2. /\ b \in 0 .. Len(ns) /\ Sort(ns, b) \in {"conditions", "nothing"}
  BY DEF Fits, Meaning
<1>3. node.kind = "DELETE" /\ node.f[2] = b
  OBVIOUS
<1> HIDE DEF node
<1>4. \A r \in Follows :
        node.kind = r[1] => node.f[r[2]] \in 0 .. Len(ns) /\ Sort(ns, node.f[r[2]]) \in r[3]
  BY <1>2, <1>3 DEF Follows
<1>5. WellMade(ns, node)
  BY <1>3, <1>4 DEF WellMade, TwoSided, Kinds, StatementKinds
<1>6. SortOf(ns, node) = "statement"
  BY <1>3 DEF SortOf, StatementKinds
<1> QED
  BY <1>1, <1>5, <1>6 DEF Made, Meaning

LEMMA UpdateMade ==
  ASSUME NEW ns, NEW a, NEW b, NEW c, NEW d,
         Fits(ns, a, "text"), Fits(ns, b, "RELATTR"), Fits(ns, c, "RELATTR_OR_VALUE"),
         Fits(ns, d, "conditions?")
  PROVE  Made(ns, "UPDATE", <<a, b, c, d>>, "statement?")
<1> DEFINE node == [kind |-> "UPDATE", f |-> <<a, b, c, d>>]
<1>1. Node(ns, "UPDATE", <<a, b, c, d>>) = node
  BY DEF Node
<1>2. /\ b \in 0 .. Len(ns) /\ Sort(ns, b) \in {"RELATTR"}
      /\ c \in 0 .. Len(ns) /\ Sort(ns, c) \in {"RELATTR_OR_VALUE"}
      /\ d \in 0 .. Len(ns) /\ Sort(ns, d) \in {"conditions", "nothing"}
  BY DEF Fits, Meaning
<1>3. node.kind = "UPDATE" /\ node.f[2] = b /\ node.f[3] = c /\ node.f[4] = d
  OBVIOUS
<1> HIDE DEF node
<1>4. \A r \in Follows :
        node.kind = r[1] => node.f[r[2]] \in 0 .. Len(ns) /\ Sort(ns, node.f[r[2]]) \in r[3]
  BY <1>2, <1>3 DEF Follows
<1>5. WellMade(ns, node)
  BY <1>3, <1>4 DEF WellMade, TwoSided, Kinds, StatementKinds
<1>6. SortOf(ns, node) = "statement"
  BY <1>3 DEF SortOf, StatementKinds
<1> QED
  BY <1>1, <1>5, <1>6 DEF Made, Meaning

LEMMA SideMade ==
  ASSUME NEW ns, AllReadable(ns), NEW a
  PROVE  /\ Fits(ns, a, "RELATTR") => Made(ns, "RELATTR_OF", << a >>, "RELATTR_OR_VALUE")
         /\ Fits(ns, a, "VALUE") => Made(ns, "VALUE_OF", << a >>, "RELATTR_OR_VALUE")
<1>1. Len(ns) \in Nat /\ Sort(ns, 0) = "nothing"
  BY SeqAppended DEF AllReadable, Sort
<1>2. ASSUME NEW node, node.kind = "RELATTR_OR_VALUE", IsSeq(node.f), Len(node.f) = 2,
             \/ node.f[1] = a /\ node.f[2] = 0 /\ Fits(ns, a, "RELATTR")
             \/ node.f[1] = 0 /\ node.f[2] = a /\ Fits(ns, a, "VALUE")
      PROVE  WellMade(ns, node) /\ SortOf(ns, node) \in Meaning("RELATTR_OR_VALUE")
  <2>1. /\ node.f[1] \in 0 .. Len(ns) /\ Sort(ns, node.f[1]) \in {"RELATTR", "nothing"}
        /\ node.f[2] \in 0 .. Len(ns) /\ Sort(ns, node.f[2]) \in {"VALUE", "nothing"}
    BY <1>1, <1>2 DEF Fits, Meaning
  <2>2. node.f[1] = 0 <=> node.f[2] # 0
    BY <1>1, <1>2 DEF Fits, Meaning
  <2>3. \A r \in Follows :
          node.kind = r[1] => node.f[r[2]] \in 0 .. Len(ns) /\ Sort(ns, node.f[r[2]]) \in r[3]
    BY <2>1, <1>2 DEF Follows
  <2>4. WellMade(ns, node)
    BY <2>2, <2>3, <1>2 DEF WellMade, TwoSided, Kinds
  <2> QED
    BY <2>4, <1>2 DEF SortOf, StatementKinds, Meaning
<1>3. ASSUME Fits(ns, a, "RELATTR") PROVE Made(ns, "RELATTR_OF", << a >>, "RELATTR_OR_VALUE")
  <2> DEFINE node == [kind |-> "RELATTR_OR_VALUE", f |-> <<a, 0>>]
  <2>1. Node(ns, "RELATTR_OF", << a >>) = node
    BY DEF Node
  <2>2. /\ node.kind = "RELATTR_OR_VALUE" /\ Len(node.f) = 2 /\ node.f \in Seq({a, 0})
        /\ node.f[1] = a /\ node.f[2] = 0
    OBVIOUS
  <2> HIDE DEF node
  <2>3. WellMade(ns, node) /\ SortOf(ns, node) \in Meaning("RELATTR_OR_VALUE")
    BY <2>2, <1>2, <1>3 DEF IsSeq
  <2> QED
    BY <2>1, <2>3 DEF Made
<1>4. ASSUME Fits(ns, a, "VALUE") PROVE Made(ns, "VALUE_OF", << a >>, "RELATTR_OR_VALUE")
  <2> DEFINE node == [kind |-> "RELATTR_OR_VALUE", f |-> <<0, a>>]
  <2>1. Node(ns, "VALUE_OF", << a >>) = node
    BY DEF Node
  <2>2. /\ node.kind = "RELATTR_OR_VALUE" /\ Len(node.f) = 2 /\ node.f \in Seq({a, 0})
        /\ node.f[1] = 0 /\ node.f[2] = a
    OBVIOUS
  <2> HIDE DEF node
  <2>3. WellMade(ns, node) /\ SortOf(ns, node) \in Meaning("RELATTR_OR_VALUE")
    BY <2>2, <1>2, <1>4 DEF IsSeq
  <2> QED
    BY <2>1, <2>3 DEF Made
<1> QED
  BY <1>3, <1>4

LEMMA ComparedFields ==
  ASSUME NEW ns, NEW node, node.kind = "CONDITION",
         node.f[1] \in 0 .. Len(ns), Sort(ns, node.f[1]) \in {"RELATTR"},
         node.f[3] \in 0 .. Len(ns), Sort(ns, node.f[3]) \in {"RELATTR", "nothing"},
         node.f[4] \in 0 .. Len(ns), Sort(ns, node.f[4]) \in {"VALUE", "nothing"}
  PROVE  \A r \in Follows :
           node.kind = r[1] => node.f[r[2]] \in 0 .. Len(ns) /\ Sort(ns, node.f[r[2]]) \in r[3]
BY DEF Follows

\* What a condition is made of, when it is one.
LEMMA Compared ==
  ASSUME NEW ns, NEW node, node.kind = "CONDITION", Fits(ns, node.f[1], "RELATTR"),
         node.f[3] \in 0 .. Len(ns), Sort(ns, node.f[3]) \in {"RELATTR", "nothing"},
         node.f[4] \in 0 .. Len(ns), Sort(ns, node.f[4]) \in {"VALUE", "nothing"},
         IF node.f[2] \in {"is null", "is not null"} THEN node.f[3] = 0 /\ node.f[4] = 0
         ELSE node.f[3] = 0 <=> node.f[4] # 0
  PROVE  WellMade(ns, node) /\ SortOf(ns, node) \in Meaning("CONDITION")
<1>1. node.f[1] \in 0 .. Len(ns) /\ Sort(ns, node.f[1]) \in {"RELATTR"}
  BY DEF Fits, Meaning
<1>2. \A r \in Follows :
        node.kind = r[1] => node.f[r[2]] \in 0 .. Len(ns) /\ Sort(ns, node.f[r[2]]) \in r[3]
  BY <1>1, ComparedFields
<1>3. WellMade(ns, node)
  BY <1>2 DEF WellMade, TwoSided, Kinds
<1> QED
  BY <1>3 DEF SortOf, StatementKinds, Meaning

LEMMA FourEqual ==
  ASSUME NEW S, NEW q \in Seq(S), Len(q) = 4
  PROVE  q = <<q[1], q[2], q[3], q[4]>>
OBVIOUS

LEMMA OneAndThree ==
  ASSUME NEW S, NEW g \in Seq(S), NEW h \in Seq(S), Len(g) = 1, Len(h) = 3
  PROVE  g \o h = <<g[1], h[1], h[2], h[3]>>
<1>1. /\ g \o h \in Seq(S) /\ Len(g \o h) = Len(g) + Len(h)
      /\ \A i \in 1 .. Len(g) : (g \o h)[i] = g[i]
      /\ \A i \in 1 .. Len(h) : (g \o h)[Len(g) + i] = h[i]
  BY SeqBasics
<1>2. ASSUME NEW i \in 2 .. 4 PROVE (g \o h)[i] = h[i - 1]
  <2>1. i - 1 \in 1 .. Len(h) /\ Len(g) + (i - 1) = i
    OBVIOUS
  <2> QED
    BY <1>1, <2>1
<1>3. Len(g \o h) = 4 /\ (g \o h)[1] = g[1] /\ (g \o h)[2] = h[1] /\ (g \o h)[3] = h[2] /\ (g \o h)[4] = h[3]
  BY <1>1, <1>2
<1> QED
  BY <1>1, <1>3, FourEqual

LEMMA TwoAndTwo ==
  ASSUME NEW S, NEW g \in Seq(S), NEW h \in Seq(S), Len(g) = 2, Len(h) = 2
  PROVE  g \o h = <<g[1], g[2], h[1], h[2]>>
<1>1. /\ g \o h \in Seq(S) /\ Len(g \o h) = Len(g) + Len(h)
      /\ \A i \in 1 .. Len(g) : (g \o h)[i] = g[i]
      /\ \A i \in 1 .. Len(h) : (g \o h)[Len(g) + i] = h[i]
  BY SeqBasics
<1>2. ASSUME NEW i \in 3 .. 4 PROVE (g \o h)[i] = h[i - 2]
  <2>1. i - 2 \in 1 .. Len(h) /\ Len(g) + (i - 2) = i
    OBVIOUS
  <2> QED
    BY <1>1, <2>1
<1>3. Len(g \o h) = 4 /\ (g \o h)[1] = g[1] /\ (g \o h)[2] = g[2] /\ (g \o h)[3] = h[1] /\ (g \o h)[4] = h[2]
  BY <1>1, <1>2
<1> QED
  BY <1>1, <1>3, FourEqual

LEMMA FourOf ==
  ASSUME NEW S, NEW a \in S, NEW b \in S, NEW c \in S, NEW d \in S
  PROVE  << a >> \o <<b, c, d>> = <<a, b, c, d>> /\ <<a, b>> \o <<c, d>> = <<a, b, c, d>>
<1>1. << a >> \in Seq(S) /\ Len(<< a >>) = 1 /\ << a >>[1] = a
  OBVIOUS
<1>2. /\ <<b, c, d>> \in Seq(S) /\ Len(<<b, c, d>>) = 3
      /\ <<b, c, d>>[1] = b /\ <<b, c, d>>[2] = c /\ <<b, c, d>>[3] = d
  OBVIOUS
<1>3. <<a, b>> \in Seq(S) /\ Len(<<a, b>>) = 2 /\ <<a, b>>[1] = a /\ <<a, b>>[2] = b
  OBVIOUS
<1>4. <<c, d>> \in Seq(S) /\ Len(<<c, d>>) = 2 /\ <<c, d>>[1] = c /\ <<c, d>>[2] = d
  OBVIOUS
<1>5. << a >> \o <<b, c, d>> = <<a, b, c, d>>
  BY <1>1, <1>2, OneAndThree, Zenon
<1>6. <<a, b>> \o <<c, d>> = <<a, b, c, d>>
  BY <1>3, <1>4, TwoAndTwo, Zenon
<1> QED
  BY <1>5, <1>6

LEMMA Four ==
  ASSUME NEW a, NEW b, NEW c, NEW d
  PROVE  << a >> \o <<b, c, d>> = <<a, b, c, d>> /\ <<a, b>> \o <<c, d>> = <<a, b, c, d>>
<1>1. a \in {a, b, c, d} /\ b \in {a, b, c, d} /\ c \in {a, b, c, d} /\ d \in {a, b, c, d}
  OBVIOUS
<1> QED
  BY <1>1, FourOf

LEMMA NullTestMade ==
  ASSUME NEW ns, AllReadable(ns), NEW a, Fits(ns, a, "RELATTR")
  PROVE  Made(ns, "IS_NULL", << a >>, "CONDITION") /\ Made(ns, "NOT_NULL", << a >>, "CONDITION")
<1>1. Len(ns) \in Nat /\ Sort(ns, 0) = "nothing"
  BY SeqAppended DEF AllReadable, Sort
<1>2. Made(ns, "IS_NULL", << a >>, "CONDITION")
  <2> DEFINE node == [kind |-> "CONDITION", f |-> <<a, "is null", 0, 0>>]
  <2>1. Node(ns, "IS_NULL", << a >>) = node
    <3>1. Node(ns, "IS_NULL", << a >>) = [kind |-> "CONDITION", f |-> << a >> \o <<"is null", 0, 0>>]
      BY DEF Node
    <3>2. << a >> \o <<"is null", 0, 0>> = <<a, "is null", 0, 0>>
      BY Four
    <3> QED
      BY <3>1, <3>2
  <2>2. /\ node.kind = "CONDITION" /\ node.f[1] = a /\ node.f[2] = "is null"
        /\ node.f[3] = 0 /\ node.f[4] = 0
    OBVIOUS
  <2> HIDE DEF node
  <2>3. /\ node.f[3] \in 0 .. Len(ns) /\ Sort(ns, node.f[3]) \in {"RELATTR", "nothing"}
        /\ node.f[4] \in 0 .. Len(ns) /\ Sort(ns, node.f[4]) \in {"VALUE", "nothing"}
    <3>1. /\ 0 \in 0 .. Len(ns)
          /\ Sort(ns, 0) \in {"RELATTR", "nothing"} /\ Sort(ns, 0) \in {"VALUE", "nothing"}
      BY <1>1
    <3> QED
      BY <3>1, <2>2, Zenon
  <2>5. IF node.f[2] \in {"is null", "is not null"} THEN node.f[3] = 0 /\ node.f[4] = 0
        ELSE node.f[3] = 0 <=> node.f[4] # 0
    BY <2>2
  <2>4. WellMade(ns, node) /\ SortOf(ns, node) \in Meaning("CONDITION")
    BY <2>2, <2>3, <2>5, Compared
  <2> QED
    BY <2>1, <2>4 DEF Made
<1>3. Made(ns, "NOT_NULL", << a >>, "CONDITION")
  <2> DEFINE node == [kind |-> "CONDITION", f |-> <<a, "is not null", 0, 0>>]
  <2>1. Node(ns, "NOT_NULL", << a >>) = node
    <3>1. Node(ns, "NOT_NULL", << a >>) = [kind |-> "CONDITION", f |-> << a >> \o <<"is not null", 0, 0>>]
      BY DEF Node
    <3>2. << a >> \o <<"is not null", 0, 0>> = <<a, "is not null", 0, 0>>
      BY Four
    <3> QED
      BY <3>1, <3>2
  <2>2. /\ node.kind = "CONDITION" /\ node.f[1] = a /\ node.f[2] = "is not null"
        /\ node.f[3] = 0 /\ node.f[4] = 0
    OBVIOUS
  <2> HIDE DEF node
  <2>3. /\ node.f[3] \in 0 .. Len(ns) /\ Sort(ns, node.f[3]) \in {"RELATTR", "nothing"}
        /\ node.f[4] \in 0 .. Len(ns) /\ Sort(ns, node.f[4]) \in {"VALUE", "nothing"}
    <3>1. /\ 0 \in 0 .. Len(ns)
          /\ Sort(ns, 0) \in {"RELATTR", "nothing"} /\ Sort(ns, 0) \in {"VALUE", "nothing"}
      BY <1>1
    <3> QED
      BY <3>1, <2>2, Zenon
  <2>5. IF node.f[2] \in {"is null", "is not null"} THEN node.f[3] = 0 /\ node.f[4] = 0
        ELSE node.f[3] = 0 <=> node.f[4] # 0
    BY <2>2
  <2>4. WellMade(ns, node) /\ SortOf(ns, node) \in Meaning("CONDITION")
    BY <2>2, <2>3, <2>5, Compared
  <2> QED
    BY <2>1, <2>4 DEF Made
<1> QED
  BY <1>2, <1>3

\* The sides are those of the node that has them: exactly one is there.
LEMMA SidesOf ==
  ASSUME NEW ns, AllReadable(ns), NEW n, Fits(ns, n, "RELATTR_OR_VALUE")
  PROVE  /\ \E S : RightSides(ns, n) \in Seq(S)
         /\ Len(RightSides(ns, n)) = 2
         /\ RightSides(ns, n)[1] \in 0 .. Len(ns)
         /\ Sort(ns, RightSides(ns, n)[1]) \in {"RELATTR", "nothing"}
         /\ RightSides(ns, n)[2] \in 0 .. Len(ns)
         /\ Sort(ns, RightSides(ns, n)[2]) \in {"VALUE", "nothing"}
         /\ RightSides(ns, n)[1] = 0 <=> RightSides(ns, n)[2] # 0
<1>1. n \in 0 .. Len(ns) /\ Sort(ns, n) = "RELATTR_OR_VALUE"
  BY DEF Fits, Meaning
<1>2. n # 0 /\ n \in 1 .. Len(ns) /\ Len(ns) \in Nat
  BY <1>1, SeqAppended DEF Sort, AllReadable
<1>3. ns[n].kind = "RELATTR_OR_VALUE"
  BY <1>1, <1>2, KindOf DEF Kinds
<1>4. TwoSided(ns[n]) /\ Readable(ns, n)
  BY <1>2 DEF AllReadable
<1>5. IsSeq(ns[n].f) /\ Len(ns[n].f) = 2
  BY <1>3, <1>4 DEF TwoSided
<1>6. ns[n].f[1] = 0 <=> ns[n].f[2] # 0
  BY <1>3, <1>4 DEF Readable
<1>7. /\ <<"RELATTR_OR_VALUE", 1, {"RELATTR", "nothing"}>> \in Follows
      /\ <<"RELATTR_OR_VALUE", 2, {"VALUE", "nothing"}>> \in Follows
  BY DEF Follows
<1>8. /\ ns[n].f[1] \in 0 .. n - 1 /\ Sort(ns, ns[n].f[1]) \in {"RELATTR", "nothing"}
      /\ ns[n].f[2] \in 0 .. n - 1 /\ Sort(ns, ns[n].f[2]) \in {"VALUE", "nothing"}
  BY <1>3, <1>4, <1>7 DEF Readable
<1> QED
  BY <1>2, <1>5, <1>6, <1>8 DEF RightSides, IsSeq

LEMMA FirstTwo ==
  ASSUME NEW a, NEW b, NEW c
  PROVE  SubSeq(<<a, b, c>>, 1, 2) = <<a, b>>
<1> DEFINE r == <<a, b, c>>
           q == SubSeq(r, 1, 2)
<1>1. r \in Seq({a, b, c}) /\ Len(r) = 3 /\ r[1] = a /\ r[2] = b
  OBVIOUS
<1> HIDE DEF r
<1>2. q \in Seq({a, b, c}) /\ Len(q) = 2 /\ q[1] = r[1] /\ q[2] = r[2]
  BY <1>1
<1> HIDE DEF q
<1>3. q = <<a, b>>
  BY <1>1, <1>2
<1> QED
  BY <1>3 DEF q, r

LEMMA Beside ==
  ASSUME NEW S, NEW s \in Seq(S), Len(s) = 2, NEW a, NEW b, NEW c
  PROVE  SubSeq(<<a, b, c>>, 1, 2) \o s = <<a, b, s[1], s[2]>>
<1>1. SubSeq(<<a, b, c>>, 1, 2) = <<a, b>>
  BY FirstTwo
<1>2. s = <<s[1], s[2]>> /\ s[1] \in S /\ s[2] \in S
  OBVIOUS
<1>3. <<a, b>> \o <<s[1], s[2]>> = <<a, b, s[1], s[2]>>
  BY Four
<1> QED
  BY <1>1, <1>2, <1>3

LEMMA ConditionMade ==
  ASSUME NEW ns, AllReadable(ns), NEW a, NEW b, NEW c,
         Fits(ns, a, "RELATTR"), Fits(ns, b, "op"), Fits(ns, c, "RELATTR_OR_VALUE")
  PROVE  Made(ns, "CONDITION", <<a, b, c>>, "CONDITION")
<1> DEFINE s    == RightSides(ns, c)
           node == [kind |-> "CONDITION", f |-> <<a, b, s[1], s[2]>>]
<1>1. /\ \E S : s \in Seq(S)
      /\ Len(s) = 2
      /\ s[1] \in 0 .. Len(ns) /\ Sort(ns, s[1]) \in {"RELATTR", "nothing"}
      /\ s[2] \in 0 .. Len(ns) /\ Sort(ns, s[2]) \in {"VALUE", "nothing"}
      /\ s[1] = 0 <=> s[2] # 0
  BY SidesOf
<1>2. Node(ns, "CONDITION", <<a, b, c>>) = node
  <2>1. SubSeq(<<a, b, c>>, 1, 2) \o s = <<a, b, s[1], s[2]>>
    BY <1>1, Beside
  <2>2. Node(ns, "CONDITION", <<a, b, c>>) = [kind |-> "CONDITION", f |-> SubSeq(<<a, b, c>>, 1, 2) \o s]
    BY DEF Node
  <2> QED
    BY <2>1, <2>2
<1> HIDE DEF s
<1>3. /\ node.kind = "CONDITION" /\ node.f[1] = a /\ node.f[2] = b
      /\ node.f[3] = s[1] /\ node.f[4] = s[2]
  OBVIOUS
<1>4. b \notin {"is null", "is not null"}
  BY DEF Fits
<1> HIDE DEF node
<1>5. WellMade(ns, node) /\ SortOf(ns, node) \in Meaning("CONDITION")
  BY <1>1, <1>3, <1>4, Compared
<1> QED
  BY <1>2, <1>5 DEF Made

\* The rest of a list is a list of the same sort, or there is none.
LEMMA ListMade ==
  ASSUME NEW ns, AllReadable(ns), NEW a, NEW b, NEW s, NEW u, NEW t,
         Fits(ns, a, s), Fits(ns, b, u), ListEffect("LIST", <<s, u>>, t)
  PROVE  Made(ns, "LIST", <<a, b>>, t)
<1> DEFINE node == [kind |-> "LIST", f |-> <<a, b>>]
<1>1. Node(ns, "LIST", <<a, b>>) = node
  BY DEF Node
<1>2. node.kind = "LIST" /\ node.f[1] = a /\ node.f[2] = b
  OBVIOUS
<1> HIDE DEF node
<1>3. /\ s \in {"RELATTR", "RELATION", "declaration", "VALUE", "values", "CONDITION"}
      /\ (s = "RELATTR" => t = "attributes") /\ (s = "RELATION" => t = "relations")
      /\ (s = "declaration" => t = "declarations") /\ (s = "VALUE" => t = "values")
      /\ (s = "values" => t = "tuples") /\ (s = "CONDITION" => t \in {"conditions", "conditions?"})
      /\ u \in {"nothing", t}
      /\ t \in {"attributes", "relations", "declarations", "values", "tuples", "conditions",
                  "conditions?"}
  BY DEF ListEffect
<1>4. /\ a \in 0 .. Len(ns) /\ Sort(ns, a) = s
      /\ b \in 0 .. Len(ns) /\ Sort(ns, b) \in Meaning(u)
  BY <1>3 DEF Fits, Meaning
<1>5. a # 0 /\ a \in 1 .. Len(ns)
  BY <1>3, <1>4 DEF Sort
<1>6. /\ s \in {"RELATTR", "RELATION", "VALUE", "CONDITION"} => ns[a].kind = s
      /\ s = "declaration" => ns[a].kind \in {"ATTRTYPE", "ATTRPROP"}
      /\ s = "values" => ns[a].kind = "LIST"
  BY <1>4, <1>5, KindOf DEF Kinds
<1>7. SortOf(ns, node) = ListOf[ns[a].kind]
  BY <1>2 DEF SortOf, StatementKinds
<1>8. SortOf(ns, node) = IF t = "conditions?" THEN "conditions" ELSE t
  <2>1. /\ ListOf["RELATTR"] = "attributes" /\ ListOf["RELATION"] = "relations"
        /\ ListOf["ATTRTYPE"] = "declarations" /\ ListOf["ATTRPROP"] = "declarations"
        /\ ListOf["VALUE"] = "values" /\ ListOf["LIST"] = "tuples" /\ ListOf["CONDITION"] = "conditions"
    BY DEF ListOf
  <2>2. CASE s = "declaration"
    BY <2>1, <2>2, <1>3, <1>6, <1>7
  <2>3. CASE s = "values"
    BY <2>1, <2>3, <1>3, <1>6, <1>7
  <2>4. CASE s = "CONDITION"
    BY <2>1, <2>4, <1>3, <1>6, <1>7
  <2>5. CASE s \in {"RELATTR", "RELATION", "VALUE"}
    BY <2>1, <2>5, <1>3, <1>6, <1>7
  <2> QED
    BY <1>3, <2>2, <2>3, <2>4, <2>5
<1>9. SortOf(ns, node) \in Meaning(t) /\ Sort(ns, b) \in {SortOf(ns, node), "nothing"}
  BY <1>3, <1>4, <1>8 DEF Meaning
<1>10. \A r \in Follows :
         node.kind = r[1] => node.f[r[2]] \in 0 .. Len(ns) /\ Sort(ns, node.f[r[2]]) \in r[3]
  BY <1>2, <1>3, <1>4 DEF Follows
<1>11. WellMade(ns, node)
  BY <1>2, <1>4, <1>9, <1>10 DEF WellMade, TwoSided, Kinds
<1> QED
  BY <1>1, <1>9, <1>11 DEF Made

LEMMA NodeMade ==
  ASSUME NEW ns, AllReadable(ns), NEW x, NEW in, NEW t, NEW args,
         NodeEffect(x, in, t), Holds(ns, args, in)
  PROVE  Made(ns, x, args, t) /\ Arity[x] = Len(in)
<1>1. CASE x = "SHOWTABLES" /\ in = <<>> /\ t = "statement?"
  <2>1. Arity[x] = Len(in)
    BY <1>1 DEF Arity
  <2> QED
    BY <1>1, <2>1, LoneStatement
<1>2. CASE /\ x \in {"CREATEDATABASE", "DROPDATABASE", "USEDATABASE", "DESCTABLE", "DROPTABLE",
            "HELP", "PRINT"}
            /\ in = << "text" >> /\ t = "statement?"
  <2>1. Arity[x] = Len(in)
    BY <1>2 DEF Arity
  <2> QED
    BY <1>2, <2>1, LoneStatement
<1>3. CASE x \in {"CREATEINDEX", "DROPINDEX", "LOAD", "SET"} /\ in = <<"text", "text">>
           /\ t = "statement?"
  <2>1. Arity[x] = Len(in)
    BY <1>3 DEF Arity
  <2> QED
    BY <1>3, <2>1, LoneStatement
<1>4. CASE x = "CREATETABLE" /\ in = <<"text", "declarations">> /\ t = "statement?"
  <2>1. Arity[x] = Len(in)
    BY <1>4 DEF Arity
  <2>2. /\ args = <<args[1], args[2]>>
        /\ Fits(ns, args[1], "text") /\ Fits(ns, args[2], "declarations")
    BY <1>4, Holds2
  <2>3. Made(ns, "CREATETABLE", <<args[1], args[2]>>, "statement?")
    BY <2>2, CreateTableMade
  <2> QED
    BY <1>4, <2>1, <2>2, <2>3
<1>5. CASE x = "QUERY" /\ in = <<"attributes", "relations", "conditions?">> /\ t = "statement?"
  <2>1. Arity[x] = Len(in)
    BY <1>5 DEF Arity
  <2>2. /\ args = <<args[1], args[2], args[3]>>
        /\ Fits(ns, args[1], "attributes") /\ Fits(ns, args[2], "relations")
        /\ Fits(ns, args[3], "conditions?")
    BY <1>5, Holds3
  <2>3. Made(ns, "QUERY", <<args[1], args[2], args[3]>>, "statement?")
    BY <2>2, QueryMade
  <2> QED
    BY <1>5, <2>1, <2>2, <2>3
<1>6. CASE x = "INSERT" /\ in = <<"text", "tuples">> /\ t = "statement?"
  <2>1. Arity[x] = Len(in)
    BY <1>6 DEF Arity
  <2>2. /\ args = <<args[1], args[2]>>
        /\ Fits(ns, args[1], "text") /\ Fits(ns, args[2], "tuples")
    BY <1>6, Holds2
  <2>3. Made(ns, "INSERT", <<args[1], args[2]>>, "statement?")
    BY <2>2, InsertMade
  <2> QED
    BY <1>6, <2>1, <2>2, <2>3
<1>7. CASE x = "DELETE" /\ in = <<"text", "conditions?">> /\ t = "statement?"
  <2>1. Arity[x] = Len(in)
    BY <1>7 DEF Arity
  <2>2. /\ args = <<args[1], args[2]>>
        /\ Fits(ns, args[1], "text") /\ Fits(ns, args[2], "conditions?")
    BY <1>7, Holds2
  <2>3. Made(ns, "DELETE", <<args[1], args[2]>>, "statement?")
    BY <2>2, DeleteMade
  <2> QED
    BY <1>7, <2>1, <2>2, <2>3
<1>8. CASE x = "UPDATE" /\ in = <<"text", "RELATTR", "RELATTR_OR_VALUE", "conditions?">>
           /\ t = "statement?"
  <2>1. Arity[x] = Len(in)
    BY <1>8 DEF Arity
  <2>2. /\ args = <<args[1], args[2], args[3], args[4]>>
        /\ Fits(ns, args[1], "text") /\ Fits(ns, args[2], "RELATTR")
        /\ Fits(ns, args[3], "RELATTR_OR_VALUE") /\ Fits(ns, args[4], "conditions?")
    BY <1>8, Holds4
  <2>3. Made(ns, "UPDATE", <<args[1], args[2], args[3], args[4]>>, "statement?")
    BY <2>2, UpdateMade
  <2> QED
    BY <1>8, <2>1, <2>2, <2>3
<1>9. CASE x = "ATTR" /\ in = << "text" >> /\ t = "RELATTR"
  <2>1. Arity[x] = Len(in)
    BY <1>9 DEF Arity
  <2>2. /\ args = << args[1] >>
        /\ Fits(ns, args[1], "text")
    BY <1>9, Holds1
  <2>3. Made(ns, "ATTR", << args[1] >>, "RELATTR")
    BY <2>2, LonesMade
  <2> QED
    BY <1>9, <2>1, <2>2, <2>3
<1>10. CASE x = "RELATTR" /\ in = <<"text", "text">> /\ t = "RELATTR"
  <2>1. Arity[x] = Len(in)
    BY <1>10 DEF Arity
  <2>2. /\ args = <<args[1], args[2]>>
        /\ Fits(ns, args[1], "text") /\ Fits(ns, args[2], "text")
    BY <1>10, Holds2
  <2>3. Made(ns, "RELATTR", <<args[1], args[2]>>, "RELATTR")
    BY <2>2, LonesMade
  <2> QED
    BY <1>10, <2>1, <2>2, <2>3
<1>11. CASE x = "RELATION" /\ in = << "text" >> /\ t = "RELATION"
  <2>1. Arity[x] = Len(in)
    BY <1>11 DEF Arity
  <2>2. /\ args = << args[1] >>
        /\ Fits(ns, args[1], "text")
    BY <1>11, Holds1
  <2>3. Made(ns, "RELATION", << args[1] >>, "RELATION")
    BY <2>2, LonesMade
  <2> QED
    BY <1>11, <2>1, <2>2, <2>3
<1>12. CASE x \in {"ATTRTYPE", "ATTRTYPE_NOT_NULL"} /\ in = <<"text", "text", "text">>
            /\ t = "declaration"
  <2>1. Arity[x] = Len(in)
    BY <1>12 DEF Arity
  <2>2. /\ args = <<args[1], args[2], args[3]>>
        /\ Fits(ns, args[1], "text") /\ Fits(ns, args[2], "text") /\ Fits(ns, args[3], "text")
    BY <1>12, Holds3
  <2>3. /\ Made(ns, "ATTRTYPE", <<args[1], args[2], args[3]>>, "declaration")
        /\ Made(ns, "ATTRTYPE_NOT_NULL", <<args[1], args[2], args[3]>>, "declaration")
    BY <2>2, LonesMade
  <2> QED
    BY <1>12, <2>1, <2>2, <2>3
<1>13. CASE x = "ATTRPROP" /\ in = << "text" >> /\ t = "declaration"
  <2>1. Arity[x] = Len(in)
    BY <1>13 DEF Arity
  <2>2. /\ args = << args[1] >>
        /\ Fits(ns, args[1], "text")
    BY <1>13, Holds1
  <2>3. Made(ns, "ATTRPROP", << args[1] >>, "declaration")
    BY <2>2, LonesMade
  <2> QED
    BY <1>13, <2>1, <2>2, <2>3
<1>14. CASE x = "VALUE" /\ in = << "text" >> /\ t = "VALUE"
  <2>1. Arity[x] = Len(in)
    BY <1>14 DEF Arity
  <2>2. /\ args = << args[1] >>
        /\ Fits(ns, args[1], "text")
    BY <1>14, Holds1
  <2>3. Made(ns, "VALUE", << args[1] >>, "VALUE")
    BY <2>2, LonesMade
  <2> QED
    BY <1>14, <2>1, <2>2, <2>3
<1>15. CASE x = "NULLV" /\ in = <<>> /\ t = "VALUE"
  <2>1. Arity[x] = Len(in)
    BY <1>15 DEF Arity
  <2> QED
    BY <1>15, <2>1, LonesMade
<1>16. CASE x = "RELATTR_OF" /\ in = << "RELATTR" >> /\ t = "RELATTR_OR_VALUE"
  <2>1. Arity[x] = Len(in)
    BY <1>16 DEF Arity
  <2>2. /\ args = << args[1] >>
        /\ Fits(ns, args[1], "RELATTR")
    BY <1>16, Holds1
  <2>3. Made(ns, "RELATTR_OF", << args[1] >>, "RELATTR_OR_VALUE")
    BY <2>2, SideMade
  <2> QED
    BY <1>16, <2>1, <2>2, <2>3
<1>17. CASE x = "VALUE_OF" /\ in = << "VALUE" >> /\ t = "RELATTR_OR_VALUE"
  <2>1. Arity[x] = Len(in)
    BY <1>17 DEF Arity
  <2>2. /\ args = << args[1] >>
        /\ Fits(ns, args[1], "VALUE")
    BY <1>17, Holds1
  <2>3. Made(ns, "VALUE_OF", << args[1] >>, "RELATTR_OR_VALUE")
    BY <2>2, SideMade
  <2> QED
    BY <1>17, <2>1, <2>2, <2>3
<1>18. CASE x = "CONDITION" /\ in = <<"RELATTR", "op", "RELATTR_OR_VALUE">> /\ t = "CONDITION"
  <2>1. Arity[x] = Len(in)
    BY <1>18 DEF Arity
  <2>2. /\ args = <<args[1], args[2], args[3]>>
        /\ Fits(ns, args[1], "RELATTR") /\ Fits(ns, args[2], "op")
        /\ Fits(ns, args[3], "RELATTR_OR_VALUE")
    BY <1>18, Holds3
  <2>3. Made(ns, "CONDITION", <<args[1], args[2], args[3]>>, "CONDITION")
    BY <2>2, ConditionMade
  <2> QED
    BY <1>18, <2>1, <2>2, <2>3
<1>19. CASE x \in {"IS_NULL", "NOT_NULL"} /\ in = << "RELATTR" >> /\ t = "CONDITION"
  <2>1. Arity[x] = Len(in)
    BY <1>19 DEF Arity
  <2>2. /\ args = << args[1] >>
        /\ Fits(ns, args[1], "RELATTR")
    BY <1>19, Holds1
  <2>3. /\ Made(ns, "IS_NULL", << args[1] >>, "CONDITION")
        /\ Made(ns, "NOT_NULL", << args[1] >>, "CONDITION")
    BY <2>2, NullTestMade
  <2> QED
    BY <1>19, <2>1, <2>2, <2>3
<1>20. CASE ListEffect(x, in, t)
  <2>1. PICK s, u : in = <<s, u>> /\ x = "LIST"
    BY <1>20 DEF ListEffect
  <2>2. Arity[x] = Len(in)
    BY <2>1 DEF Arity
  <2>3. args = <<args[1], args[2]>> /\ Fits(ns, args[1], s) /\ Fits(ns, args[2], u)
    BY <2>1, Holds2
  <2>4. ListEffect("LIST", <<s, u>>, t)
    BY <1>20, <2>1
  <2>5. Made(ns, "LIST", <<args[1], args[2]>>, t)
    BY <2>3, <2>4, ListMade
  <2> QED
    BY <2>1, <2>2, <2>3, <2>5
<1> QED
  BY <1>1, <1>2, <1>3, <1>4, <1>5, <1>6, <1>7, <1>8, <1>9, <1>10, <1>11, <1>12, <1>13, <1>14, <1>15,
              <1>16, <1>17, <1>18, <1>19, <1>20 DEF NodeEffect
-----------------------------------------------------------------------------
(* What kind of symbol has which effect.                                    *)
LEMMA PhraseOnly ==
  ASSUME NEW x \in Phrases, NEW in, NEW t, Effect(x, in, t)
  PROVE  PhraseEffect(x, in, t)
BY DEF Phrases, Effect, TokenEffect, PlainEffect, NodeEffect, ListEffect

LEMMA PhraseIs ==
  ASSUME NEW x, NEW in, NEW t, PhraseEffect(x, in, t)
  PROVE  x \in Phrases
BY DEF PhraseEffect, Phrases

LEMMA ActionNames ==
  /\ DOMAIN Plain = {"nothing", "unnamed", "star", "EQ_OP", "EXIT", "EOF"}
  /\ DOMAIN Arity =
       {"CREATEDATABASE", "DROPDATABASE", "USEDATABASE", "SHOWTABLES", "DESCTABLE", "CREATETABLE",
        "CREATEINDEX", "DROPTABLE", "DROPINDEX", "LOAD", "SET", "HELP", "PRINT", "QUERY", "INSERT",
        "DELETE", "UPDATE", "ATTR", "RELATTR", "RELATION", "ATTRTYPE", "ATTRTYPE_NOT_NULL", "ATTRPROP",
        "CONDITION", "IS_NULL", "NOT_NULL", "RELATTR_OF", "VALUE_OF", "VALUE", "NULLV", "LIST"}
BY DEF Plain, Arity

LEMMA PlainIs ==
  ASSUME NEW x, NEW in, NEW t, PlainEffect(x, in, t)
  PROVE  x \in Actions
BY ActionNames DEF PlainEffect, Actions

LEMMA NodeIs ==
  ASSUME NEW x, NEW in, NEW t, NodeEffect(x, in, t)
  PROVE  x \in Actions
BY ActionNames DEF NodeEffect, ListEffect, Actions

LEMMA TokenOnly ==
  ASSUME NEW x, x \notin Actions \cup Nonterminals, NEW in, NEW t, Effect(x, in, t)
  PROVE  TokenEffect(x, in, t)
BY PlainIs, NodeIs, PhraseIs, PhrasesAreSymbols DEF Effect

LEMMA NodeOnly ==
  ASSUME NEW x \in DOMAIN Arity, NEW in, NEW t, Effect(x, in, t)
  PROVE  NodeEffect(x, in, t) /\ x \notin Silent
<1>1. ~TokenEffect(x, in, t) /\ ~PlainEffect(x, in, t)
  BY ActionNames DEF TokenEffect, PlainEffect
<1>2. ~PhraseEffect(x, in, t)
  BY ActionNames DEF PhraseEffect
<1>3. x \notin Silent
  BY ActionNames DEF Silent
<1> QED
  BY <1>1, <1>2, <1>3 DEF Effect

LEMMA PlainOnly ==
  ASSUME NEW x \in DOMAIN Plain \cup {"SHELL"}, NEW in, NEW t, Effect(x, in, t)
  PROVE  PlainEffect(x, in, t)
BY ActionNames DEF Effect, TokenEffect, PhraseEffect, NodeEffect, ListEffect

LEMMA NotSilent ==
  ASSUME NEW x \in Phrases \cup Actions
  PROVE  x \notin Silent
BY ActionNames DEF Phrases, Actions, Silent

-----------------------------------------------------------------------------
(* The invariant: the pool can be read, an operator is none of the two that *)
(* compare with null, and the symbols to come make a statement of the       *)
(* values there are.                                                        *)
Expecting(a) ==
  Derives(predicted, a, << "statement?" >>) /\ Holds(nodes, values, a)

Inv ==
  /\ AllReadable(nodes)
  /\ (token # <<>> /\ token[1] = "T_OP") => token[2] \notin {"is null", "is not null"}
  /\ pc = "parse" => \E a \in Stacks : Expecting(a)

LEMMA Initially ==
  ASSUME Init
  PROVE  Inv
<1>1. IsSeq(<<>>) /\ Len(<<>>) = 0
  BY DEF IsSeq
<1>2. AllReadable(nodes)
  BY <1>1 DEF Init, AllReadable
<1> QED
  BY <1>2 DEF Init, Inv

LEMMA StartOver ==
  ASSUME Inv, NewQuery
  PROVE  Inv'
<1>1. IsSeq(<<>>) /\ Len(<<>>) = 0
  BY DEF IsSeq
<1>2. AllReadable(<<>>)
  BY <1>1 DEF AllReadable
<1>3. <<>> \in Stacks /\ "statement?" \in Types /\ << "statement?" >> \in Stacks
  BY DEF Stacks, Types
<1>4. Effect("start", <<>>, "statement?")
  BY DEF Effect, PhraseEffect
<1>5. Step("start", <<>>, Append(<<>>, "statement?"))
  BY <1>3, <1>4, Pushes
<1>6. Append(<<>>, "statement?") = << "statement?" >>
  OBVIOUS
<1>7. Derives(<< "start" >>, <<>>, << "statement?" >>)
  BY <1>3, <1>5, <1>6, Derive1
<1>8. Holds(<<>>, <<>>, <<>>)
  BY <1>1 DEF Holds
<1>9. Expecting(<<>>)'
  BY <1>7, <1>8 DEF NewQuery, Expecting
<1> QED
  BY <1>2, <1>3, <1>9 DEF NewQuery, Inv

\* Nothing of the parser changes.
LEMMA Still ==
  ASSUME Inv, UNCHANGED <<token, parser, pc>>
  PROVE  Inv'
BY DEF Inv, Expecting, parser

LEMMA Read ==
  ASSUME Inv, UNCHANGED <<parser, pc>>, NEW c, NEW w, token' = <<c, w>>,
         c = "T_OP" => w \notin {"is null", "is not null"}
  PROVE  Inv'
BY DEF Inv, Expecting, parser

LEMMA Refilled ==
  ASSUME Inv, Refill
  PROVE  Inv'
<1>1. CASE reads = <<>>
  BY <1>1, Read DEF Refill
<1>2. CASE reads # <<>>
  BY <1>2, Still DEF Refill
<1> QED
  BY <1>1, <1>2

LEMMA OpIs ==
  ASSUME NEW w, Class(w) = "T_OP"
  PROVE  w \notin {"is null", "is not null"}
BY DEF Class

LEMMA Scanned ==
  ASSUME Inv, Yylex
  PROVE  Inv'
<1>1. \/ token' = <<Class(Head(buffer)), Head(buffer)>>
      \/ token' = <<"T_SHELL_CMD", SubSeq(buffer, 1, Len(buffer) - Len(LineEnd))>>
  BY DEF Yylex
<1>2. UNCHANGED <<parser, pc>>
  BY DEF Yylex
<1> QED
  BY <1>1, <1>2, Read, OpIs

\* The symbol at hand is done: the ones after it make a statement of what it has left.
LEMMA TopStep ==
  ASSUME Inv, Predicts
  PROVE  \E a, m \in Stacks :
           /\ Holds(nodes, values, a) /\ Step(top, a, m)
           /\ Derives(Tail(predicted), m, << "statement?" >>)
<1>1. PICK a \in Stacks : Derives(predicted, a, << "statement?" >>) /\ Holds(nodes, values, a)
  BY DEF Inv, Predicts, Expecting
<1>2. \E m \in Stacks : Step(predicted[1], a, m) /\ Derives(Tail(predicted), m, << "statement?" >>)
  BY <1>1, DeriveFirst DEF Predicts
<1> QED
  BY <1>1, <1>2 DEF top

LEMMA Predicted ==
  ASSUME Inv, Predict
  PROVE  Inv'
<1>1. PICK p \in Predictions(top, token[1]) : predicted' = p[3] \o Tail(predicted)
  BY DEF Predict
<1>2. p \in Productions /\ p[1] = top
  BY DEF Predictions
<1>3. PICK a, m \in Stacks :
        /\ Holds(nodes, values, a) /\ Step(top, a, m)
        /\ Derives(Tail(predicted), m, << "statement?" >>)
  BY TopStep DEF Predict
<1>4. top \in Phrases /\ top \notin Silent
  BY <1>2, ProductionsMake, NotSilent
<1>5. PICK base, in \in Stacks, t \in Types : Effect(top, in, t) /\ a = base \o in /\ m = Append(base, t)
  BY <1>3, <1>4 DEF Step
<1>6. PhraseEffect(p[1], in, t)
  BY <1>2, <1>4, <1>5, PhraseOnly
<1>7. Derives(p[3], a, m)
  BY <1>2, <1>5, <1>6, ProductionsMake DEF Makes
<1>8. Derives(p[3] \o Tail(predicted), a, << "statement?" >>)
  BY <1>3, <1>7, DeriveThen
<1>9. Expecting(a)'
  BY <1>1, <1>3, <1>8 DEF Predict, Expecting
<1> QED
  BY <1>9 DEF Predict, Inv

LEMMA Shifted ==
  ASSUME Inv, Shift
  PROVE  Inv'
<1> DEFINE valued == {"T_STRING", "T_INT", "T_QSTRING", "T_OP", "T_SHELL_CMD"}
<1>1. PICK a, m \in Stacks :
        /\ Holds(nodes, values, a) /\ Step(top, a, m)
        /\ Derives(Tail(predicted), m, << "statement?" >>)
  BY TopStep DEF Shift
<1>2. Holds(nodes, values', m)
  <2>1. CASE top \in Silent /\ m = a
    <3>1. top \notin valued
      BY <2>1 DEF Silent
    <3> QED
      BY <3>1, <2>1, <1>1 DEF Shift
  <2>2. ASSUME NEW base \in Stacks, NEW in \in Stacks, NEW t \in Types,
               Effect(top, in, t), a = base \o in, m = Append(base, t)
        PROVE  Holds(nodes, values', m)
    <3>1. TokenEffect(top, in, t)
      BY <2>2, TokenOnly DEF Shift
    <3>2. top \in valued /\ in = <<>>
      BY <3>1 DEF TokenEffect
    <3>3. a = base
      BY <2>2, <3>2, Onto0
    <3>4. t = "text" \/ (t = "op" /\ top = "T_OP")
      BY <3>1 DEF TokenEffect
    <3>5. Fits(nodes, token[2], t)
      BY <3>4 DEF Fits, Inv, Shift
    <3>6. values' = Append(values, token[2])
      BY <3>2 DEF Shift
    <3> QED
      BY <3>3, <3>5, <3>6, <2>2, <1>1, HoldsMore
  <2> QED
    BY <1>1, <2>1, <2>2 DEF Step
<1>3. Expecting(m)'
  BY <1>1, <1>2 DEF Shift, Expecting
<1> QED
  BY <1>3 DEF Shift, Inv

LEMMA NodePushed ==
  ASSUME Inv, MakeNode
  PROVE  Inv'
<1>1. CASE Len(nodes) = MAXNODE
  BY <1>1 DEF MakeNode, Inv, parser
<1>2. CASE Len(nodes) # MAXNODE
  <2>1. PICK a, m \in Stacks :
          /\ Holds(nodes, values, a) /\ Step(top, a, m)
          /\ Derives(Tail(predicted), m, << "statement?" >>)
    BY TopStep DEF MakeNode
  <2>2. top \in DOMAIN Arity /\ top \notin Silent
    BY NotSilent DEF MakeNode, Actions
  <2>3. PICK base, in \in Stacks, t \in Types :
          Effect(top, in, t) /\ a = base \o in /\ m = Append(base, t)
    BY <2>1, <2>2 DEF Step
  <2>4. NodeEffect(top, in, t)
    BY <2>2, <2>3, NodeOnly
  <2> DEFINE args == SubSeq(values, Len(values) - Len(in) + 1, Len(values))
             rest == SubSeq(values, 1, Len(values) - Len(in))
             node == Node(nodes, top, args)
  <2>5. Holds(nodes, args, in) /\ Holds(nodes, rest, base)
    BY <2>1, <2>3, HoldsParts
  <2> HIDE DEF args, rest
  <2>6. AllReadable(nodes)
    BY DEF Inv
  <2>7. Made(nodes, top, args, t) /\ Arity[top] = Len(in)
    BY <2>4, <2>5, <2>6, NodeMade
  <2>8. /\ nodes' = Append(nodes, node) /\ values' = Append(rest, Len(nodes) + 1)
        /\ predicted' = Tail(predicted)
    BY <1>2, <2>7 DEF MakeNode, Args, args, rest
  <2>9. WellMade(nodes, node) /\ SortOf(nodes, node) \in Meaning(t)
    BY <2>7 DEF Made
  <2>10. t \notin {"text", "op"}
    BY <2>4 DEF NodeEffect, ListEffect
  <2> HIDE DEF node
  <2>11. AllReadable(nodes') /\ Sort(nodes', Len(nodes) + 1) = SortOf(nodes, node)
    BY <2>6, <2>8, <2>9, Added
  <2>12. Len(nodes) \in Nat /\ Len(nodes') = Len(nodes) + 1
    BY <2>6, <2>8, SeqAppended DEF AllReadable
  <2>13. Fits(nodes', Len(nodes) + 1, t)
    <3>1. Len(nodes) + 1 \in 0 .. Len(nodes') /\ Sort(nodes', Len(nodes) + 1) \in Meaning(t)
      BY <2>9, <2>11, <2>12
    <3> QED
      BY <2>10, <3>1 DEF Fits
  <2>14. Holds(nodes', rest, base)
    BY <2>5, <2>6, <2>8, HoldsKept
  <2>15. Holds(nodes', values', m)
    BY <2>3, <2>8, <2>13, <2>14, HoldsMore
  <2>16. Expecting(m)'
    BY <2>1, <2>8, <2>15 DEF Expecting
  <2> QED
    BY <2>11, <2>16 DEF MakeNode, Inv
<1> QED
  BY <1>1, <1>2

LEMMA NullFits ==
  ASSUME NEW ns, AllReadable(ns)
  PROVE  Fits(ns, 0, "nothing") /\ Fits(ns, 0, "conditions?") /\ Fits(ns, 0, "statement?")
<1>1. 0 \in 0 .. Len(ns) /\ Sort(ns, 0) = "nothing"
  BY SeqAppended DEF AllReadable, Sort
<1> QED
  BY <1>1 DEF Fits, Meaning

LEMMA PlainFits ==
  ASSUME NEW ns, AllReadable(ns), NEW x \in DOMAIN Plain, NEW in, NEW t, PlainEffect(x, in, t)
  PROVE  in = <<>> /\ Fits(ns, Plain[x], t)
<1>1. /\ Plain["nothing"] = 0 /\ Plain["EXIT"] = 0 /\ Plain["EOF"] = 0
      /\ Plain["EQ_OP"] = "="
  BY DEF Plain
<1>2. x # "SHELL"
  BY ActionNames
<1>3. in = <<>>
  BY <1>2 DEF PlainEffect
<1> SUFFICES Fits(ns, Plain[x], t)
  BY <1>3
<1>4. CASE x = "nothing" /\ t \in {"nothing", "conditions?", "statement?"}
  BY <1>1, <1>4, NullFits
<1>5. CASE x \in {"unnamed", "star"} /\ t = "text"
  BY <1>5 DEF Fits
<1>6. CASE x = "EQ_OP" /\ t = "op"
  <2>1. Fits(ns, "=", "op")
    BY DEF Fits
  <2> QED
    BY <1>1, <1>6, <2>1
<1>7. CASE x \in {"EXIT", "EOF"} /\ t = "statement?"
  BY <1>1, <1>7, NullFits
<1> QED
  BY <1>2, <1>4, <1>5, <1>6, <1>7 DEF PlainEffect

LEMMA PlainPushed ==
  ASSUME Inv, PlainAction
  PROVE  Inv'
<1>1. PICK a, m \in Stacks :
        /\ Holds(nodes, values, a) /\ Step(top, a, m)
        /\ Derives(Tail(predicted), m, << "statement?" >>)
  BY TopStep DEF PlainAction
<1>2. top \in DOMAIN Plain /\ top \notin Silent
  BY NotSilent DEF PlainAction, Actions
<1>3. PICK base, in \in Stacks, t \in Types : Effect(top, in, t) /\ a = base \o in /\ m = Append(base, t)
  BY <1>1, <1>2 DEF Step
<1>4. PlainEffect(top, in, t)
  BY <1>2, <1>3, PlainOnly
<1>5. in = <<>> /\ Fits(nodes, Plain[top], t)
  BY <1>2, <1>4, PlainFits DEF Inv
<1>6. a = base
  BY <1>3, <1>5, Onto0
<1>7. Holds(nodes, Append(values, Plain[top]), m)
  BY <1>1, <1>3, <1>5, <1>6, HoldsMore
<1>8. Expecting(m)'
  BY <1>1, <1>7 DEF PlainAction, Expecting
<1> QED
  BY <1>8 DEF PlainAction, Inv

LEMMA CommandRun ==
  ASSUME Inv, Shell
  PROVE  Inv'
<1>1. PICK a, m \in Stacks :
        /\ Holds(nodes, values, a) /\ Step(top, a, m)
        /\ Derives(Tail(predicted), m, << "statement?" >>)
  BY TopStep DEF Shell
<1>2. top = "SHELL" /\ top \notin Silent
  BY NotSilent DEF Shell, Actions
<1>3. PICK base, in \in Stacks, t \in Types : Effect(top, in, t) /\ a = base \o in /\ m = Append(base, t)
  BY <1>1, <1>2 DEF Step
<1>4. PlainEffect(top, in, t)
  BY <1>2, <1>3, PlainOnly
<1>5. in = << "text" >> /\ t = "statement?"
  BY <1>2, <1>4 DEF PlainEffect
<1>6. Len(in) = 1
  BY <1>5
<1>7. Holds(nodes, SubSeq(values, 1, Len(values) - 1), base)
  <2>1. Holds(nodes, SubSeq(values, 1, Len(values) - Len(in)), base)
    BY <1>1, <1>3, HoldsParts
  <2> QED
    BY <1>6, <2>1
<1>8. values' = Append(SubSeq(values, 1, Len(values) - 1), 0)
  BY DEF Shell, Front
<1>9. Fits(nodes, 0, t)
  BY <1>5, NullFits DEF Inv
<1>10. Holds(nodes, values', m)
  BY <1>3, <1>7, <1>8, <1>9, HoldsMore
<1>11. Expecting(m)'
  BY <1>1, <1>10 DEF Shell, Expecting
<1> QED
  BY <1>11 DEF Shell, Inv

LEMMA Invariant == Spec => []Inv
<1>1. ASSUME Inv, [Next]_vars PROVE Inv'
  <2>1. CASE NewQuery
    BY <2>1, <1>1, StartOver
  <2>2. CASE Leave
    BY <2>2, <1>1 DEF Leave, Inv, parser
  <2>3. CASE Refill
    BY <2>3, <1>1, Refilled
  <2>4. CASE Skip
    BY <2>4, <1>1, Still DEF Skip
  <2>5. CASE Yylex
    BY <2>5, <1>1, Scanned
  <2>6. CASE Predict
    BY <2>6, <1>1, Predicted
  <2>7. CASE Shift
    BY <2>7, <1>1, Shifted
  <2>8. CASE SyntaxError
    BY <2>8, <1>1 DEF SyntaxError, Inv, parser
  <2>9. CASE MakeNode
    BY <2>9, <1>1, NodePushed
  <2>10. CASE PlainAction
    BY <2>10, <1>1, PlainPushed
  <2>11. CASE Shell
    BY <2>11, <1>1, CommandRun
  <2>12. CASE Interp
    BY <2>12, <1>1 DEF Interp, Inv, parser
  <2>13. CASE UNCHANGED vars
    BY <2>13, <1>1, Still DEF vars
  <2> QED
    BY <1>1, <2>1, <2>2, <2>3, <2>4, <2>5, <2>6, <2>7, <2>8, <2>9, <2>10, <2>11, <2>12, <2>13 DEF Next
<1> QED
  BY <1>1, Initially, PTL DEF Spec

\* Whatever is typed, and however it is read, the nodes of the pool are what interp takes
\* them to be, and what a statement leaves on the stack is one statement or none.
THEOREM TreesAsReadAlways == Spec => []TreesAsRead
<1>1. ASSUME Inv PROVE TreesAsRead
  <2>1. \A n \in DOMAIN nodes : Readable(nodes, n)
    BY <1>1, SeqCounted DEF Inv, AllReadable
  <2>2. ASSUME pc = "parse", predicted = <<>>
        PROVE  /\ Len(values) = 1 /\ values[1] \in 0 .. Len(nodes)
               /\ Sort(nodes, values[1]) \in {"statement", "nothing"}
    <3>1. PICK a \in Stacks : Derives(<<>>, a, << "statement?" >>) /\ Holds(nodes, values, a)
      BY <1>1, <2>2 DEF Inv, Expecting
    <3>2. Holds(nodes, values, << "statement?" >>)
      BY <3>1, DerivedNone
    <3>3. Len(values) = 1 /\ Fits(nodes, values[1], "statement?")
      BY <3>2 DEF Holds
    <3> QED
      BY <3>3 DEF Fits, Meaning
  <2> QED
    BY <2>1, <2>2 DEF TreesAsRead
<1> QED
  BY <1>1, Invariant, PTL
=============================================================================

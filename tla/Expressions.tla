------------------------------ MODULE Expressions ------------------------------
(***************************************************************************)
(* The expression parser of parser.cpp: operator precedence over a token   *)
(* sequence, and the grammars that parser.h and rules[] give.  A token is a        *)
(* string; a tree is a record of an operator and its subtrees.             *)
(***************************************************************************)
EXTENDS Integers, Sequences, FiniteSets, SequencesExt

Identifiers == {"x", "y", "f", "n", "array", "u"}
Numbers     == {"1"}
EOF         == "EOF"

Node(op, kids) == [op |-> op, kids |-> kids]
Leaf(token)    == Node(token, <<>>)

-----------------------------------------------------------------------------
PREC_NONE   == 0
PREC_TEMP   == 1
PREC_OR     == 2
PREC_AND    == 3
PREC_EQ     == 4
PREC_CMP    == 5
PREC_ADD    == 6
PREC_FACTOR == 7
PREC_UNARY  == 8
PREC_CALL   == 9
PREC_PRIMARY == 10

(* The tokens from TOKEN_AND on, in the order lexer.h numbers them, and    *)
(* the precedences in the rows that rules[] has at those places: the rows  *)
(* were written for another order, == != and or.  The lexer makes no "and" *)
(* and no "or".                                                            *)
LogicalTokens == <<"and", "or", "==", "!=", "<", "<=", ">", ">=">>

(* Mutant: the rows are one place off again, so that >= gets another row.  *)
LogicalRows_shifted == <<PREC_EQ, PREC_AND, PREC_OR, PREC_CMP,
                         PREC_CMP, PREC_CMP, PREC_CMP, PREC_EQ>>

LogicalRows   == <<PREC_EQ, PREC_EQ, PREC_AND, PREC_OR,
                   PREC_CMP, PREC_CMP, PREC_CMP, PREC_CMP>>

Precedence(t) ==
  CASE t \in {"+", "-"} -> PREC_ADD
    [] t \in {"*", "/", "%"} -> PREC_FACTOR
    [] t \in Identifiers \cup Numbers -> PREC_PRIMARY
    [] t \in {"(", "["} -> PREC_CALL
    [] t \in Range(LogicalTokens) ->
         LogicalRows[CHOOSE k \in DOMAIN LogicalTokens : LogicalTokens[k] = t]
    [] OTHER -> PREC_NONE

(* The result of a parsing function: the tree and the next token, or the   *)
(* token at which the parser threw.                                        *)
Parsed(tree, i) == [ok |-> TRUE, tree |-> tree, next |-> i]
Throws(i)       == [ok |-> FALSE, tree |-> Leaf(""), next |-> i]

(* Mutant: operators associate to the right.                               *)
left_assoc_off(t) == 0

left_assoc(t) == 1

RECURSIVE parse_precedence(_, _, _), infix(_, _, _), arguments(_, _, _),
          parse_fn_params(_, _)

(* parse_fn_params after a comma: names up to the closing parenthesis.     *)
parse_fn_params(s, i) ==
  IF s[i] = ")" THEN Parsed(Node("()", <<>>), i + 1)
  ELSE IF s[i] \notin Identifiers THEN Throws(i)
  ELSE IF s[i + 1] = ")" THEN Parsed(Node("()", <<>>), i + 2)
  ELSE IF s[i + 1] # "," THEN Throws(i + 1)
  ELSE IF s[i + 2] \in Identifiers THEN parse_fn_params(s, i + 2)
  ELSE Throws(i + 2)

pfn_unary(s, i) ==
  IF s[i + 1] \in Numbers THEN Parsed(Leaf("-1"), i + 2)
  ELSE LET r == parse_precedence(s, i + 1, PREC_UNARY)
       IN IF r.ok THEN Parsed(Node("neg", <<r.tree>>), r.next) ELSE r

pfn_grouping(s, i) ==
  IF s[i + 1] = ")" THEN Parsed(Node("()", <<>>), i + 2)
  ELSE IF s[i + 1] \in Identifiers /\ s[i + 2] = ","
  THEN parse_fn_params(s, i + 3)
  ELSE LET r == parse_precedence(s, i + 1, PREC_TEMP)
       IN IF r.ok /\ s[r.next] = ")" THEN Parsed(r.tree, r.next + 1)
          ELSE Throws(r.next)

prefix(s, i) ==
  CASE s[i] \in Identifiers \cup Numbers -> Parsed(Leaf(s[i]), i + 1)
    [] s[i] = "-" -> pfn_unary(s, i)
    [] s[i] = "(" -> pfn_grouping(s, i)
    [] OTHER -> Throws(i)

parse_precedence(s, i, prec) ==
  LET lhs == prefix(s, i) IN IF lhs.ok THEN infix(s, lhs, prec) ELSE lhs

(* The arguments of a call to t from token i on.                           *)
arguments(s, i, t) ==
  LET r == parse_precedence(s, i, PREC_TEMP)
      call == Node(t.op, Append(t.kids, r.tree))
  IN IF ~r.ok THEN r
     ELSE IF s[r.next] = ")" THEN Parsed(call, r.next + 1)
     ELSE IF s[r.next] = "," THEN arguments(s, r.next + 1, call)
     ELSE Throws(r.next)

ifn_call(s, lhs) ==
  LET call == Node("call", <<lhs.tree>>)
  IN IF s[lhs.next + 1] = ")" THEN Parsed(call, lhs.next + 2)
     ELSE arguments(s, lhs.next + 1, call)

ifn_arrayget(s, lhs) ==
  LET r == parse_precedence(s, lhs.next + 1, PREC_TEMP)
  IN IF r.ok /\ s[r.next] = "]"
     THEN Parsed(Node("get", <<lhs.tree, r.tree>>), r.next + 1)
     ELSE Throws(r.next)

ifn_binary(s, lhs) ==
  LET op == s[lhs.next]
      r == parse_precedence(s, lhs.next + 1, Precedence(op) + left_assoc(op))
  IN IF r.ok THEN Parsed(Node(op, <<lhs.tree, r.tree>>), r.next) ELSE r

(* The loop of parse_precedence: lhs grows while an operator binds it.     *)
infix(s, lhs, prec) ==
  LET op == s[lhs.next]
      grown == CASE op = "(" -> ifn_call(s, lhs)
                 [] op = "[" -> ifn_arrayget(s, lhs)
                 [] op \in Identifiers \cup Numbers -> Throws(lhs.next)
                 [] OTHER -> ifn_binary(s, lhs)
  IN IF prec > Precedence(op) THEN lhs
     ELSE IF grown.ok THEN infix(s, grown, prec) ELSE grown

parse_expression(toks) == parse_precedence(toks \o <<EOF, EOF, EOF>>, 1, PREC_TEMP)

-----------------------------------------------------------------------------
(* A grammar is a sequence G of operator levels, the loosest first; unary  *)
(* minus, calls and indexing, and primary expressions come after them.     *)
(* The trees of the tokens from i to before j at a level of G.             *)
RECURSIVE Trees(_, _, _, _, _), ArgumentLists(_, _, _, _)

ArgumentLists(G, s, i, j) ==
  IF i = j THEN {<<>>}
  ELSE {<<t>> : t \in Trees(G, s, 1, i, j)} \cup
       UNION {{Append(front, t) : front \in ArgumentLists(G, s, i, m) \ {<<>>},
                                  t \in Trees(G, s, 1, m + 1, j)}
                : m \in {m \in i .. j - 1 : s[m] = ","}}

Trees(G, s, level, i, j) ==
  LET unary == Len(G) + 1
      postfix == Len(G) + 2
  IN
  IF i >= j THEN {}
  ELSE CASE level < unary ->
    Trees(G, s, level + 1, i, j) \cup
    UNION {{Node(s[m], <<l, r>>) : l \in Trees(G, s, level, i, m),
                                   r \in Trees(G, s, level + 1, m + 1, j)}
             : m \in {m \in i .. j - 1 : s[m] \in G[level]}}
  [] level = unary ->
    Trees(G, s, postfix, i, j) \cup
    (IF s[i] # "-" THEN {}
     ELSE IF j = i + 2 /\ s[i + 1] \in Numbers THEN {Leaf("-1")}
     ELSE {Node("neg", <<t>>) : t \in Trees(G, s, unary, i + 1, j)})
  [] level = postfix ->
    Trees(G, s, postfix + 1, i, j) \cup
    UNION {CASE s[m] = "(" /\ s[j - 1] = ")" ->
                  {Node("call", <<g>> \o args) : g \in Trees(G, s, postfix, i, m),
                     args \in ArgumentLists(G, s, m + 1, j - 1)}
             [] s[m] = "[" /\ s[j - 1] = "]" ->
                  {Node("get", <<g, k>>) : g \in Trees(G, s, postfix, i, m),
                     k \in Trees(G, s, 1, m + 1, j - 1)}
             [] OTHER -> {}
             : m \in i .. j - 1}
  [] OTHER ->
    IF j = i + 1 /\ s[i] \in Identifiers \cup Numbers THEN {Leaf(s[i])}
    ELSE IF s[i] = "(" /\ s[j - 1] = ")" THEN Trees(G, s, 1, i + 1, j - 1)
    ELSE {}

Meanings(G, toks) == Trees(G, toks, 1, 1, Len(toks) + 1)

-----------------------------------------------------------------------------
Equalities  == {"==", "!="}
Comparisons == {"<", "<=", ">", ">="}
Sums        == {"+", "-"}
Products    == {"*", "/", "%"}

(* The levels as the rows of rules[] have them.                            *)
TableLevels ==
  [k \in 1 .. PREC_FACTOR - PREC_OR + 1 |->
     {t \in Equalities \cup Comparisons \cup Sums \cup Products :
        Precedence(t) = PREC_OR + k - 1}]

(* The levels as parser.h describes them, which it does twice.  The        *)
(* comments of its enum put equalities below the comparisons.  The comment *)
(* on the grammar orders the operators by non-increasing priority with ==  *)
(* and then != before the comparisons, so it has them bind as tightly, or  *)
(* more tightly, and perhaps == more tightly than !=.                      *)
EnumLevels == <<Equalities, Comparisons, Sums, Products>>
CommentLevels ==
  {<<Equalities \cup Comparisons, Sums, Products>>,
   <<Comparisons, Equalities, Sums, Products>>,
   <<Comparisons, {"!="}, {"=="}, Sums, Products>>}
Readings == {EnumLevels} \cup CommentLevels
===============================================================================

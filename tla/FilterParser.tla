----------------------------- MODULE FilterParser ---------------------------
(* The text of a dataset_filter while it is edited: tokens, the recursive-    *)
(* descent parser and the formatter, against the grammar as it is written     *)
(* down.  A token is its kind and its value; identifiers are in lower case,   *)
(* as the parser compares them.  Positions and wording of syntax errors are   *)
(* left out, and so are the caps on characters and literals, which are counts *)
(* over the whole text.                                                       *)
EXTENDS DatasetFilter, Integers, SequencesExt

CONSTANTS
  Names,       \* identifiers that are neither keywords nor columns
  Samples,     \* predicates from which the texts to parse are built
  Strays,      \* tokens put in the place of others, or in between
  MaxEdits     \* bound: tokens changed in a well-formed text

VARIABLES
  text,        \* the tokens
  edits

textVars == <<text, edits>>

MAX_PAREN_DEPTH == 2

Signs == {"(", ")", ",", "=", "!="}
Keywords == {"and", "or", "not", "in", "true", "false"}
Identifiers == Keywords \cup ScalarColumns \cup ArrayColumns \cup BoolColumns \cup Names
Tokens ==
  [kind : {"string"}, value : Literals] \cup [kind : {"ident"}, value : Identifiers]
    \cup [kind : Signs, value : {""}]

ASSUME TextAssumption ==
  /\ Samples \subseteq Predicates /\ Strays \subseteq Tokens
  /\ MaxEdits \in Nat

Token(kind, value) == [kind |-> kind, value |-> value]
Sign(c) == Token(c, "")
Word(w) == Token("ident", w)
Quoted(v) == Token("string", v)
Eof == Token("eof", "")

\* Where the parser may stand: before a token, or at the end.
Positions(ts) == 1 .. Len(ts) + 1
Peek(ts, i) == IF i <= Len(ts) THEN ts[i] ELSE Eof
AtKeyword(ts, i, w) == Peek(ts, i) = Word(w)

Rejected == [ok |-> FALSE]
Parsed(node, pos) == [ok |-> TRUE, node |-> node, pos |-> pos]

------------------------------------------------------------------------------
\* The parser: what was parsed from position i on, and where it ended.

\* The strings of a list from i on: one, and one more after each comma.
Count(ts, i) ==
  CHOOSE n \in 1 .. Len(ts) + 1 :
    /\ Peek(ts, i + 2 * n - 1) # Sign(",")
    /\ \A k \in 1 .. n - 1 : Peek(ts, i + 2 * k - 1) = Sign(",")

_parse_value_list(ts, i) ==
  LET n == Count(ts, i) IN
  IF Peek(ts, i + 2 * n - 1) = Sign(")") /\ \A k \in 1 .. n : Peek(ts, i + 2 * k - 2).kind = "string"
  THEN Parsed([k \in 1 .. n |-> ts[i + 2 * k - 2].value], i + 2 * n)
  ELSE Rejected

ListPredicate(name, column, ts, i) ==
  LET list == _parse_value_list(ts, i + 1) IN
  IF Peek(ts, i) # Sign("(") \/ ~list.ok THEN Rejected
  ELSE Parsed([node |-> name, column |-> column, values |-> list.node], list.pos)

_parse_bool_predicate(column, ts, i) ==
  IF Peek(ts, i) = Sign("=") /\ Peek(ts, i + 1) \in {Word("true"), Word("false")}
  THEN Parsed([node |-> "BoolEquals", column |-> column, truth |-> ts[i + 1] = Word("true")], i + 2)
  ELSE Rejected

\* string [NOT] IN array_col
ArrayPredicate(ts, i) ==
  LET negated == AtKeyword(ts, i + 1, "not")
      at == IF negated THEN i + 2 ELSE i + 1
      column == Peek(ts, at + 1) IN
  IF AtKeyword(ts, at, "in") /\ column.kind = "ident" /\ column.value \in ArrayColumns
  THEN Parsed([node |-> IF negated THEN "ArrayNotContains" ELSE "ArrayContains",
               column |-> column.value, value |-> ts[i].value], at + 2)
  ELSE Rejected

ScalarPredicate(column, ts, i) ==
  CASE Peek(ts, i).kind \in {"=", "!="} ->
         IF Peek(ts, i + 1).kind = "string"
         THEN Parsed([node |-> IF ts[i].kind = "=" THEN "Equals" ELSE "NotEquals",
                      column |-> column, value |-> ts[i + 1].value], i + 2)
         ELSE Rejected
    [] AtKeyword(ts, i, "in") -> ListPredicate("InList", column, ts, i + 1)
    [] AtKeyword(ts, i, "not") /\ AtKeyword(ts, i + 1, "in") -> ListPredicate("NotInList", column, ts, i + 2)
    [] OTHER -> Rejected

_parse_predicate(ts, i) ==
  LET token == Peek(ts, i) IN
  CASE token.kind = "string" -> ArrayPredicate(ts, i)
    [] token.kind = "ident" /\ token.value \in BoolColumns -> _parse_bool_predicate(token.value, ts, i + 1)
    [] token.kind = "ident" /\ token.value \in ScalarColumns -> ScalarPredicate(token.value, ts, i + 1)
    [] OTHER -> Rejected

\* A bug: one level too many.
TooDeep_late(depth) == depth > MAX_PAREN_DEPTH
TooDeep(depth) == depth + 1 > MAX_PAREN_DEPTH

Operators == {"and", "or"}
AtOperator(ts, i) == Peek(ts, i).kind = "ident" /\ Peek(ts, i).value \in Operators
\* One kind of operator per level.
MayFollow(op, word) == op = "" \/ op = word

\* The terms at a depth, by where they begin; deeper has the expressions one level down.
_parse_term(ts, depth, deeper) ==
  [i \in Positions(ts) |->
     IF Peek(ts, i) # Sign("(") THEN _parse_predicate(ts, i)
     ELSE IF TooDeep(depth) THEN Rejected
     ELSE LET inner == deeper[i + 1] IN
          IF inner.ok /\ Peek(ts, inner.pos) = Sign(")") THEN Parsed(inner.node, inner.pos + 1) ELSE Rejected]

\* The loop of _parse_expr: the operator and the children so far.
Failed == [state |-> "failed", op |-> "", children |-> <<>>, pos |-> 1]
FirstTerm(term) ==
  IF term.ok THEN [state |-> "open", op |-> "", children |-> <<term.node>>, pos |-> term.pos] ELSE Failed
NextTerm(ts, terms, s) ==
  IF s.state # "open" THEN s
  ELSE IF ~AtOperator(ts, s.pos) THEN [s EXCEPT !.state = "closed"]
  ELSE LET token == Peek(ts, s.pos)
           term == terms[s.pos + 1] IN
       IF MayFollow(s.op, token.value) /\ term.ok
       THEN [state |-> "open", op |-> token.value, children |-> Append(s.children, term.node), pos |-> term.pos]
       ELSE Failed

\* Every round consumes a token, so that there are fewer rounds than positions.
Rounds(ts, terms, i) ==
  LET round[n \in Nat] == IF n = 0 THEN FirstTerm(terms[i]) ELSE NextTerm(ts, terms, round[n - 1])
  IN round

Joint(s) ==
  IF s.op = "" THEN s.children[1]
  ELSE [node |-> "BoolNode", op |-> IF s.op = "and" THEN "AND" ELSE "OR", children |-> s.children]

_parse_expr(ts, terms) ==
  [i \in Positions(ts) |->
     LET end == Rounds(ts, terms, i)[Len(ts)] IN
     IF end.state = "closed" THEN Parsed(Joint(end), end.pos) ELSE Rejected]

\* The recursion of _parse_expr and _parse_term, one level deeper than TooDeep allows.
ParsedAt(ts, depth, deeper) == _parse_expr(ts, _parse_term(ts, depth, deeper))
Depth3(ts) == ParsedAt(ts, 3, [i \in Positions(ts) |-> Rejected])
Depth2(ts) == ParsedAt(ts, 2, Depth3(ts))
Depth1(ts) == ParsedAt(ts, 1, Depth2(ts))

parse_filter(ts) ==
  IF ts = <<>> THEN Parsed(Empty, 1)
  ELSE LET whole == ParsedAt(ts, 0, Depth1(ts))[1] IN
       IF whole.ok /\ whole.pos = Len(ts) + 1 THEN whole ELSE Rejected

------------------------------------------------------------------------------
\* The formatter, without its layout.

\* The strings of a list, with commas between them.
List(values) ==
  [k \in 1 .. 2 * Len(values) - 1 |-> IF k % 2 = 1 THEN Quoted(values[(k + 1) \div 2]) ELSE Sign(",")]

_format_predicate(n) ==
  CASE n.node = "Equals" -> <<Word(n.column), Sign("="), Quoted(n.value)>>
    [] n.node = "NotEquals" -> <<Word(n.column), Sign("!="), Quoted(n.value)>>
    [] n.node = "InList" -> <<Word(n.column), Word("in"), Sign("(")>> \o List(n.values) \o <<Sign(")")>>
    [] n.node = "NotInList" ->
         <<Word(n.column), Word("not"), Word("in"), Sign("(")>> \o List(n.values) \o <<Sign(")")>>
    [] n.node = "ArrayContains" -> <<Quoted(n.value), Word("in"), Word(n.column)>>
    [] n.node = "ArrayNotContains" -> <<Quoted(n.value), Word("not"), Word("in"), Word(n.column)>>
    [] n.node = "BoolEquals" -> <<Word(n.column), Sign("="), Word(IF n.truth THEN "true" ELSE "false")>>

\* The operands of a node, their texts given, with its operator between them.
Chain(n, operands) ==
  LET operator == Word(IF n.op = "AND" THEN "and" ELSE "or") IN
  FlattenSeq([k \in DOMAIN operands |-> IF k = 1 THEN operands[k] ELSE <<operator>> \o operands[k]])

\* A bug: an operand is not put into parentheses.
_format_operand_bare(n, form) == form
_format_operand(n, form) == IF n.node = "BoolNode" THEN <<Sign("(")>> \o form \o <<Sign(")")>> ELSE form

Formatted1(n) ==
  IF n.node # "BoolNode" THEN _format_predicate(n)
  ELSE Chain(n, [k \in DOMAIN n.children |-> _format_predicate(n.children[k])])
Formatted2(n) ==
  IF n.node # "BoolNode" THEN _format_predicate(n)
  ELSE Chain(n, [k \in DOMAIN n.children |-> _format_operand(n.children[k], Formatted1(n.children[k]))])
_format_node(n) ==
  IF n.node # "BoolNode" THEN _format_predicate(n)
  ELSE Chain(n, [k \in DOMAIN n.children |-> _format_operand(n.children[k], Formatted2(n.children[k]))])

format_filter(f) == IF f = Empty THEN <<>> ELSE _format_node(f)

------------------------------------------------------------------------------
\* The grammar as it is written down, over the spans i .. j of a text: a span is a predicate
\* by its shape, and an expression if it can be cut at one kind of operator into terms.

WordAt(t, i, words) == i \in DOMAIN t /\ t[i].kind = "ident" /\ t[i].value \in words
KindAt(t, i, kind) == i \in DOMAIN t /\ t[i].kind = kind

\* '(' string {',' string} ')'
IsValueList(t, i, j) ==
  /\ j >= i + 2 /\ (j - i) % 2 = 0
  /\ \A k \in i .. j : KindAt(t, k, IF k = i THEN "(" ELSE IF k = j THEN ")"
                                    ELSE IF (k - i) % 2 = 1 THEN "string" ELSE ",")

IsPredicate(t, i, j) ==
  \/ /\ j = i + 2 /\ WordAt(t, i, ScalarColumns)
     /\ KindAt(t, i + 1, "=") \/ KindAt(t, i + 1, "!=")
     /\ KindAt(t, j, "string")
  \/ WordAt(t, i, ScalarColumns) /\ WordAt(t, i + 1, {"in"}) /\ IsValueList(t, i + 2, j)
  \/ WordAt(t, i, ScalarColumns) /\ WordAt(t, i + 1, {"not"}) /\ WordAt(t, i + 2, {"in"}) /\ IsValueList(t, i + 3, j)
  \/ j = i + 2 /\ KindAt(t, i, "string") /\ WordAt(t, i + 1, {"in"}) /\ WordAt(t, j, ArrayColumns)
  \/ /\ j = i + 3 /\ KindAt(t, i, "string") /\ WordAt(t, i + 1, {"not"}) /\ WordAt(t, i + 2, {"in"})
     /\ WordAt(t, j, ArrayColumns)
  \/ j = i + 2 /\ WordAt(t, i, BoolColumns) /\ KindAt(t, i + 1, "=") /\ WordAt(t, j, {"true", "false"})

\* The spans at a depth that are a term, given those that are an expression one level down.
TermSpans(t, depth, deeper) ==
  [i \in Positions(t) |-> [j \in 0 .. Len(t) |->
     \/ IsPredicate(t, i, j)
     \/ depth < MAX_PAREN_DEPTH /\ KindAt(t, i, "(") /\ KindAt(t, j, ")") /\ i < j /\ deeper[i + 1][j - 1]]]

\* Cuts that leave a term between each two next to each other, and at the ends.
Cuts(terms, cuts, i, j) ==
  \A a \in cuts \cup {i - 1}, b \in cuts \cup {j + 1} :
    a < b /\ (\A c \in cuts : c <= a \/ b <= c) => terms[a + 1][b - 1]

ExprSpans(t, terms) ==
  [i \in Positions(t) |-> [j \in 0 .. Len(t) |->
     \E w \in Operators : \E cuts \in SUBSET {k \in i .. j : t[k] = Word(w)} : Cuts(terms, cuts, i, j)]]

DerivedAt(t, depth, deeper) == ExprSpans(t, TermSpans(t, depth, deeper))
Derived2(t) == DerivedAt(t, 2, [i \in Positions(t) |-> [j \in 0 .. Len(t) |-> FALSE]])
Derived1(t) == DerivedAt(t, 1, Derived2(t))
InGrammar(t) == t = <<>> \/ DerivedAt(t, 0, Derived1(t))[1][Len(t)]

\* Sentences of three levels, and the texts one token away from them.
Group(texts) == {<<Sign("(")>> \o t \o <<Sign(")")>> : t \in texts}
Atoms == {_format_predicate(n) : n \in Samples}
Chained(terms) == terms \cup {a \o <<Word(w)>> \o t : a \in Atoms, t \in terms, w \in Operators}
Inner == Chained(Atoms)
Outer == Chained(Atoms \cup Group(Inner))
Sentences == Outer \cup Group(Outer) \cup Group(Group(Inner)) \cup Chained(Group(Group(Inner))) \cup Chained(Inner)

TextInit ==
  /\ text \in {<<>>} \cup Sentences \cup Group(Sentences)
  /\ edits = 0

Edit(t) == /\ edits < MaxEdits
           /\ text' = t
           /\ edits' = edits + 1

Drop == \E i \in DOMAIN text : Edit(RemoveAt(text, i))
Swap == \E i \in DOMAIN text, s \in Strays : Edit(ReplaceAt(text, i, s))
Add == \E i \in 1 .. Len(text) + 1, s \in Strays : Edit(InsertAt(text, i, s))

TextNext == Drop \/ Swap \/ Add
TextSpec == TextInit /\ [][TextNext]_textVars

------------------------------------------------------------------------------
\* A text is parsed if and only if the grammar in the module's description derives it, for
\* sentences, for texts a few tokens away from one, and for parentheses too many, and what
\* was parsed has three levels at most (parse_filter).
ParserFollowsGrammar ==
  LET whole == parse_filter(text) IN
  /\ whole.ok <=> InGrammar(text)
  /\ whole.ok => whole.node \in FilterAst

\* "Return *text* re-rendered in canonical indentation" (format_filter): the canonical form of a
\* text that was accepted is accepted too, and parsed to the same filter.
FormatKeepsMeaning ==
  LET whole == parse_filter(text) IN
  whole.ok => parse_filter(format_filter(whole.node)) = Parsed(whole.node, Len(format_filter(whole.node)) + 1)

\* "Negation is a negated predicate, not a complement of the scope" (dataset_filter.py): for
\* every text that is accepted, the SQL is true of exactly the rows that the description
\* selects, NULL columns under negation, AND and OR included (_compile).
ScopeIsDefinite ==
  LET whole == parse_filter(text) IN
  whole.ok => Definite(whole.node)

==============================================================================

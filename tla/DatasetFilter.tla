---------------------------- MODULE DatasetFilter ---------------------------
(* The dataset_filter of ontology generation, metadata generation and        *)
(* metrics: the parsed filter, and the SQL that it compiles to over a row of  *)
(* dataset_registry, in the three-valued logic of SQL.  Parentheses nest two  *)
(* deep at most (MAX_PAREN_DEPTH), so that a filter has three levels of AND   *)
(* and OR at most, which are written out.  FilterParser has the grammar.      *)
EXTENDS Sequences

CONSTANTS
  Literals,   \* string literals and column values
  Null

ScalarColumns == {"dataset_urn", "origin", "platform_urn"}
ArrayColumns == {"tag_urns", "glossary_term_urns"}
BoolColumns == {"is_primary"}

\* origin and platform_urn may be NULL, the arrays and is_primary may not.
RegistryRow ==
  [dataset_urn : Literals, origin : Literals \cup {Null}, platform_urn : Literals \cup {Null},
   tag_urns : SUBSET Literals, glossary_term_urns : SUBSET Literals, is_primary : BOOLEAN]

Predicates ==
  [node : {"Equals", "NotEquals"}, column : ScalarColumns, value : Literals]
    \cup [node : {"InList", "NotInList"}, column : ScalarColumns, values : Seq(Literals) \ {<<>>}]
    \cup [node : {"ArrayContains", "ArrayNotContains"}, column : ArrayColumns, value : Literals]
    \cup [node : {"BoolEquals"}, column : BoolColumns, truth : BOOLEAN]

BoolNode(operands) ==
  [node : {"BoolNode"}, op : {"AND", "OR"}, children : Seq(operands)]

Level1 == Predicates \cup BoolNode(Predicates)
Level2 == Level1 \cup BoolNode(Level1)
Level3 == Level2 \cup BoolNode(Level2)

\* root is None: the empty filter.
Empty == [node |-> "Empty"]
FilterAst == Level3 \cup {Empty}

\* NULL is no value of a column.
ASSUME FilterAssumption ==
  /\ Null \notin Literals
  /\ \A x \in SUBSET Literals : x # Null
  /\ \A x \in BOOLEAN : x # Null

Operands(n) == {n.children[i] : i \in DOMAIN n.children}
Values(n) == {n.values[i] : i \in DOMAIN n.values}

------------------------------------------------------------------------------
\* SQL.

\* A comparison with a column: unknown when the column is NULL.
Compared(x, result) == IF x = Null THEN "unknown" ELSE IF result THEN "true" ELSE "false"
Not(v) == CASE v = "true" -> "false" [] v = "false" -> "true" [] OTHER -> "unknown"
And(vs) == IF "false" \in vs THEN "false" ELSE IF "unknown" \in vs THEN "unknown" ELSE "true"
Or(vs) == IF "true" \in vs THEN "true" ELSE IF "unknown" \in vs THEN "unknown" ELSE "false"
Joined(op, vs) == IF op = "AND" THEN And(vs) ELSE Or(vs)

\* A bug: != as IS DISTINCT FROM.
CompiledPredicate_distinct(n, a) ==
  LET x == a[n.column] IN
  CASE n.node = "Equals" -> Compared(x, x = n.value)
    [] n.node = "NotEquals" -> IF x # n.value THEN "true" ELSE "false"
    [] n.node = "InList" -> Compared(x, x \in Values(n))
    [] n.node = "NotInList" -> Not(Compared(x, x \in Values(n)))
    [] n.node = "BoolEquals" -> Compared(x, x = n.truth)
    [] n.node = "ArrayContains" -> Compared(x, n.value \in x)
    [] n.node = "ArrayNotContains" -> Not(Compared(x, n.value \in x))

CompiledPredicate(n, a) ==
  LET x == a[n.column] IN
  CASE n.node = "Equals" -> Compared(x, x = n.value)
    [] n.node = "NotEquals" -> Compared(x, x # n.value)
    [] n.node = "InList" -> Compared(x, x \in Values(n))
    [] n.node = "NotInList" -> Not(Compared(x, x \in Values(n)))
    [] n.node = "BoolEquals" -> Compared(x, x = n.truth)
    [] n.node = "ArrayContains" -> Compared(x, n.value \in x)
    [] n.node = "ArrayNotContains" -> Not(Compared(x, n.value \in x))

Compiled1(n, a) ==
  IF n.node = "BoolNode" THEN Joined(n.op, {CompiledPredicate(c, a) : c \in Operands(n)})
  ELSE CompiledPredicate(n, a)

Compiled2(n, a) ==
  IF n.node = "BoolNode" THEN Joined(n.op, {Compiled1(c, a) : c \in Operands(n)})
  ELSE CompiledPredicate(n, a)

_compile(n, a) ==
  IF n.node = "BoolNode" THEN Joined(n.op, {Compiled2(c, a) : c \in Operands(n)})
  ELSE CompiledPredicate(n, a)

filter_clause(f, a) == IF f = Empty THEN "true" ELSE _compile(f, a)

------------------------------------------------------------------------------
\* The reading of the grammar's description: a row is selected or it is not, and a NULL
\* column satisfies neither a predicate nor its negation.

Holds(n, a) ==
  LET x == a[n.column] IN
  CASE n.node = "Equals" -> x = n.value
    [] n.node = "NotEquals" -> x \notin {n.value, Null}
    [] n.node = "InList" -> x \in Values(n)
    [] n.node = "NotInList" -> x \notin Values(n) \cup {Null}
    [] n.node = "BoolEquals" -> x = n.truth
    [] n.node = "ArrayContains" -> n.value \in x
    [] n.node = "ArrayNotContains" -> n.value \notin x

Selects1(n, a) ==
  IF n.node = "BoolNode"
  THEN IF n.op = "AND" THEN \A c \in Operands(n) : Holds(c, a) ELSE \E c \in Operands(n) : Holds(c, a)
  ELSE Holds(n, a)

Selects2(n, a) ==
  IF n.node = "BoolNode"
  THEN IF n.op = "AND" THEN \A c \in Operands(n) : Selects1(c, a) ELSE \E c \in Operands(n) : Selects1(c, a)
  ELSE Holds(n, a)

Selects(f, a) ==
  IF f = Empty THEN TRUE
  ELSE IF f.node = "BoolNode"
  THEN IF f.op = "AND" THEN \A c \in Operands(f) : Selects2(c, a) ELSE \E c \in Operands(f) : Selects2(c, a)
  ELSE Holds(f, a)

\* The compiled clause is true exactly where the description selects the row, however AND,
\* OR and NULL columns combine below it.
Definite(f) == \A a \in RegistryRow : filter_clause(f, a) = "true" <=> Selects(f, a)

==============================================================================

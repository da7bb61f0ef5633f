--------------------------- MODULE QueryLanguage ---------------------------
(***************************************************************************)
(* From the query of a list request to the filter expression the backends  *)
(* build their clauses from (src/crud/pagination/filter).  A request holds *)
(* a ready expression, a JSON query or an AIP filter string, taken in this *)
(* order.  Both converters are package-level singletons, and the one for   *)
(* AIP filters keeps the error of a conversion in a field, so conversions  *)
(* of concurrent requests meet there.  Parsing of the text is left to the  *)
(* libraries; the model starts from the parsed trees.                      *)
(*                                                                         *)
(* The second part is the pages of a list.                                 *)
(* Definitions named Mutant... are faulty variants of the one after them.  *)
(***************************************************************************)
EXTENDS Integers, Sequences, FiniteSets, SequencesExt

CONSTANTS
  Main,    \* the caller whose request ranges over all shapes
  Others   \* callers with a one-condition AIP filter

VARIABLES
  request,   \* each caller's request
  at,        \* where its conversion is
  fscErr,    \* FilterStringConverter.err of the shared converter
  expr,      \* the expression being built
  answer     \* what Convert returned: "error", "ok" or "none"

queryVars == <<request, at, fscErr, expr, answer>>
QueryCallers == {Main} \cup Others

Expr(type) == [type |-> type, conds |-> <<>>, groups |-> <<>>]
Cond(col, op, vals) == [col |-> col, op |-> op, vals |-> vals]
NoExpr == Expr("nil")
IsEmpty(e) == e.conds = <<>> /\ e.groups = <<>>
Unspecified == "UNSPECIFIED"

-----------------------------------------------------------------------------
(* What an expression selects.  A row gives each column 1 or 2, the column *)
(* n also Null.                                                            *)

Null == 0
Columns == {"a", "b", "j.x", "a.year"}
RowsOf == {r \in [Columns \cup {"n"} -> 0..2] : \A c \in Columns : r[c] # Null}

Holds(c, row) ==
  CASE c.op = "EQ" -> row[c.col] \in c.vals
    [] c.op = "NEQ" -> row[c.col] \notin c.vals
    [] c.op = "IN" -> row[c.col] \in c.vals
    [] c.op = "NIN" -> row[c.col] \notin c.vals
    [] c.op = "GTE" -> \A v \in c.vals : row[c.col] >= v
    [] c.op = "LT" -> \A v \in c.vals : row[c.col] < v
    [] c.op = "IS_NULL" -> row[c.col] = Null
    [] c.op = "IS_NOT_NULL" -> row[c.col] # Null

RECURSIVE Selects(_, _)
Selects(e, row) ==
  IF e.type = "OR"
  THEN \/ \E i \in DOMAIN e.conds : Holds(e.conds[i], row)
       \/ \E i \in DOMAIN e.groups : Selects(e.groups[i], row)
  ELSE /\ \A i \in DOMAIN e.conds : Holds(e.conds[i], row)
       /\ \A i \in DOMAIN e.groups : Selects(e.groups[i], row)

-----------------------------------------------------------------------------
(* AIP filters: calls of and, or, not, and leaves that are calls of a      *)
(* comparison.                                                             *)

Leaf(col, op, vals) == [k |-> "leaf", col |-> col, op |-> op, vals |-> vals]
Node(k, args) == [k |-> k, args |-> args]

mapOperator(op) ==
  CASE op = "=" -> "EQ"
    [] op \in {"!=", "not"} -> "NEQ"
    [] op = "<" -> "LT"
    [] op = ">=" -> "GTE"
    [] op = "isnull" -> "IS_NULL"
    [] op = "isnotnull" -> "IS_NOT_NULL"
    [] op = "in" -> "IN"
    [] op = "notin" -> "NIN"
    [] OTHER -> Unspecified

invertOperator(op) ==
  CASE op = "EQ" -> "NEQ"
    [] op = "NEQ" -> "EQ"
    [] op = "IN" -> "NIN"
    [] op = "NIN" -> "IN"
    [] op = "IS_NULL" -> "IS_NOT_NULL"
    [] op = "IS_NOT_NULL" -> "IS_NULL"
    [] OTHER -> "NEQ"

RECURSIVE invertFilterExpr(_)
invertFilterExpr(fe) ==
  [type |-> CASE fe.type = "AND" -> "OR" [] fe.type = "OR" -> "AND" [] OTHER -> fe.type,
   conds |-> [i \in DOMAIN fe.conds |-> [fe.conds[i] EXCEPT !.op = invertOperator(@)]],
   groups |-> [i \in DOMAIN fe.groups |-> invertFilterExpr(fe.groups[i])]]

RECURSIVE walk(_, _)
walk(out, in) ==
  CASE in.k = "leaf" ->
         [out EXCEPT !.conds = Append(@, Cond(in.col, mapOperator(in.op), in.vals))]
    [] in.k \in {"and", "or"} ->
         LET subs == [i \in DOMAIN in.args |-> walk(Expr(Unspecified), in.args[i])]
         IN [type |-> IF in.k = "and" THEN "AND" ELSE "OR",
             conds |-> out.conds \o FlattenSeq([i \in DOMAIN subs |-> subs[i].conds]),
             groups |-> out.groups \o FlattenSeq([i \in DOMAIN subs |-> subs[i].groups])]
    [] in.k = "not" ->
         LET sub == invertFilterExpr(walk(Expr("AND"), in.args[1]))
         IN IF IsEmpty(sub) THEN out
            ELSE IF IsEmpty(out) THEN sub
            ELSE [out EXCEPT !.groups = Append(@, sub)]

(* walk's fsc.err: an operator mapOperator does not know was met           *)
RECURSIVE Unknown(_)
Unknown(in) ==
  IF in.k = "leaf" THEN mapOperator(in.op) = Unspecified
  ELSE \E i \in DOMAIN in.args : Unknown(in.args[i])

-----------------------------------------------------------------------------
(* JSON queries: objects of conditions (key segments and a value), $and    *)
(* and $or objects, arrays, and scalars.                                   *)

operatorMap ==
  {<<"EQ", {"eq", "equal", "equals"}>>,
   <<"NEQ", {"ne", "neq", "not", "not_equal", "not_equals", "not-equal"}>>,
   <<"GT", {"gt", "greater_than", "greater-than"}>>,
   <<"GTE", {"gte", "greater_than_or_equal", "greater_equals", "greater_or_equal", "greater-or-equal"}>>,
   <<"LT", {"lt", "less_than", "less-than"}>>,
   <<"LTE", {"lte", "less_than_or_equal", "less_equals", "less_or_equal", "less-or-equal"}>>,
   <<"LIKE", {"like"}>>, <<"ILIKE", {"ilike", "i_like"}>>, <<"NOT_LIKE", {"not_like", "notlike"}>>,
   <<"IN", {"in"}>>, <<"NIN", {"nin", "not_in", "notin"}>>,
   <<"IS_NULL", {"is_null", "isnull"}>>,
   <<"IS_NOT_NULL", {"is_not_null", "isnot_null", "isnotnull", "not_isnull"}>>,
   <<"BETWEEN", {"between", "range"}>>,
   <<"REGEXP", {"regexp", "regex"}>>, <<"IREGEXP", {"iregexp", "i_regexp", "iregex"}>>,
   <<"CONTAINS", {"contains"}>>, <<"ICONTAINS", {"icontains", "i_contains"}>>,
   <<"STARTS_WITH", {"starts_with", "startswith"}>>,
   <<"ISTARTS_WITH", {"istarts_with", "i_starts_with", "istartswith"}>>,
   <<"ENDS_WITH", {"ends_with", "endswith"}>>,
   <<"IENDS_WITH", {"iends_with", "i_ends_with", "iendswith"}>>,
   <<"JSON_CONTAINS", {"json_contains"}>>, <<"ARRAY_CONTAINS", {"array_contains"}>>,
   <<"EXISTS", {"exists"}>>, <<"SEARCH", {"search"}>>,
   <<"EXACT", {"exact"}>>, <<"IEXACT", {"iexact", "i_exact"}>>}

ConverterStringToOperator(name) ==
  IF \E o \in operatorMap : name \in o[2]
  THEN (CHOOSE o \in operatorMap : name \in o[2])[1]
  ELSE Unspecified

datePartMap ==
  {"date", "year", "yr", "iso_year", "iso-year", "quarter", "month", "week", "week_day",
   "week-day", "weekday", "iso_week_day", "iso-week-day", "day", "time", "hour", "minute",
   "min", "second", "sec", "microsecond"}

Kept(node) == [node |-> node, err |-> FALSE]
Failed == [node |-> NoExpr, err |-> TRUE]
Adds(node, c) == Kept([node EXCEPT !.conds = Append(@, c)])

DatePartColumn(field, part) == IF part \in datePartMap THEN field \o "." \o part ELSE field

MutantMakeFieldFilter(node, keys, vals) ==
  IF keys[1] = "" \/ Len(keys) > 3 \/ (Len(keys) > 1 /\ \E i \in 2..Len(keys) : keys[i] = "")
  THEN Kept(node)
  ELSE LET op == IF Len(keys) = 1 THEN "EQ" ELSE ConverterStringToOperator(keys[Len(keys)])
       IN IF op = Unspecified THEN Kept(node)
          ELSE Adds(node, Cond(IF Len(keys) = 3 THEN DatePartColumn(keys[1], keys[2]) ELSE keys[1],
                               op, vals))

MakeFieldFilter(node, keys, vals) ==
  IF keys[1] = "" THEN Kept(node)
  ELSE CASE Len(keys) = 1 -> Adds(node, Cond(keys[1], "EQ", vals))
         [] Len(keys) = 2 ->
              IF keys[2] = "" THEN Kept(node)
              ELSE LET op == ConverterStringToOperator(keys[2])
                   IN IF op = Unspecified THEN Failed ELSE Adds(node, Cond(keys[1], op, vals))
         [] Len(keys) = 3 ->
              IF keys[2] = "" \/ keys[3] = "" THEN Kept(node)
              ELSE LET op == ConverterStringToOperator(keys[3])
                   IN IF op = Unspecified THEN Failed
                      ELSE Adds(node, Cond(DatePartColumn(keys[1], keys[2]), op, vals))
         [] OTHER -> Failed

parseBaseCondition(node, entries) ==
  FoldLeft(LAMBDA done, e : IF done.err THEN done ELSE MakeFieldFilter(done.node, e.keys, e.vals),
          Kept(node), entries)

RECURSIVE parseRawQuery(_, _)
parseRawQuery(node, raw) ==
  LET Group(type, items) ==
        LET parsed == FoldLeft(LAMBDA done, item :
                          IF done.err THEN done ELSE parseRawQuery(done.node, item),
                          Kept(Expr(type)), items)
        IN IF parsed.err THEN Failed
           ELSE Kept([node EXCEPT !.groups = Append(@, parsed.node)])
      Spread(items) ==          \* an array in an array is read in place
        FlattenSeq([i \in DOMAIN items |->
                     IF items[i].k = "array" THEN items[i].items ELSE <<items[i]>>])
  IN CASE raw.k = "array" -> Group("AND", Spread(raw.items))
       [] raw.k = "$and" -> Group("AND", raw.items)
       [] raw.k = "$or" -> Group("OR", raw.items)
       [] raw.k = "object" -> parseBaseCondition(node, raw.entries)
       [] OTHER -> Failed       \* $and beside $or, a list that is none, a scalar

ParseQuery(raw) == parseRawQuery(Expr("AND"), raw)

-----------------------------------------------------------------------------
(* The requests.                                                           *)

EqA == Leaf("a", "=", {1})
BadLeaf == Leaf("b", "~~", {1})
Leaves == {EqA, Leaf("b", "!=", {2}), Leaf("b", "<", {2}), Leaf("n", "isnull", {}), BadLeaf}
Nots(set) == {Node("not", <<x>>) : x \in set}
Both(set1, set2) == {Node(k, <<x, y>>) : k \in {"and", "or"}, x \in set1, y \in set2}
Shallow == Leaves \cup Nots(Leaves) \cup Both({EqA, BadLeaf}, Leaves)
Filters == Shallow \cup Nots(Shallow) \cup Nots(Nots(Shallow)) \cup Both(Shallow, Shallow)

(* An entry of an object with the condition its text describes.            *)
Entry(keys, col, op, vals) == [keys |-> keys, vals |-> vals, means |-> Cond(col, op, vals)]
Ignored == ""
EqB(v) == Entry(<<"b">>, "b", "EQ", {v})
Entries ==
  {Entry(<<"a">>, "a", "EQ", {1}), Entry(<<"b", "gte">>, "b", "GTE", {2}),
   Entry(<<"j.x", "not_in">>, "j.x", "NIN", {1, 2}),
   Entry(<<"a", "year", "lt">>, "a.year", "LT", {2}), Entry(<<"a", "bogus">>, "a", Ignored, {1}),
   Entry(<<"a", "year", "bogus">>, "a", Ignored, {1}),
   Entry(<<"a", "year", "eq", "x">>, "a", Ignored, {1}), Entry(<<"a", "">>, "a", Ignored, {1})}
Objects == {[k |-> "object", entries |-> es] :
              es \in {<<e>> : e \in Entries} \cup {<<e, f>> : e \in {EqB(1)}, f \in Entries}}
Lists(set1, set2) == {[k |-> kind, items |-> <<x, y>>] :
                        kind \in {"array", "$and", "$or"}, x \in set1, y \in set2}
Inner == Objects \cup Lists(Objects, {[k |-> "object", entries |-> <<EqB(2)>>]})
Queries == Inner \cup Lists(Inner, Objects) \cup {[k |-> "scalar"], [k |-> "$and and $or"]}

From(kind, tree) == [kind |-> kind, tree |-> tree]

QueryInit ==
  /\ \E mine \in {From("filter", t) : t \in Filters} \cup {From("query", t) : t \in Queries}
                  \cup {From("expr", [k |-> "ready"]), From("none", [k |-> "none"])},
        other \in [Others -> {From("filter", EqA), From("filter", BadLeaf)}] :
       request = [c \in QueryCallers |-> IF c = Main THEN mine ELSE other[c]]
  /\ at = [c \in QueryCallers |-> "start"]
  /\ fscErr = FALSE
  /\ expr = [c \in QueryCallers |-> NoExpr]
  /\ answer = [c \in QueryCallers |-> "none"]

Returns(c, what) == answer' = [answer EXCEPT ![c] = what] /\ at' = [at EXCEPT ![c] = "done"]

(* A ready expression is passed on, a JSON query is converted without      *)
(* shared state, a request without any of the three has no filter.         *)
convertFilterRequest(c) ==
  /\ at[c] = "start"
  /\ CASE request[c].kind = "query" ->
            LET parsed == ParseQuery(request[c].tree)
            IN /\ expr' = [expr EXCEPT ![c] = parsed.node]
               /\ Returns(c, IF parsed.err THEN "error" ELSE "ok")
       [] request[c].kind \in {"expr", "none"} -> Returns(c, "ok") /\ UNCHANGED expr
       [] OTHER -> FALSE
  /\ UNCHANGED <<request, fscErr>>

(* FilterStringConverter.Convert: reset the error, walk, look at the error.*)
ConvertResets(c) ==
  /\ at[c] = "start"
  /\ request[c].kind = "filter"
  /\ fscErr' = FALSE
  /\ at' = [at EXCEPT ![c] = "walk"]
  /\ UNCHANGED <<request, expr, answer>>

ConvertWalks(c) ==
  /\ at[c] = "walk"
  /\ expr' = [expr EXCEPT ![c] = walk(Expr("AND"), request[c].tree)]
  /\ fscErr' = (fscErr \/ Unknown(request[c].tree))
  /\ at' = [at EXCEPT ![c] = "check"]
  /\ UNCHANGED <<request, answer>>

ConvertReturns(c) ==
  /\ at[c] = "check"
  /\ Returns(c, IF fscErr THEN "error" ELSE "ok")
  /\ UNCHANGED <<request, fscErr, expr>>

QueryNext ==
  \E c \in QueryCallers :
    \/ convertFilterRequest(c)
    \/ ConvertResets(c)
    \/ ConvertWalks(c)
    \/ ConvertReturns(c)

QuerySpec == QueryInit /\ [][QueryNext]_queryVars

-----------------------------------------------------------------------------
(* What the queries mean, by the package's README.                         *)

RECURSIVE AipMeans(_, _)
AipMeans(in, row) ==
  CASE in.k = "leaf" -> Holds(Cond(in.col, mapOperator(in.op), in.vals), row)
    [] in.k = "and" -> \A i \in DOMAIN in.args : AipMeans(in.args[i], row)
    [] in.k = "or" -> \E i \in DOMAIN in.args : AipMeans(in.args[i], row)
    [] in.k = "not" -> ~AipMeans(in.args[1], row)

RECURSIVE QueryMeans(_, _)
QueryMeans(raw, row) ==
  CASE raw.k = "object" ->
         \A i \in DOMAIN raw.entries :
           LET cond == raw.entries[i].means IN cond.op = Ignored \/ Holds(cond, row)
    [] raw.k = "$or" -> \E i \in DOMAIN raw.items : QueryMeans(raw.items[i], row)
    [] OTHER -> \A i \in DOMAIN raw.items : QueryMeans(raw.items[i], row)

(* A key is refused when its operator is unknown or it has four segments;  *)
(* an empty segment drops the condition.                                   *)
Malformed(e) ==
  \/ Len(e.keys) > 3
  \/ Len(e.keys) > 1 /\ e.keys[Len(e.keys)] \in {"bogus"}

RECURSIVE Refusable(_)
Refusable(raw) ==
  CASE raw.k = "object" -> \E i \in DOMAIN raw.entries : Malformed(raw.entries[i])
    [] raw.k \in {"array", "$and", "$or"} -> \E i \in DOMAIN raw.items : Refusable(raw.items[i])
    [] OTHER -> TRUE

(* The connective an AIP subtree ends up with once walk has flattened it.  *)
RECURSIVE Connective(_)
Connective(in) ==
  CASE in.k = "leaf" -> "leaf"
    [] in.k \in {"and", "or"} -> in.k
    [] in.k = "not" -> LET c == Connective(in.args[1])
                       IN CASE c = "and" -> "or" [] c = "or" -> "and" [] OTHER -> c

(* walk flattens: and inside or (or the reverse) loses the inner           *)
(* connective, and the negation of < has no operator of its own.           *)
RECURSIVE Flattens(_)
Flattens(in) ==
  /\ in.k # "leaf"
  /\ \/ \E i \in DOMAIN in.args : Flattens(in.args[i])
     \/ /\ in.k \in {"and", "or"}
        /\ \E i \in DOMAIN in.args : Connective(in.args[i]) \notin {"leaf", in.k}

RECURSIVE HasOrder(_)
HasOrder(in) ==
  IF in.k = "leaf" THEN in.op = "<" ELSE \E i \in DOMAIN in.args : HasOrder(in.args[i])

RECURSIVE NegatesOrder(_)
NegatesOrder(in) ==
  /\ in.k # "leaf"
  /\ \/ in.k = "not" /\ HasOrder(in)
     \/ \E i \in DOMAIN in.args : NegatesOrder(in.args[i])

(* $or takes the conditions of an object one by one, not as a whole; an    *)
(* object whose only condition was dropped adds nothing to it.             *)
RECURSIVE BreaksUp(_)
BreaksUp(raw) ==
  /\ raw.k \in {"array", "$and", "$or"}
  /\ \E i \in DOMAIN raw.items :
       \/ BreaksUp(raw.items[i])
       \/ /\ raw.k = "$or"
          /\ raw.items[i].k = "object"
          /\ Len(raw.items[i].entries) > 1 \/ "" \in Range(raw.items[i].entries[1].keys)

Undisturbed == \A c \in Others : at[c] = "start"

(* A converted query means what it says.  For every JSON query and, when   *)
(* no other conversion meets it at the shared converter, every AIP filter: *)
(* an unknown operator or an overlong key is refused                       *)
(* (query_string_converter.go:281-283, 394-396), and an accepted query     *)
(* selects exactly the rows its text describes, through nesting, De Morgan *)
(* inversion and date or JSON columns, with these exceptions only: and/or  *)
(* mixed in an AIP filter, whose inner connective walk drops               *)
(* (filter_string_converter.go:190-199), the negation of an order          *)
(* comparison (124-125), an object of several conditions directly under    *)
(* $or (query_string_converter.go:203-211).                                *)
QueriesMeanWhatTheySay ==
  LET tree == request[Main].tree
  IN answer[Main] # "none" =>
       CASE request[Main].kind = "query" ->
              /\ (answer[Main] = "error") = Refusable(tree)
              /\ answer[Main] = "ok" /\ ~BreaksUp(tree) =>
                   \A row \in RowsOf : Selects(expr[Main], row) = QueryMeans(tree, row)
         [] request[Main].kind = "filter" ->
              /\ Undisturbed => (answer[Main] = "error") = Unknown(tree)
              /\ answer[Main] = "ok" /\ ~Unknown(tree) /\ ~Flattens(tree) /\ ~NegatesOrder(tree) =>
                   \A row \in RowsOf : Selects(expr[Main], row) = AipMeans(tree, row)
         [] OTHER -> answer[Main] = "ok" /\ expr[Main] = NoExpr

-----------------------------------------------------------------------------
(***************************************************************************)
(* Second part: the pages of a list (crud/pagination and the pagination    *)
(* package of every backend).  A repository keeps ONE paginator per paging *)
(* mode; every list call writes its request into it (WithPage, WithSize,   *)
(* ...) and reads the clause back out of it, without a lock.  A walker     *)
(* reads a whole table page by page; guests list once in between; the      *)
(* secret that signs page tokens may be rotated.  Each Build function is   *)
(* the sequence of its accesses to the paginator (the token WithToken      *)
(* stores is never read back and is left out).                             *)
(***************************************************************************)
CONSTANTS
  Walker,        \* the caller that walks the whole table
  Guests,        \* callers that list once
  RowCount,      \* rows of the table, with the ids 1..RowCount
  Sizes,         \* page sizes a request may ask for
  MaxLimit,      \* paginator.MaxLimit
  DefaultLimit,  \* DefaultLimit, DefaultPageSize and OpenSearch's page size
  MaxRequests,   \* bound: list calls of the walker
  MaxRotations   \* bound: changes of the token secret

VARIABLES
  backend, mode, order,  \* the repository, the paging mode, the sort order
  pager,                 \* the shared paginator of that mode
  secret,                \* tokenSecret (0: not set)
  caller                 \* the list call each caller is in

paginationVars == <<backend, mode, order, pager, secret, caller>>
Listers == {Walker} \cup Guests
Rows == 1..RowCount
AtLeast(low, n) == IF n < low THEN low ELSE n

-----------------------------------------------------------------------------
(* The paginators.  Page 1-based, offset 0-based; a token paginator has    *)
(* neither.                                                                *)

MutantClampLimit(limit) == IF limit < 1 THEN 1 ELSE limit

clampLimit(limit) ==
  IF limit < 1 THEN 1
  ELSE IF MaxLimit > 0 /\ limit > MaxLimit THEN MaxLimit ELSE limit

NewPagePaginatorWithDefault == [page |-> 1, size |-> DefaultLimit]
NewOffsetPaginatorWithDefault == [offset |-> 0, size |-> DefaultLimit]
NewTokenPaginatorWithDefault == [size |-> DefaultLimit]

WithPage(p, page) == [p EXCEPT !.page = AtLeast(1, page)]
WithOffset(p, offset) == [p EXCEPT !.offset = AtLeast(0, offset)]
WithPageSize(p, size) == [p EXCEPT !.size = clampLimit(AtLeast(1, size))]
WithOffsetLimit(p, size) == [p EXCEPT !.size = clampLimit(AtLeast(1, size))]
WithTokenSize(p, size) == [p EXCEPT !.size = clampLimit(AtLeast(1, size))]

WithSize(p, size) ==
  CASE mode = "page" -> WithPageSize(p, size)
    [] mode = "offset" -> WithOffsetLimit(p, size)
    [] mode = "token" -> WithTokenSize(p, size)

MutantOffset(p) == p.page * p.size

PageOffset(p) == (p.page - 1) * p.size

Offset(p) ==
  CASE mode = "page" -> PageOffset(p)
    [] mode = "offset" -> p.offset
    [] mode = "token" -> 0

(* The paginator a client keeps of its own walk, with the total it was told *)
NewPagePaginator(page, size) ==
  [page |-> AtLeast(1, page), size |-> clampLimit(IF size < 1 THEN DefaultLimit ELSE size)]
NewOffsetPaginator(offset, size) ==
  [offset |-> AtLeast(0, offset), size |-> clampLimit(IF size < 1 THEN DefaultLimit ELSE size)]

PageTotalPages(p, total) == AtLeast(1, (total + p.size - 1) \div p.size)
PageHasNext(p, total) == p.page < PageTotalPages(p, total)
OffsetHasNext(p, total) == p.offset + p.size < total

-----------------------------------------------------------------------------
(* Page tokens: the id after which to go on and the key that signed it (0: *)
(* an old token without a signature).  A broken token is one that does not *)
(* decode or is longer than maxTokenPayloadLen.                            *)

NoToken == [id |-> 0, key |-> 0, kind |-> "none"]
Broken == [id |-> 0, key |-> 0, kind |-> "broken"]
Refused == [id |-> 0, ok |-> FALSE]

EncodeAndSign(lastID, key) == [id |-> lastID, key |-> key, kind |-> "cursor"]

IsSignedToken(token) == token.key # 0

decodeCursor(token) ==
  IF token.kind = "broken" THEN Refused ELSE [id |-> token.id, ok |-> TRUE]

VerifyAndDecode(token, key) ==
  IF token = NoToken THEN Refused
  ELSE IF IsSignedToken(token)
       THEN IF key = 0 \/ token.key # key THEN Refused ELSE decodeCursor(token)
       ELSE IF key # 0 THEN Refused ELSE decodeCursor(token)

-----------------------------------------------------------------------------
(* The Build functions: what each does to the shared paginator, in order.  *)
(* "Limit" and "Offset" copy a value out of it, "Decode" verifies the      *)
(* token, "Query" runs the clause.  EntGo and GORM read the paginator in   *)
(* the closure the repository applies later, the others at once.           *)

ClickHouseOffset == <<"WithOffset", "WithSize", "Limit", "Offset", "Query">>
ClickHousePage == <<"WithPage", "WithSize", "Limit", "Offset", "Query">>
ClickHouseToken == <<"WithSize", "Limit", "Decode", "Query">>
DorisOffset == <<"WithOffset", "WithSize", "Limit", "Offset", "Query">>
DorisPage == <<"WithPage", "WithSize", "Limit", "Offset", "Query">>
DorisToken == <<"WithSize", "Limit", "Decode", "Query">>
MongoOffset == <<"WithOffset", "WithSize", "Limit", "Offset", "Query">>
MongoPage == <<"WithPage", "WithSize", "Limit", "Offset", "Query">>
MongoToken == <<"WithSize", "Limit", "Decode", "Query">>
EntgoOffset == <<"WithOffset", "WithSize", "Offset", "Limit", "Query">>
EntgoPage == <<"WithPage", "WithSize", "Offset", "Limit", "Query">>
EntgoToken == <<"WithSize", "Decode", "Limit", "Query">>
GormOffset == <<"WithOffset", "WithSize", "Offset", "Limit", "Query">>
GormPage == <<"WithPage", "WithSize", "Offset", "Limit", "Query">>
GormToken == <<"WithSize", "Decode", "Limit", "Query">>
OpenSearchOffset == <<"WithOffset", "WithSize", "Limit", "Offset", "Query">>
OpenSearchPage == <<"WithPage", "WithSize", "Limit", "SetPage", "Query">>
OpenSearchToken == <<"WithSize", "Limit", "DecodeInclusive", "Query">>  \* SetRange is >=
InfluxOffset == <<"WithOffset", "WithSize", "Limit", "Offset", "Query">>
InfluxPage == <<"WithPage", "WithSize", "Limit", "Offset", "Query">>
InfluxToken == <<"WithSize", "Limit", "Offset", "Query">>               \* no use of the token

Builders ==
  [clickhouse |-> [page |-> ClickHousePage, offset |-> ClickHouseOffset, token |-> ClickHouseToken],
   doris |-> [page |-> DorisPage, offset |-> DorisOffset, token |-> DorisToken],
   mongodb |-> [page |-> MongoPage, offset |-> MongoOffset, token |-> MongoToken],
   entgo |-> [page |-> EntgoPage, offset |-> EntgoOffset, token |-> EntgoToken],
   gorm |-> [page |-> GormPage, offset |-> GormOffset, token |-> GormToken],
   opensearch |-> [page |-> OpenSearchPage, offset |-> OpenSearchOffset, token |-> OpenSearchToken],
   influxdb |-> [page |-> InfluxPage, offset |-> InfluxOffset, token |-> InfluxToken]]

Program == Builders[backend][mode]

-----------------------------------------------------------------------------
(* The list calls.                                                         *)

FirstAsk(size) == [page |-> 1, offset |-> 0, size |-> size, token |-> NoToken]

PaginationInit ==
  /\ backend \in DOMAIN Builders
  /\ mode \in {"page", "offset", "token"}
  /\ order \in {"asc", "desc"}
  /\ pager = CASE mode = "page" -> NewPagePaginatorWithDefault
               [] mode = "offset" -> NewOffsetPaginatorWithDefault
               [] mode = "token" -> NewTokenPaginatorWithDefault
  /\ secret = 0
  /\ \E first \in IF mode = "token" THEN {NoToken, Broken} ELSE {NoToken},
        size \in [Listers -> Sizes] :
       caller = [c \in Listers |->
         [at |-> 1, requests |-> 0, got |-> <<>>, lim |-> 1, off |-> 0, from |-> 0,
          ask |-> IF c = Walker THEN [FirstAsk(size[c]) EXCEPT !.token = first]
                  ELSE [page |-> 2, offset |-> 1, size |-> size[c], token |-> NoToken],
          last |-> 0, disturbed |-> FALSE, done |-> FALSE]]

(* A write to the shared paginator disturbs every other call that is still *)
(* between its own writes and reads.                                       *)
Writes(c, p) ==
  /\ pager' = p
  /\ caller' = [d \in Listers |->
       IF d = c THEN [caller[d] EXCEPT !.at = @ + 1]
       ELSE [caller[d] EXCEPT !.disturbed = @ \/ (caller[d].at > 1 /\ p # pager)]]

Reads(c, r) ==
  /\ caller' = [caller EXCEPT ![c] = [r EXCEPT !.at = @ + 1]]
  /\ UNCHANGED pager

(* builder.SetPage puts its own default in place of a size below 1.        *)
SetPage(c) ==
  LET r == caller[c]
      size == IF r.ask.size < 1 THEN DefaultLimit ELSE r.lim
      page == IF r.ask.size < 1 THEN AtLeast(1, r.ask.page) ELSE pager.page
  IN [r EXCEPT !.lim = size, !.off = (page - 1) * size]

PagingStep(c) ==
  LET r == caller[c]
      decoded == VerifyAndDecode(r.ask.token, secret)
  IN /\ ~r.done
     /\ CASE Program[r.at] = "WithPage" -> Writes(c, WithPage(pager, r.ask.page))
          [] Program[r.at] = "WithOffset" -> Writes(c, WithOffset(pager, r.ask.offset))
          [] Program[r.at] = "WithSize" -> Writes(c, WithSize(pager, r.ask.size))
          [] Program[r.at] = "Limit" -> Reads(c, [r EXCEPT !.lim = pager.size])
          [] Program[r.at] = "Offset" -> Reads(c, [r EXCEPT !.off = Offset(pager)])
          [] Program[r.at] = "SetPage" -> Reads(c, SetPage(c))
          [] Program[r.at] = "Decode" ->
               Reads(c, [r EXCEPT !.from = IF decoded.ok THEN decoded.id ELSE 0])
          [] Program[r.at] = "DecodeInclusive" ->
               Reads(c, [r EXCEPT !.from = IF decoded.ok THEN decoded.id - 1 ELSE 0])
          [] OTHER -> FALSE
     /\ UNCHANGED <<backend, mode, order, secret>>

(* The database answers the clause.                                        *)
InOrder == [i \in Rows |-> IF order = "asc" THEN i ELSE RowCount + 1 - i]
Answer(r) ==
  LET matching == SelectSeq(InOrder, LAMBDA id : id > r.from)
      upTo == r.off + r.lim
  IN SubSeq(matching, r.off + 1, IF upTo < Len(matching) THEN upTo ELSE Len(matching))

(* What the client asks next: the walk goes on while its paginator, or in  *)
(* token mode a full page, says that there is more.                        *)
GoesOn(r, rows) ==
  CASE mode = "page" -> PageHasNext(NewPagePaginator(r.ask.page, r.ask.size), RowCount)
    [] mode = "offset" -> OffsetHasNext(NewOffsetPaginator(r.ask.offset, r.ask.size), RowCount)
    [] mode = "token" -> Len(rows) > 0 /\ Len(rows) = r.lim

NextAsk(r, rows) ==
  CASE mode = "page" -> [r.ask EXCEPT !.page = @ + 1]
    [] mode = "offset" -> [r.ask EXCEPT !.offset = @ + clampLimit(r.ask.size)]
    [] mode = "token" -> [r.ask EXCEPT !.token = EncodeAndSign(rows[Len(rows)], secret)]

Query(c) ==
  LET r == caller[c]
      rows == Answer(r)
      more == c = Walker /\ GoesOn(r, rows) /\ r.requests + 1 < MaxRequests
      answered == [r EXCEPT !.got = @ \o rows, !.last = r.lim, !.requests = @ + 1]
  IN /\ ~r.done
     /\ Program[r.at] = "Query"
     /\ caller' = [caller EXCEPT ![c] =
          IF more THEN [answered EXCEPT !.at = 1, !.lim = 1, !.off = 0, !.from = 0,
                                        !.ask = NextAsk(r, rows)]
          ELSE [answered EXCEPT !.done = TRUE]]
     /\ UNCHANGED <<backend, mode, order, pager, secret>>

(* SetTokenSecret with another key: tokens handed out before are refused   *)
(* from now on and their holders start again at the first page.            *)
SetTokenSecret ==
  /\ mode = "token"
  /\ secret < MaxRotations
  /\ secret' = secret + 1
  /\ caller' = [caller EXCEPT ![Walker].disturbed = TRUE]
  /\ UNCHANGED <<backend, mode, order, pager>>

PaginationNext ==
  \/ \E c \in Listers : PagingStep(c)
  \/ \E c \in Listers : Query(c)
  \/ SetTokenSecret

PaginationSpec == PaginationInit /\ [][PaginationNext]_paginationVars

-----------------------------------------------------------------------------
(* A walk by token goes on after the id of the last row, so it takes the   *)
(* ascending order; OpenSearch's range includes that id and InfluxDB       *)
(* ignores the token.  A size below 1 is 1 to WithSize but DefaultLimit to *)
(* the New functions (limits.go:24, page_paginator.go:18, 97).             *)
Promised ==
  /\ caller[Walker].ask.size >= 1
  /\ mode = "token" => order = "asc" /\ backend \notin {"opensearch", "influxdb"}

(* Paging adds up.  A client that asks for page after page while its       *)
(* paginator says HasNext (or, by token, while pages are full) receives    *)
(* every row of the table exactly once and in order, whatever size it asks *)
(* for, unless another call of the same repository wrote the shared        *)
(* paginator between this call's writes and reads                          *)
(* (clickhouse/pagination/page_paginator.go:25-41) or the token secret was *)
(* rotated.  And even then no clause leaves 1..MaxLimit, the bound         *)
(* clampLimit promises (limits.go:23-32).                                  *)
PagesAddUp ==
  /\ \A c \in Listers : caller[c].requests > 0 => caller[c].last \in 1..MaxLimit
  /\ LET w == caller[Walker]
     IN w.done /\ ~w.disturbed /\ Promised => w.got = InOrder
=============================================================================

------------------------------- MODULE Filters -------------------------------
(***************************************************************************)
(* The query filters of crud/: a FilterExpr (a tree of conditions joined   *)
(* by AND and OR) is turned into the native query of one of the back ends. *)
(* A table is abstracted to one column.  Its values are the four words     *)
(* below, or NULL; a built filter is the set of values it selects.         *)
(*                                                                         *)
(*   1 = "AB"   2 = "ab"   3 = "abc"   4 = "cab"      (in string order)    *)
(*                                                                         *)
(* Blank is the empty string and Odd a text no row holds: a JSON array or  *)
(* a comma list that is taken literally, or a piece of one.                *)
(* Definitions named Mutant... are faulty variants of the one after them.  *)
(***************************************************************************)
EXTENDS Integers, Sequences, FiniteSets

Null == -1
Blank == 0
Odd == 9
Words == 1..4
Stored == Words \cup {Null}

Lower(w) == IF w = 1 THEN 2 ELSE w
Starts(v, a) == a \in {Blank, v} \/ (v = 3 /\ a = 2)
Ends(v, a) == a \in {Blank, v} \/ (v = 4 /\ a = 2)
Has(v, a) == Starts(v, a) \/ Ends(v, a)

(* What an operator of the pagination API means for a value and an argument *)
Holds(op, v, a) ==
    CASE op \in {"EQ", "EXACT"} -> v = a
      [] op = "NEQ" -> v # a
      [] op = "GT" -> v > a
      [] op = "GTE" -> v >= a
      [] op = "LT" -> v < a
      [] op = "LTE" -> v <= a
      [] op \in {"CONTAINS", "REGEXP", "SEARCH"} -> Has(v, a)
      [] op = "STARTS_WITH" -> Starts(v, a)
      [] op = "ENDS_WITH" -> Ends(v, a)
      [] op = "IEXACT" -> Lower(v) = Lower(a)
      [] op \in {"ICONTAINS", "IREGEXP"} -> Has(Lower(v), Lower(a))
      [] op = "ISTARTS_WITH" -> Starts(Lower(v), Lower(a))
      [] op = "IENDS_WITH" -> Ends(Lower(v), Lower(a))

Orders == {"EQ", "NEQ", "GT", "GTE", "LT", "LTE"}
Texts == {"CONTAINS", "ICONTAINS", "STARTS_WITH", "ISTARTS_WITH", "ENDS_WITH",
          "IENDS_WITH", "REGEXP", "IREGEXP", "SEARCH"}
Exacts == {"EXACT", "IEXACT"}
Lists == {"IN", "NIN", "BETWEEN"}
Nulls == {"IS_NULL", "IS_NOT_NULL"}

Elems(s) == {s[i] : i \in DOMAIN s}
Matching(op, a) == {v \in Words : Holds(op, v, a)}
AnyOf(s) == Words \cap Elems(s)
NoneOf(s) == Words \ Elems(s)
Between(a, b) == IF Odd \in {a, b} THEN {} ELSE {v \in Words : a <= v /\ v <= b}

(***************************************************************************)
(* A condition carries one value, as a word, a JSON array or a comma list, *)
(* or a list of values, or nothing.                                        *)
(***************************************************************************)
Value(c) == CASE c.form = "scalar" -> c.items[1]
              [] c.form \in {"json", "comma"} -> Odd
              [] OTHER -> Blank
Values(c) == IF c.form = "values" THEN c.items ELSE <<>>
SplitN(c) == CASE c.form \in {"scalar", "comma"} -> c.items
               [] c.form = "json" -> IF Len(c.items) = 2 THEN <<Odd, Odd>> ELSE <<Odd>>
               [] OTHER -> <<Blank>>

(* What building a condition or an expression yields *)
Rows(s) == [is |-> "rows", of |-> s]
Skip == [is |-> "skip", of |-> Stored]
Fail == [is |-> "error", of |-> {}]

Kept(rs) == SelectSeq(rs, LAMBDA r : r.is = "rows")
Failing(rs) == \E i \in DOMAIN rs : rs[i].is = "error"
Conj(rs) == IF Kept(rs) = <<>> THEN Skip
            ELSE Rows({v \in Stored : \A i \in DOMAIN Kept(rs) : v \in Kept(rs)[i].of})
Disj(rs) == IF Kept(rs) = <<>> THEN Skip
            ELSE Rows(UNION {Kept(rs)[i].of : i \in DOMAIN Kept(rs)})
Map(f(_), s) == [i \in DOMAIN s |-> f(s[i])]

(* The meaning of an expression: the reference every back end is held to *)
Means(c) ==
    CASE c.op = "IN" -> AnyOf(c.items)
      [] c.op = "NIN" -> NoneOf(c.items)
      [] c.op = "BETWEEN" -> Between(c.items[1], c.items[2])
      [] c.op = "IS_NULL" -> {Null}
      [] c.op = "IS_NOT_NULL" -> Words
      [] OTHER -> Matching(c.op, c.items[1])
RECURSIVE MeansExpr(_)
MeansExpr(e) ==
    LET parts == {Means(e.conds[i]) : i \in DOMAIN e.conds}
                 \cup {MeansExpr(e.groups[i]) : i \in DOMAIN e.groups}
    IN  IF e.type = "OR" THEN UNION parts ELSE {v \in Stored : \A p \in parts : v \in p}

-----------------------------------------------------------------------------
(* What the operator methods of a Processor do with one value *)
Test(c) == Rows(Matching(c.op, Value(c)))
TestUnlessBlank(c) == IF Value(c) = Blank THEN Skip ELSE Test(c)
NullTest(c) == Rows(IF c.op = "IS_NULL" THEN {Null} ELSE Words)

-----------------------------------------------------------------------------
(* crud/gorm/filter *)

GormCompare(c) == TestUnlessBlank(c)
GormLike(c) == TestUnlessBlank(c)
GormSearch(c) == TestUnlessBlank(c)
GormNull(c) == NullTest(c)
GormRegex(c, dialect) == IF dialect = "other" THEN Skip ELSE TestUnlessBlank(c)
GormIn(c) == IF c.form \in {"json", "values"} THEN Rows(AnyOf(c.items)) ELSE Skip
GormNotIn(c) ==
    IF c.form \notin {"json", "values"} THEN Skip
    ELSE Rows(IF c.items = <<>> THEN {} ELSE NoneOf(c.items))  \* NOT IN (NULL)
GormRange(c) ==
    IF c.form \in {"json", "values"} /\ Len(c.items) = 2
    THEN Rows(Between(c.items[1], c.items[2])) ELSE Skip

(* Process: what cannot be built adds no condition *)
GormProcess(c, dialect) ==
    CASE c.field = "bad" -> Fail
      [] c.op \in Orders -> GormCompare(c)
      [] c.op = "IN" -> GormIn(c)
      [] c.op = "NIN" -> GormNotIn(c)
      [] c.op = "BETWEEN" -> GormRange(c)
      [] c.op \in Nulls -> GormNull(c)
      [] c.op \in {"REGEXP", "IREGEXP"} -> GormRegex(c, dialect)
      [] c.op = "SEARCH" -> GormSearch(c)
      [] OTHER -> GormLike(c)

(* BuildExpression: the same expressions, and an error where Process adds none *)
GormBuildExpression(c, dialect) ==
    LET built == GormProcess(c, dialect) IN IF built = Skip THEN Fail ELSE built

GormIsSkippableEmpty(c) == Value(c) = Blank /\ (c.op \in Lists => Values(c) = <<>>)

GormCondExpr(c, dialect) ==
    IF c.field = "bad" THEN Fail
    ELSE LET built == GormBuildExpression(c, dialect)
         IN  IF built.is = "error" /\ GormIsSkippableEmpty(c) THEN Skip ELSE built

RECURSIVE GormBuildExpr(_, _)
GormBuildExpr(e, dialect) ==
    LET parts == Map(LAMBDA c : GormCondExpr(c, dialect), e.conds)
                 \o Map(LAMBDA g : GormBuildExpr(g, dialect), e.groups)
    IN  IF Failing(parts) THEN Fail ELSE IF e.type = "OR" THEN Disj(parts) ELSE Conj(parts)

GormBuildSelectors(e, dialect) ==
    IF e.type = "UNSPECIFIED" THEN Skip ELSE GormBuildExpr(e, dialect)

-----------------------------------------------------------------------------
(* crud/mongodb/filter: a negation selects missing values too *)

(* falseExpr: $expr over a one-element array.  MongoDB takes any array for true. *)
MongoFalseExpr == Rows(Stored)

MongoParseArray(c) == IF c.form \in {"json", "comma"} THEN <<c.items>> ELSE <<>>
MongoCompare(c) ==
    Rows(Matching(c.op, Value(c)) \cup (IF c.op = "NEQ" THEN {Null} ELSE {}))
MongoNull(c) == NullTest(c)

MongoBuildCond(c) ==
    LET arr == MongoParseArray(c)
        list == IF arr # <<>> THEN arr[1] ELSE Values(c)
    IN  CASE c.field = "bad" -> Skip
          [] c.op \in Orders -> MongoCompare(c)
          [] c.op \in Exacts -> Test(c)
          [] c.op \in Texts -> TestUnlessBlank(c)
          [] c.op = "IN" -> IF list # <<>> THEN Rows(AnyOf(list))
                            ELSE IF arr = <<>> THEN Skip ELSE MongoFalseExpr
          [] c.op = "NIN" -> IF list = <<>> THEN Skip ELSE Rows(NoneOf(list) \cup {Null})
          [] c.op = "BETWEEN" ->
                 IF Len(list) = 2 THEN Rows(Between(list[1], list[2]))
                 ELSE IF Value(c) = Blank THEN Skip ELSE Rows(Matching("EQ", Value(c)))
          [] c.op \in Nulls -> MongoNull(c)

RECURSIVE MongoBuildParts(_)
MongoBuildParts(e) ==
    LET parts == Map(MongoBuildCond, e.conds) \o Map(MongoBuildParts, e.groups)
    IN  CASE e.type = "UNSPECIFIED" -> Skip
          [] e.type = "AND" -> Conj(parts)
          [] e.type = "OR" -> Disj(parts)

(* The operator methods of Processor, for a string value *)
MongoList(c) ==
    CASE c.form \in {"json", "comma", "values"} -> c.items
      [] c.form = "scalar" -> <<Value(c)>>
      [] OTHER -> <<>>
MongoIn(c) == IF c.form = "json" /\ c.items = <<>> THEN MongoFalseExpr
              ELSE Rows(AnyOf(MongoList(c)))
MongoNotIn(c) == IF c.form \in {"json", "comma"} /\ c.items = <<>> THEN Skip
                 ELSE Rows(NoneOf(MongoList(c)) \cup {Null})
MongoRange(c) ==
    LET list == MongoList(c)
    IN  CASE Len(list) = 2 -> Rows(Between(list[1], list[2]))
          [] c.form = "values" /\ Len(list) = 1 -> Rows(AnyOf(list))
          [] OTHER -> Rows(Matching("EQ", Value(c)))
MongoText(c) == TestUnlessBlank(c)
MongoExact(c) == TestUnlessBlank(c)
MongoRegex(c) == TestUnlessBlank(c)
MongoSearch(c) == TestUnlessBlank(c)

MongoProcess(c) ==
    CASE c.field = "bad" -> Skip
      [] c.op \in Orders -> MongoCompare(c)
      [] c.op = "IN" -> MongoIn(c)
      [] c.op = "NIN" -> MongoNotIn(c)
      [] c.op = "BETWEEN" -> MongoRange(c)
      [] c.op \in Nulls -> MongoNull(c)
      [] c.op \in Exacts -> MongoExact(c)
      [] c.op \in {"REGEXP", "IREGEXP"} -> MongoRegex(c)
      [] c.op = "SEARCH" -> MongoSearch(c)
      [] OTHER -> MongoText(c)

-----------------------------------------------------------------------------
(* crud/clickhouse/filter, and crud/doris/filter, which is a copy of it *)

ClickHouseBuildCond(c) ==
    LET list == IF Values(c) # <<>> THEN Values(c)
                ELSE IF Value(c) = Blank THEN <<>> ELSE SplitN(c)
    IN
    IF c.field = "bad" THEN Fail
    ELSE CASE c.op \in Orders \cup {"CONTAINS", "STARTS_WITH", "ENDS_WITH"} ->
                  Rows(Matching(c.op, Value(c)))
           [] c.op = "IN" -> Rows(AnyOf(list))
           [] c.op = "BETWEEN" ->
                  IF Len(list) >= 2 THEN Rows(Between(list[1], list[2]))
                  ELSE Rows(Matching("EQ", Value(c)))
           [] c.op = "IS_NULL" -> Rows({Null})
           [] c.op = "IS_NOT_NULL" -> Rows(Words)
           [] OTHER -> IF Value(c) = Blank THEN Skip ELSE Rows(Matching("EQ", Value(c)))

(* buildParts: an error of a group is logged and the group left out *)
RECURSIVE ClickHouseBuildParts(_)
ClickHouseBuildParts(e) ==
    LET conds == Map(ClickHouseBuildCond, e.conds)
        parts == conds \o Map(ClickHouseBuildParts, e.groups)
    IN  CASE e.type = "UNSPECIFIED" -> Skip
          [] Failing(conds) -> Fail
          [] e.type = "AND" -> Conj(parts)
          [] e.type = "OR" -> Disj(parts)

ClickHouseIn(c) ==
    IF c.form \in {"json", "comma", "values"} THEN Rows(AnyOf(c.items)) ELSE Skip

(* NotIn: a comma list is written as IN *)
ClickHouseNotIn(c) ==
    CASE c.form = "json" -> IF c.items = <<>> THEN Skip ELSE Rows(NoneOf(c.items))
      [] c.form = "comma" -> Rows(AnyOf(c.items))
      [] c.form = "values" -> Rows(NoneOf(c.items))
      [] OTHER -> Skip

ClickHouseRange(c) ==
    IF c.form \in {"json", "comma", "values"} /\ Len(c.items) = 2
    THEN Rows(Between(c.items[1], c.items[2]))
    ELSE IF Value(c) = Blank THEN Skip ELSE Rows(Matching("EQ", Value(c)))

ClickHouseCompare(c) == Test(c)
ClickHouseNull(c) == NullTest(c)
ClickHouseLike(c) == Test(c)
ClickHouseRegex(c) == TestUnlessBlank(c)
ClickHouseSearch(c) == TestUnlessBlank(c)

ClickHouseProcess(c) ==
    CASE c.field = "bad" -> Skip
      [] c.op \in Orders -> ClickHouseCompare(c)
      [] c.op = "IN" -> ClickHouseIn(c)
      [] c.op = "NIN" -> ClickHouseNotIn(c)
      [] c.op = "BETWEEN" -> ClickHouseRange(c)
      [] c.op \in Nulls -> ClickHouseNull(c)
      [] c.op \in {"REGEXP", "IREGEXP"} -> ClickHouseRegex(c)
      [] c.op = "SEARCH" -> ClickHouseSearch(c)
      [] OTHER -> ClickHouseLike(c)

DorisBuildCond(c) == ClickHouseBuildCond(c)
DorisBuildParts(e) == ClickHouseBuildParts(e)
DorisCompare(c) == ClickHouseCompare(c)
DorisIn(c) == ClickHouseIn(c)
DorisNotIn(c) == ClickHouseNotIn(c)
DorisRange(c) == ClickHouseRange(c)
DorisNull(c) == ClickHouseNull(c)
DorisLike(c) == ClickHouseLike(c)
DorisRegex(c) == ClickHouseRegex(c)
DorisSearch(c) == ClickHouseSearch(c)
DorisProcess(c) ==
    CASE c.field = "bad" -> Skip
      [] c.op \in Orders -> DorisCompare(c)
      [] c.op = "IN" -> DorisIn(c)
      [] c.op = "NIN" -> DorisNotIn(c)
      [] c.op = "BETWEEN" -> DorisRange(c)
      [] c.op \in Nulls -> DorisNull(c)
      [] c.op \in {"REGEXP", "IREGEXP"} -> DorisRegex(c)
      [] c.op = "SEARCH" -> DorisSearch(c)
      [] OTHER -> DorisLike(c)

-----------------------------------------------------------------------------
(* crud/opensearch/filter: text queries work on whole, lower-cased words *)

OpenSearchPhrase(a) == {v \in Words : Lower(v) = Lower(a)}

OpenSearchBuildCond(c) ==
    LET list == IF Values(c) # <<>> THEN Values(c)
                ELSE IF Value(c) = Blank THEN <<>> ELSE SplitN(c)
    IN
    IF c.field = "bad" \/ (c.op \in Texts /\ Value(c) = Blank) THEN Skip
    ELSE CASE c.op \in Orders -> MongoCompare(c)
           [] c.op \in Exacts \cup {"REGEXP", "IREGEXP"} -> Rows(Matching("EQ", Value(c)))
           [] c.op \in {"CONTAINS", "ICONTAINS", "SEARCH"} -> Rows(OpenSearchPhrase(Value(c)))
           [] c.op \in {"STARTS_WITH", "ISTARTS_WITH"} -> Rows(Matching("STARTS_WITH", Value(c)))
           [] c.op \in {"ENDS_WITH", "IENDS_WITH"} -> Rows(Matching("ENDS_WITH", Value(c)))
           [] c.op = "IN" -> Rows(AnyOf(list))
           [] c.op = "NIN" -> Rows(NoneOf(list) \cup {Null})
           [] c.op = "BETWEEN" ->
                  IF Len(list) = 2 THEN Rows(Between(list[1], list[2])) ELSE Skip
           [] c.op = "IS_NULL" -> Rows({Null})
           [] c.op = "IS_NOT_NULL" -> Rows(Words)

(* Builder.Build: a should clause beside a must clause only ranks the hits *)
OpenSearchBuild(b) ==
    IF b.must # <<>> THEN Conj(b.must) ELSE IF b.should # <<>> THEN Disj(b.should) ELSE Rows(Stored)

(* StructuredFilter.buildCond is the same as Processor.buildCond *)
OpenSearchStructuredCond(c) == OpenSearchBuildCond(c)

(* BuildSelectors: an OR group becomes one should clause whose parts must all hold *)
RECURSIVE OpenSearchBuildParts(_, _)
OpenSearchBuildParts(e, b) ==
    LET conds == Kept(Map(OpenSearchStructuredCond, e.conds))
        apart == Map(LAMBDA g : OpenSearchBuild(
                         OpenSearchBuildParts(g, [must |-> <<>>, should |-> <<>>])), e.groups)
        inner[i \in 0..Len(e.groups)] ==
            IF i = 0 THEN [b EXCEPT !.must = @ \o conds]
            ELSE OpenSearchBuildParts(e.groups[i], inner[i - 1])
    IN  CASE e.type = "UNSPECIFIED" -> b
          [] e.type = "AND" -> inner[Len(e.groups)]
          [] e.type = "OR" -> IF conds \o apart = <<>> THEN b
                              ELSE [b EXCEPT !.should = Append(@, Conj(conds \o apart))]

OpenSearchBuildSelectors(e) ==
    OpenSearchBuild(OpenSearchBuildParts(e, [must |-> <<>>, should |-> <<>>]))

(* Processor.BuildOpenSearchQuery *)
RECURSIVE OpenSearchBuildQuery(_)
OpenSearchBuildQuery(e) ==
    LET parts == Map(OpenSearchBuildCond, e.conds) \o Map(OpenSearchBuildQuery, e.groups)
    IN  CASE e.type = "UNSPECIFIED" -> Skip
          [] e.type = "AND" -> Conj(parts)
          [] e.type = "OR" -> Disj(parts)
-----------------------------------------------------------------------------
(* crud/influxdb/filter: the builder has no OR *)

InfluxParseArray(c) == IF c.form \in {"json", "comma", "values"} THEN c.items ELSE <<>>
InfluxCompare(c) == Test(c)
InfluxExact(c) == Test(c)
InfluxText(c) == TestUnlessBlank(c)
InfluxRegex(c) == TestUnlessBlank(c)
InfluxSearch(c) == TestUnlessBlank(c)
InfluxIn(c) == IF InfluxParseArray(c) = <<>> THEN Skip ELSE Rows(AnyOf(c.items))
InfluxNotIn(c) == IF InfluxParseArray(c) = <<>> THEN Skip ELSE Rows(NoneOf(c.items))
InfluxRange(c) ==
    IF Len(InfluxParseArray(c)) = 2 THEN Rows(Between(c.items[1], c.items[2]))
    ELSE IF Value(c) = Blank THEN Skip ELSE Rows(Matching("EQ", Value(c)))

InfluxProcess(c) ==
    CASE c.field = "bad" \/ c.op \in Nulls -> Skip
      [] c.op \in Orders -> InfluxCompare(c)
      [] c.op = "IN" -> InfluxIn(c)
      [] c.op = "NIN" -> InfluxNotIn(c)
      [] c.op = "BETWEEN" -> InfluxRange(c)
      [] c.op \in Exacts -> InfluxExact(c)
      [] c.op \in {"REGEXP", "IREGEXP"} -> InfluxRegex(c)
      [] c.op = "SEARCH" -> InfluxSearch(c)
      [] OTHER -> InfluxText(c)

RECURSIVE InfluxWalk(_)
InfluxWalk(e) ==
    LET parts == Map(InfluxProcess, e.conds) \o Map(InfluxWalk, e.groups)
    IN  IF e.type = "AND" \/ (e.type = "OR" /\ Len(parts) = 1) THEN Conj(parts) ELSE Skip

-----------------------------------------------------------------------------
(* crud/entgo/filter *)

(* EqualFold with a "%" in its argument: only ILIKE, Postgres's, expands it *)
EntgoFold(op, a, dialect) == IF dialect = "postgres" THEN Matching(op, a) ELSE {}

(* The operator methods of StructuredFilter *)
EntgoCompare(c) == Test(c)
EntgoNull(c) == NullTest(c)
EntgoIn(c) == IF c.form \in {"json", "values"} THEN Rows(AnyOf(c.items)) ELSE Skip
EntgoNotIn(c) == IF c.form \in {"json", "values"} THEN Rows(NoneOf(c.items)) ELSE Skip
MutantEntgoRange(c) ==
    IF c.form \in {"json", "values"} /\ Len(c.items) = 2
    THEN Rows({v \in Words : c.items[1] <= v /\ v < c.items[2]}) ELSE Skip
EntgoRange(c) ==
    IF c.form \in {"json", "values"} /\ Len(c.items) = 2
    THEN Rows(Between(c.items[1], c.items[2])) ELSE Skip
EntgoLike(c, dialect) ==
    IF c.op \in {"ISTARTS_WITH", "IENDS_WITH"}
    THEN Rows(EntgoFold(c.op, Value(c), dialect)) ELSE Test(c)
EntgoRegex(c, dialect) == IF dialect = "other" THEN Skip ELSE Test(c)
EntgoInsensitiveRegex(c, dialect) == IF dialect = "other" THEN Skip ELSE Test(c)
EntgoSearch(c) == TestUnlessBlank(c)

EntgoProcess(c, dialect) ==
    CASE c.field = "bad" -> Skip
      [] c.op \in Orders -> EntgoCompare(c)
      [] c.op = "IN" -> EntgoIn(c)
      [] c.op = "NIN" -> EntgoNotIn(c)
      [] c.op = "BETWEEN" -> EntgoRange(c)
      [] c.op \in Nulls -> EntgoNull(c)
      [] c.op = "REGEXP" -> EntgoRegex(c, dialect)
      [] c.op = "IREGEXP" -> EntgoInsensitiveRegex(c, dialect)
      [] c.op = "SEARCH" -> EntgoSearch(c)
      [] OTHER -> EntgoLike(c, dialect)

(* Processor, filter_processor.go, has the same methods over a field and a value *)
ProcessorCompare(c) == EntgoCompare(c)
ProcessorNull(c) == EntgoNull(c)
ProcessorIn(c) == EntgoIn(c)
ProcessorNotIn(c) == EntgoNotIn(c)
ProcessorRange(c) == EntgoRange(c)
ProcessorLike(c, dialect) == EntgoLike(c, dialect)
ProcessorRegex(c, dialect) == EntgoRegex(c, dialect)
ProcessorSearch(c) == EntgoSearch(c)
ProcessorProcess(c, dialect) ==
    CASE c.field = "bad" -> Skip
      [] c.op \in Orders -> ProcessorCompare(c)
      [] c.op = "IN" -> ProcessorIn(c)
      [] c.op = "NIN" -> ProcessorNotIn(c)
      [] c.op = "BETWEEN" -> ProcessorRange(c)
      [] c.op \in Nulls -> ProcessorNull(c)
      [] c.op \in {"REGEXP", "IREGEXP"} -> ProcessorRegex(c, dialect)
      [] c.op = "SEARCH" -> ProcessorSearch(c)
      [] OTHER -> ProcessorLike(c, dialect)

(* buildFilterSelector: the groups are added to the query one by one, whatever the type *)
RECURSIVE EntgoBuildFilterSelector(_, _)
EntgoBuildFilterSelector(e, dialect) ==
    LET groups == Map(LAMBDA g : EntgoBuildFilterSelector(g, dialect), e.groups)
        conds == Map(LAMBDA c : EntgoProcess(c, dialect), e.conds)
    IN  IF e.type = "UNSPECIFIED" THEN Skip
        ELSE Conj(Append(groups, IF e.type = "OR" THEN Disj(conds) ELSE Conj(conds)))

-----------------------------------------------------------------------------
(* The filters that are built: one condition of every kind, and small trees *)

Ops == Orders \cup Exacts \cup Texts \cup Lists \cup Nulls
Dialects == {"postgres", "mysql", "sqlite", "other"}
Args ==
    {[form |-> "none", items |-> <<>>]}
    \cup {[form |-> "scalar", items |-> <<w>>] : w \in Words}
    \cup {[form |-> "json", items |-> l] : l \in {<<>>, <<2>>, <<2, 3>>}}
    \cup {[form |-> "comma", items |-> <<2, 3>>]}
    \cup {[form |-> "values", items |-> l] : l \in {<<2>>, <<2, 3>>, <<3, 2>>, <<1, 4>>}}
Cond(op, arg) == [field |-> "ok", op |-> op, form |-> arg.form, items |-> arg.items]
AllConds == {[Cond(op, arg) EXCEPT !.field = f] : op \in Ops, arg \in Args, f \in {"ok", "bad"}}

Word(op, w) == Cond(op, [form |-> "scalar", items |-> <<w>>])
TreeConds == {Word("EQ", 2), Word("GTE", 3), Word("NEQ", 4), Word("STARTS_WITH", 2)}
Types == {"AND", "OR", "UNSPECIFIED"}
Expr(t, cs, gs) == [type |-> t, conds |-> cs, groups |-> gs]
UpTo(n, S) == UNION {[1..k -> S] : k \in 0..n}
Leaves == {Expr(t, cs, <<>>) : t \in Types, cs \in UpTo(2, TreeConds)}
Trees ==
    {Expr(t, cs, <<g>>) : t \in Types, cs \in UpTo(1, TreeConds), g \in Leaves}
    \cup {Expr(t, <<>>, <<g, h>>) : t \in Types, g, h \in {l \in Leaves : Len(l.conds) = 2}}
    \cup {Expr(t, <<Word("EQ", 2)>>, <<Expr(u, <<Word("GTE", 3)>>, <<g>>)>>) :
              t, u \in Types, g \in Leaves}
Singles == {Expr(t, <<c>>, <<>>) : t \in {"AND", "OR"}, c \in AllConds}

Structured == {"gorm", "mongodb", "clickhouse", "doris", "opensearch", "influxdb", "entgo"}
Processors == {"gorm.Process", "mongodb.Process", "clickhouse.Process", "doris.Process",
               "influxdb.Process", "entgo.Process"}
AllBackends == Structured \cup Processors \cup {"opensearch.Processor"}

VARIABLES backend, dialect, expr, built
filterVars == <<backend, dialect, expr, built>>

FilterInit ==
    /\ backend \in AllBackends
    /\ dialect \in Dialects
    /\ dialect # "postgres" => backend \in {"gorm", "gorm.Process", "entgo", "entgo.Process"}
    /\ expr \in Singles \/ (expr \in Leaves \cup Trees /\ backend \notin Processors
                              /\ dialect = "postgres")
    /\ built = <<>>

BuildSelectors ==
    /\ built = <<>>
    /\ built' = <<CASE backend = "gorm" -> GormBuildSelectors(expr, dialect)
                    [] backend = "mongodb" -> MongoBuildParts(expr)
                    [] backend = "clickhouse" -> ClickHouseBuildParts(expr)
                    [] backend = "doris" -> DorisBuildParts(expr)
                    [] backend = "opensearch" -> OpenSearchBuildSelectors(expr)
                    [] backend = "opensearch.Processor" -> OpenSearchBuildQuery(expr)
                    [] backend = "influxdb" -> InfluxWalk(expr)
                    [] backend = "entgo" -> EntgoBuildFilterSelector(expr, dialect)
                    [] backend = "gorm.Process" -> GormProcess(expr.conds[1], dialect)
                    [] backend = "mongodb.Process" -> MongoProcess(expr.conds[1])
                    [] backend = "clickhouse.Process" -> ClickHouseProcess(expr.conds[1])
                    [] backend = "doris.Process" -> DorisProcess(expr.conds[1])
                    [] backend = "influxdb.Process" -> InfluxProcess(expr.conds[1])
                    [] backend = "entgo.Process" -> ProcessorProcess(expr.conds[1], dialect)>>
    /\ UNCHANGED <<backend, dialect, expr>>

FilterNext == BuildSelectors
FilterSpec == FilterInit /\ [][FilterNext]_filterVars

-----------------------------------------------------------------------------
Portable(c) ==
    /\ c.field = "ok"
    /\ \/ c.op \in Orders \cup {"STARTS_WITH", "ENDS_WITH", "EXACT"} /\ c.form = "scalar"
       \/ c.op = "IN" /\ c.form = "values"
       \/ c.op = "BETWEEN" /\ c.form = "values" /\ Len(c.items) = 2

RECURSIVE AllOf(_, _)
AllOf(e, types) ==
    /\ e.type \in types
    /\ e.conds \o e.groups # <<>>
    /\ \A i \in DOMAIN e.conds : Portable(e.conds[i])
    /\ \A i \in DOMAIN e.groups : AllOf(e.groups[i], types)

(* The same filter selects the same rows on every back end: a tree of      *)
(* comparisons, IN and BETWEEN joined by AND keeps exactly the values it   *)
(* means, and so does a tree with OR wherever the builder can express it   *)
(* (structured_filter.go of gorm, mongodb, clickhouse, doris and the       *)
(* OpenSearch Processor).                                                  *)
PortableFilter ==
    built # <<>>
    /\ AllOf(expr, IF backend \in {"gorm", "mongodb", "clickhouse", "doris",
                                   "opensearch.Processor"}
                   THEN {"AND", "OR"} ELSE {"AND"})
    => built[1].is = "rows" /\ built[1].of \cap Words = MeansExpr(expr) \cap Words
=============================================================================

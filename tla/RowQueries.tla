----------------------------- MODULE RowQueries -----------------------------
(***************************************************************************)
(* Reading rows by the conditions of a user (tables/table-rows.service.ts: *)
(* applyFilters, query, countFiltered, aggregate, findMissingIds) and the  *)
(* mass delete that takes the same conditions.  The table has one column:  *)
(* the template gives it a type, but a row keeps whatever the source sent. *)
(* A list is read page by page, a total and a page at a time, and rows and *)
(* the template change between the requests.                               *)
(***************************************************************************)
EXTENDS Naturals, Sequences, FiniteSets, FiniteSetsExt

CONSTANTS QRow,       (* rows; the number is the business id                 *)
          CellUsed,   (* the cells of the instance                           *)
          Asks,       (* the filter values asked for                         *)
          PageSize, CountCap, AggCap,
          MaxMoves    (* bound on changes of rows and template, and requests *)

(* Text that "holds" a number, two dates, one in the form of a date that   *)
(* is none (ISO_DATETIME_RE takes February 31), other text, nothing.       *)
Cell == {"1", "2", "jan", "feb", "feb31", "text", "", "null"}
BlankCell == {"", "null"}

ASSUME QueryAssumption ==
  /\ IsFiniteSet(QRow)
  /\ CellUsed \subseteq Cell /\ Asks \subseteq {"1", "jan", "text", "null"}
  /\ PageSize \in Nat \ {0} /\ CountCap \in Nat \ {0} /\ AggCap \in Nat \ {0}
  /\ MaxMoves \in Nat

VARIABLES present,  (* rows in the table                                     *)
          cell,     (* what the column of each row holds                     *)
          column,   (* the template: type of the column, filterable          *)
          view,     (* a list that is being read                             *)
          report,   (* the last report                                       *)
          erasing,  (* a mass delete, between the DELETE and its event       *)
          events,   (* business ids in table_delete_events                   *)
          finder,   (* a search for missing ids                              *)
          failed,   (* the last request failed                               *)
          moves

queryVars == <<present, cell, column, view, report, erasing, events, finder, failed, moves>>

NoFilter == "none"   (* no such key, or an empty value *)
ColumnType == {"number", "date", "string"}
NoView == [at |-> "idle", filter |-> NoFilter, page |-> 0, seen |-> [r \in QRow |-> 0],
           total |-> 0, approximate |-> FALSE, quiet |-> FALSE]
NoReport == [at |-> "none", filter |-> NoFilter, groups |-> {}, truncated |-> FALSE]
NoFinder == [at |-> "idle", ids |-> {}, missing |-> {}, explained |-> {}, calm |-> FALSE]

QueryTypeOK ==
  /\ present \subseteq QRow /\ cell \in [QRow -> Cell]
  /\ column \in [type : ColumnType, filterable : BOOLEAN]
  /\ view \in [at : {"idle", "page", "count", "done"}, filter : Asks \cup {NoFilter}, page : Nat,
               seen : [QRow -> Nat], total : Nat, approximate : BOOLEAN, quiet : BOOLEAN]
  /\ report.at \in {"none", "done"} /\ report.filter \in Asks \cup {NoFilter}
  /\ erasing \in [at : {"idle", "deleted"}, ids : SUBSET QRow]
  /\ events \subseteq QRow /\ failed \in BOOLEAN
  /\ finder \in [at : {"idle", "read", "done"}, ids : SUBSET QRow, missing : SUBSET QRow,
                 explained : SUBSET QRow, calm : BOOLEAN]
  /\ moves \in 0..MaxMoves

QueryInit ==
  /\ present = {} /\ cell = [r \in QRow |-> "null"]
  /\ column = [type |-> "string", filterable |-> FALSE]
  /\ view = NoView /\ report = NoReport
  /\ erasing = [at |-> "idle", ids |-> {}] /\ events = {}
  /\ finder = NoFinder /\ failed = FALSE /\ moves = 0

(* Any rows, with any template. *)
GivenRows ==
  /\ present = {} /\ moves = 0
  /\ present' = QRow /\ cell' \in [QRow -> CellUsed]
  /\ column' \in [type : ColumnType, filterable : BOOLEAN]
  /\ UNCHANGED <<view, report, erasing, events, finder, failed, moves>>

Counted == (moves = 0 => present = QRow) /\ moves < MaxMoves /\ moves' = moves + 1

-----------------------------------------------------------------------------
(* The conditions.                                                         *)

Numbers == {"1", "2"}
(* dateCastExpr: digits are milliseconds since 1970. *)
Dates == Numbers \cup {"jan", "feb"}
Moment(c) == CASE c \in Numbers -> 0 [] c = "jan" -> 1 [] c = "feb" -> 2

(* Mutation: what is no number filters nothing. *)
AnyIfNaN(v) == IF v \in Numbers THEN {v} ELSE Cell

(* NaN never matches. *)
Equal(v) == {v} \cap Numbers

(* What a filter lets through: a column that is not filterable is skipped; *)
(* a date column takes the lower bound of a range; a string is found as a  *)
(* part.                                                                   *)
Fitting(v) ==
  IF ~column.filterable \/ v = NoFilter THEN Cell
  ELSE IF v = "null" THEN BlankCell
  ELSE CASE column.type = "number" -> Equal(v)
         [] column.type = "date" -> {c \in Dates : v \in Dates /\ Moment(c) >= Moment(v)}
         [] column.type = "string" -> {v}

(* What makes the statement fail when it gets to it: the cast to numeric   *)
(* is not guarded, the one to a date is by its form only; a bound that is  *)
(* no date fails whatever the row.                                         *)
Throwing(v) ==
  IF ~column.filterable \/ v \in {NoFilter, "null"} THEN {}
  ELSE CASE column.type = "number" -> IF v \in Numbers THEN Cell \ (Numbers \cup {"null"}) ELSE {}
         [] column.type = "date" -> IF v \in Dates \ Numbers THEN {"feb31"} ELSE Cell
         [] column.type = "string" -> {}

Matching(v) == {r \in present : cell[r] \in Fitting(v)}
Throws(v) == \E r \in present : cell[r] \in Throwing(v)

-----------------------------------------------------------------------------
(* The table and the template change.                                      *)

Disturbed == view' = [view EXCEPT !.quiet = FALSE]

PutRow(r, c) ==
  /\ Counted /\ (r \in present => cell[r] # c)
  /\ present' = present \cup {r} /\ cell' = [cell EXCEPT ![r] = c]
  /\ Disturbed
  /\ UNCHANGED <<column, report, erasing, events, finder, failed>>

EditColumn(type, filterable) ==
  /\ Counted /\ column' = [type |-> type, filterable |-> filterable] /\ column' # column
  /\ Disturbed
  /\ UNCHANGED <<present, cell, report, erasing, events, finder, failed>>

-----------------------------------------------------------------------------
(* query.                                                                  *)

OpenView(v) ==
  /\ Counted /\ view.at \in {"idle", "done"}
  /\ view' = [NoView EXCEPT !.at = "page", !.filter = v, !.page = 1, !.quiet = TRUE]
  /\ UNCHANGED <<present, cell, column, report, erasing, events, finder, failed>>

(* ORDER BY the text of the cell, blanks last, in any order of those that  *)
(* are the same.                                                           *)
Before(c, d) ==
  LET order == <<"", "1", "2", "feb", "feb31", "jan", "text", "null">>
  IN  \E i, j \in 1..8 : i < j /\ order[i] = c /\ order[j] = d
Orders(S) ==
  {o \in [1..Cardinality(S) -> S] :
     \A i, j \in 1..Cardinality(S) : i < j => o[i] # o[j] /\ ~Before(cell[o[j]], cell[o[i]])}

Offset(n) == (n - 1) * PageSize

Page(o, n) == {o[i] : i \in {j \in DOMAIN o : Offset(n) < j /\ j <= Offset(n) + PageSize}}

(* The page of one request; the reader goes on until a page is not full.   *)
ReadPage ==
  /\ view.at = "page"
  /\ IF Throws(view.filter)
     THEN view' = NoView /\ failed' = TRUE
     ELSE \E o \in Orders(Matching(view.filter)) :
            LET rows == Page(o, view.page)
            IN  /\ view' = [view EXCEPT
                     !.seen = [r \in QRow |-> IF r \in rows THEN @[r] + 1 ELSE @[r]],
                     !.at = IF Cardinality(rows) = PageSize THEN "page" ELSE "count",
                     !.page = IF Cardinality(rows) = PageSize THEN @ + 1 ELSE @]
                /\ failed' = FALSE
  /\ UNCHANGED <<present, cell, column, report, erasing, events, finder, moves>>

Approximate(n) == n >= CountCap

(* The total of the same request, by a statement of its own.  It may not   *)
(* get to a row that throws when it has found CountCap rows before.        *)
ReadTotal ==
  /\ view.at = "count"
  /\ LET n == Cardinality(Matching(view.filter))
         total == IF n > CountCap THEN CountCap ELSE n
     IN  \/ /\ ~Throws(view.filter) \/ n >= CountCap
            /\ view' = [view EXCEPT !.at = "done", !.total = total, !.approximate = Approximate(total)]
            /\ failed' = FALSE
         \/ Throws(view.filter) /\ view' = NoView /\ failed' = TRUE
  /\ UNCHANGED <<present, cell, column, report, erasing, events, finder, moves>>

-----------------------------------------------------------------------------
(* aggregate.                                                              *)

(* A dimension: the month of a date column, or the text itself. *)
Dimension(c) == IF column.type = "date" THEN (IF c \in Dates THEN <<"month", Moment(c)>> ELSE <<"null">>)
                ELSE IF c = "null" THEN <<"null">> ELSE <<c>>

(* numericCastExpr: only a number column has metrics.                      *)
Amount(r) == CASE cell[r] = "1" -> 1 [] cell[r] = "2" -> 2 [] OTHER -> 0
SumOf(S) == MapThenSumSet(Amount, S)

GroupsBy(S) ==
  {LET same == {x \in S : Dimension(cell[x]) = Dimension(cell[r])}
   IN  [dim |-> Dimension(cell[r]), count |-> Cardinality(same),
        sum |-> IF column.type = "number" THEN SumOf(same) ELSE 0] : r \in S}

(* Mutation: only the groups that are shown are asked for. *)
FetchedCap == AggCap

(* One group more than the cap tells "exactly at the cap" from "truncated". *)
Fetched == AggCap + 1

(* The groups that "having" lets through, the largest first, of equal ones *)
(* any.                                                                    *)
Largest(G, n) ==
  {T \in SUBSET G : /\ Cardinality(T) = IF Cardinality(G) < n THEN Cardinality(G) ELSE n
                    /\ \A g \in T, h \in G \ T : g.count >= h.count}

(* A date column groups by a cast that February 31 passes the guard of.    *)
GroupThrows(v) ==
  \E r \in present : column.type = "date" /\ cell[r] = "feb31" /\ cell[r] \in Fitting(v)

Aggregate(v, atLeast) ==
  /\ Counted
  /\ IF Throws(v) \/ GroupThrows(v)
     THEN report' = NoReport /\ failed' = TRUE
     ELSE \E raw \in Largest({g \in GroupsBy(Matching(v)) : g.count >= atLeast}, Fetched) :
          \E shown \in Largest(raw, AggCap) :
            /\ report' = [at |-> "done", filter |-> v, groups |-> shown,
                          truncated |-> Cardinality(raw) > AggCap]
            /\ failed' = FALSE
  /\ UNCHANGED <<present, cell, column, view, erasing, events, finder>>

-----------------------------------------------------------------------------
(* The mass delete, with the ids in its event; and findMissingIds.         *)

Agitated == finder' = [finder EXCEPT !.calm = FALSE]

Erase(v) ==
  /\ Counted /\ erasing.at = "idle" /\ v # NoFilter
  /\ IF Throws(v)
     THEN failed' = TRUE /\ UNCHANGED <<present, erasing, view, finder>>
     ELSE /\ present' = present \ Matching(v)
          /\ erasing' = [at |-> "deleted", ids |-> Matching(v)]
          /\ failed' = FALSE
          /\ Disturbed /\ Agitated
  /\ UNCHANGED <<cell, column, report, events>>

(* recordDeleteEvent.                                                      *)
RecordDelete ==
  /\ erasing.at = "deleted"
  /\ events' = events \cup erasing.ids
  /\ erasing' = [at |-> "idle", ids |-> {}]
  /\ UNCHANGED <<present, cell, column, view, report, finder, failed, moves>>

FindMissing(ids) ==
  /\ Counted /\ finder.at # "read" /\ ids # {}
  /\ finder' = [at |-> IF ids \subseteq present THEN "done" ELSE "read", ids |-> ids,
                missing |-> ids \ present, explained |-> {}, calm |-> erasing.at = "idle"]
  /\ UNCHANGED <<present, cell, column, view, report, erasing, events, failed>>

FindDeletedInfo ==
  /\ finder.at = "read"
  /\ finder' = [finder EXCEPT !.at = "done", !.explained = finder.missing \cap events]
  /\ UNCHANGED <<present, cell, column, view, report, erasing, events, failed, moves>>

QueryNext ==
  \/ GivenRows
  \/ \E r \in QRow, c \in CellUsed : PutRow(r, c)
  \/ \E type \in ColumnType, filterable \in BOOLEAN : EditColumn(type, filterable)
  \/ \E v \in Asks \cup {NoFilter} : OpenView(v) \/ Erase(v) \/ \E n \in 0..2 : Aggregate(v, n)
  \/ ReadPage \/ ReadTotal \/ RecordDelete
  \/ \E ids \in {QRow} \cup {{r} : r \in QRow} : FindMissing(ids)
  \/ FindDeletedInfo

QuerySpec == QueryInit /\ [][QueryNext]_queryVars

-----------------------------------------------------------------------------
(* Properties.                                                             *)

(* Reading a list to its end shows every row that matches once and no      *)
(* other, if nothing changed and no two of them sort the same: rows that   *)
(* tie may come twice or never, as LIMIT and OFFSET order them anew.       *)
PagesCover ==
  view.at \in {"count", "done"} /\ view.quiet
    /\ (\A r, s \in Matching(view.filter) : r # s => cell[r] # cell[s]) =>
      \A r \in QRow : view.seen[r] = IF r \in Matching(view.filter) THEN 1 ELSE 0

(* A total that is not said to be approximate is the number of rows that   *)
(* match, and that many were shown, ties or not.                           *)
Exact == view.at = "done" /\ view.quiet /\ ~view.approximate
TotalsTrue == Exact => view.total = Cardinality(Matching(view.filter))
TotalsShown == Exact => view.total = MapThenSumSet(LAMBDA r : view.seen[r], QRow)

(* The groups of a report that is not truncated nor filtered add up to the *)
(* rows a list by the same filters shows ("las condiciones agrupadas match *)
(* Registros exactly"); of one that is truncated they are fewer.           *)
ReportAddsUp ==
  [][\A v \in Asks \cup {NoFilter} :
       report'.at = "done" /\ Aggregate(v, 0) =>
         LET counted == MapThenSumSet(LAMBDA g : g.count, report'.groups)
         IN  /\ counted <= Cardinality(Matching(v))
             /\ report'.truncated <=> counted < Cardinality(Matching(v))]_queryVars

(* No request fails on a table whose cells all fit the type of the column, *)
(* whatever the filter, but for a bound that is no date.                   *)
Conforming ==
  \A r \in present : cell[r] = "null" \/ cell[r] \in
    CASE column.type = "number" -> Numbers [] column.type = "date" -> Dates [] OTHER -> Cell
ConformingNeverFails ==
  [][failed' /\ ~failed /\ Conforming =>
       column.type = "date" /\ column.filterable]_queryVars

(* A mass delete by a filter on a filterable column removes no row that    *)
(* the filter does not describe, whatever the filter says.                 *)
Describes(v, c) ==
  IF v = "null" THEN c \in BlankCell
  ELSE IF column.type = "date" THEN c \in Dates ELSE c = v
ErasesDescribed ==
  [][\A v \in Asks : erasing'.at = "deleted" /\ column.filterable /\ Erase(v) =>
       \A r \in present \ present' : Describes(v, cell[r])]_queryVars

(* An id that the application deleted is never reported missing without    *)
(* the event that explains it, unless a delete was under way.              *)
MissingExplained ==
  finder.at = "done" /\ finder.calm => finder.missing \subseteq finder.explained

(* Lists, totals, mass deletes and the check for missing ids all speak of  *)
(* the same rows.                                                          *)
QueriesAgree ==
  /\ ConformingNeverFails /\ ErasesDescribed
  /\ []PagesCover /\ []TotalsTrue /\ []MissingExplained

(* The groups of a report and the pages of a list add up to their totals.  *)
NumbersAddUp == ReportAddsUp /\ []TotalsShown
=============================================================================

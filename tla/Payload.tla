------------------------------- MODULE Payload -------------------------------
(***************************************************************************)
(* What goes to the vendor and how its answer finds the rows again         *)
(* (tables/table-rows.service.ts: buildGroupIdSql, submitGroup,            *)
(* toCamelCase, applyIdSubstitution, resolveWriteRule, resolveSendTarget;  *)
(* write-collapse.util.ts; callbacks/sii-result.mapper.ts).                *)
(*                                                                         *)
(* A text is a sequence of letters, for what keys and ids are joined with  *)
(* may be part of them.  Rows have two columns of their own, "doc_id" and  *)
(* "nif", and may have two whose names meet those of the payload.          *)
(***************************************************************************)
EXTENDS Naturals, Sequences, FiniteSets, FiniteSetsExt, Functions

CONSTANTS PRow,   (* rows, in the order of the query                         *)
          Texts,  (* texts of the cells, over the letters "a" and "-"        *)
          Linked  (* the connections of the instance                         *)

Missing == <<"missing">>
Letter == {"a", "-"}
NoLink == "unlinked"

ASSUME PayloadAssumption ==
  /\ PRow \subseteq Nat /\ IsFiniteSet(PRow)
  /\ Texts \subseteq Seq(Letter)

VARIABLES pdata,    (* the cells, and the connection, of each row            *)
          pconf,    (* the configuration "write" of the template             *)
          outgoing, (* the last call                                         *)
          mapped    (* what mapVendorResult made of the answer               *)

payloadVars == <<pdata, pconf, outgoing, mapped>>

(* Keys of the payload in camel case; the extra columns hold some text.    *)
Camel(k) == CASE k = "doc_id" -> "docId" [] k = "internal_ref" -> "internalRef" [] OTHER -> k
Extra == {"docId", "internal_ref"}

Conf == [extra : SUBSET Extra, excluded : {{}, {"nif"}}, groupBy : {{}, {"doc_id"}, {"doc_id", "nif"}},
         collapse : BOOLEAN, rowsField : {"rows", "docId"}, rules : SUBSET (Linked \cup {"generic"})]
Nothing == [kind |-> "none", rows |-> {}, header |-> <<>>, lines |-> <<>>, rowsField |-> "rows"]

PayloadTypeOK ==
  /\ pdata \in [PRow -> [doc_id : Texts \cup {Missing}, nif : Texts \cup {<<>>},
                       conn : Linked \cup {NoLink}]]
  /\ pconf \in Conf
  /\ outgoing.kind \in {"none", "refused", "flat", "collapsed", "delete"}
  /\ outgoing.rows \subseteq PRow
  /\ mapped \in [at : {"none", "mapped"}, lineItems : SUBSET PRow, whole : BOOLEAN]

NotMapped == [at |-> "none", lineItems |-> {}, whole |-> FALSE]

PayloadInit ==
  /\ pdata = [r \in PRow |-> [doc_id |-> Missing, nif |-> <<>>, conn |-> NoLink]]
  /\ pconf = [extra |-> {}, excluded |-> {}, groupBy |-> {}, collapse |-> FALSE,
              rowsField |-> "rows", rules |-> {}]
  /\ outgoing = Nothing /\ mapped = NotMapped

(* Any rows, with any configuration: a collapse needs groupBy.             *)
GivenPayload ==
  /\ \A r \in PRow : pdata[r].conn = NoLink
  /\ pdata' \in [PRow -> [doc_id : Texts \cup {Missing}, nif : Texts, conn : Linked]]
  /\ pconf' \in {k \in Conf : IF k.collapse THEN k.groupBy # {} ELSE k.rowsField = "rows"}
  /\ UNCHANGED <<outgoing, mapped>>

-----------------------------------------------------------------------------
(* Groups.                                                                 *)

Text(r, k) == IF k = "doc_id" THEN pdata[r].doc_id ELSE pdata[r].nif
Blanked(t) == IF t = Missing THEN <<>> ELSE t

(* Mutation: the values are joined by nothing. *)
GroupIdUnseparated(r) ==
  <<pdata[r].conn>> \o (IF "doc_id" \in pconf.groupBy THEN Blanked(Text(r, "doc_id")) ELSE <<>>)
                    \o (IF "nif" \in pconf.groupBy THEN Text(r, "nif") ELSE <<>>)

(* buildGroupIdSql: the connection and the values, a missing one empty,    *)
(* around a separator that no text contains.                               *)
GroupId(r) ==
  <<pdata[r].conn>> \o (IF "doc_id" \in pconf.groupBy THEN <<"sep">> \o Blanked(Text(r, "doc_id")) ELSE <<>>)
                    \o (IF "nif" \in pconf.groupBy THEN <<"sep">> \o Text(r, "nif") ELSE <<>>)

(* resolveWriteRule: the rule of the connection, else the generic one. *)
RuleOf(c) == IF c \in pconf.rules THEN {c} ELSE pconf.rules \cap {"generic"}

-----------------------------------------------------------------------------
(* The payload.                                                            *)

Columns == {"doc_id", "nif"} \cup pconf.extra
Has(r, k) == k \in Columns \ pconf.excluded /\ (k = "doc_id" => Text(r, k) # Missing)
Value(r, k) == IF k \in Extra THEN <<"own", k>> ELSE Text(r, k)

(* toCamelCase: of two columns with one name in camel case the later wins, *)
(* "doc_id" being longer than "docId" in the order of jsonb.               *)
Data(r) ==
  [n \in {Camel(k) : k \in {x \in Columns : Has(r, x)}} |->
     IF n = "docId" /\ Has(r, "doc_id") THEN Value(r, "doc_id")
     ELSE Value(r, CHOOSE k \in Columns : Camel(k) = n /\ Has(r, k))]

(* Flat: {internal_ref: r.id, ...data}, where data could hide the id.      *)
FlatItem(r) == [ref |-> IF "internal_ref" \in DOMAIN Data(r) THEN {} ELSE {r}, data |-> Data(r)]

(* buildCollapsedPayloadItem: of each name of groupBy the value of the     *)
(* first row that has it; the rest stays in the lines.                     *)
Lifted == {Camel(k) : k \in pconf.groupBy}
Header(S) ==
  [n \in {x \in Lifted : \E r \in S : x \in DOMAIN Data(r)} |->
     Data(Min({r \in S : n \in DOMAIN Data(r)}))[n]]
LineItem(r) ==
  [ref |-> IF "internal_ref" \in DOMAIN Data(r) \ Lifted THEN {} ELSE {r},
   data |-> Restrict(Data(r), DOMAIN Data(r) \ Lifted)]

(* The key of the lines hides a column lifted under the same name.         *)
Shown(S) == Restrict(Header(S), DOMAIN Header(S) \ {pconf.rowsField})

(* A group goes as one item, or a chunk as one item per row; with no rule  *)
(* for its connection it is refused.                                       *)
SubmitGroup(S) ==
  /\ S # {} /\ outgoing.kind = "none" /\ \A r \in S : pdata[r].conn # NoLink
  /\ \A r, s \in S : GroupId(r) = GroupId(s)
  /\ outgoing' =
       IF RuleOf(pdata[Min(S)].conn) = {} THEN [Nothing EXCEPT !.kind = "refused", !.rows = S]
       ELSE IF pconf.collapse
       THEN [kind |-> "collapsed", rows |-> S, header |-> Shown(S),
             lines |-> [r \in S |-> LineItem(r)], rowsField |-> pconf.rowsField]
       ELSE [kind |-> "flat", rows |-> S, header |-> <<>>,
             lines |-> [r \in S |-> FlatItem(r)], rowsField |-> "rows"]
  /\ UNCHANGED <<pdata, pconf, mapped>>

Ref(r) == outgoing.lines[r].ref

(* mapVendorResult on what the vendor echoes: of a collapsed item the      *)
(* lines, under whatever key, or the batch alone; else each item.          *)
MapVendorResult ==
  /\ outgoing.kind \in {"flat", "collapsed"} /\ mapped.at = "none"
  /\ \/ \E S \in SUBSET outgoing.rows :
          mapped' = [at |-> "mapped", lineItems |-> UNION {Ref(r) : r \in S}, whole |-> S = outgoing.rows]
     \/ /\ outgoing.kind = "collapsed"
        /\ mapped' = [at |-> "mapped", lineItems |-> outgoing.rows, whole |-> TRUE]
  /\ UNCHANGED <<pdata, pconf, outgoing>>

-----------------------------------------------------------------------------
(* The path of a delete.                                                   *)

(* applyIdSubstitution for idFields <<doc_id, nif>>: the parts around a    *)
(* "-", or the id of the row when a part is missing.                       *)
Target(r) ==
  IF Blanked(Text(r, "doc_id")) = <<>> \/ Text(r, "nif") = <<>> THEN <<"row", r>>
  ELSE Text(r, "doc_id") \o <<"-">> \o Text(r, "nif")

PropagateDelete(r) ==
  /\ outgoing.kind = "none" /\ RuleOf(pdata[r].conn) # {}
  /\ outgoing' = [Nothing EXCEPT !.kind = "delete", !.rows = {r}]
  /\ UNCHANGED <<pdata, pconf, mapped>>

PayloadNext ==
  \/ GivenPayload
  \/ \E S \in SUBSET PRow : SubmitGroup(S)
  \/ MapVendorResult
  \/ \E r \in PRow : PropagateDelete(r)

PayloadSpec == PayloadInit /\ [][PayloadNext]_payloadVars

-----------------------------------------------------------------------------
(* Properties.                                                             *)

(* What the header of a combined record says is what each of its rows says *)
(* in that column, but for rows where it is blank: rows that meet in one   *)
(* record have the same values, not only the same text once joined.  (A    *)
(* rowsField of the same name hides the column.)                           *)
HeaderSpeaksForAll ==
  outgoing.kind = "collapsed" =>
    \A r \in outgoing.rows, k \in pconf.groupBy \ pconf.excluded :
      Camel(k) # pconf.rowsField /\ Blanked(Text(r, k)) # <<>> => outgoing.header[Camel(k)] = Text(r, k)

(* Whatever part of a payload the vendor echoes, flat or nested or the     *)
(* batch alone, the result reaches rows that were sent, and all of them    *)
(* when it echoes all: no column hides the id of its row.                  *)
EchoReachesRows ==
  mapped.at = "mapped" =>
    mapped.lineItems \subseteq outgoing.rows /\ (mapped.whole => mapped.lineItems = outgoing.rows)

(* A delete that is propagated names its own row: no other row with        *)
(* another id has the same path, unless an id has a "-" in it.             *)
DeletesHitOwn ==
  outgoing.kind = "delete" =>
    \A r \in outgoing.rows, s \in PRow :
      (\A x \in {r, s}, k \in {"doc_id", "nif"} : "-" \notin Range(Text(x, k))) /\ Target(r) = Target(s) =>
        r = s \/ (Text(r, "doc_id") = Text(s, "doc_id") /\ Text(r, "nif") = Text(s, "nif"))

(* What goes to the vendor, and what comes back, is of the rows sent.      *)
PayloadOfItsRows == HeaderSpeaksForAll /\ EchoReachesRows /\ DeletesHitOwn
=============================================================================

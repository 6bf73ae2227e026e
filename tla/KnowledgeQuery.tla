------------------------------ MODULE KnowledgeQuery ---------------------------
(***************************************************************************)
(* KnowledgeService.query over the documents that KnowledgeBase replaces   *)
(* meanwhile: the running row, up to three attempts of search, rerank and  *)
(* recorded hits, a rewritten query between them, and the row's close.     *)
(* Every statement of a search has its own snapshot.                       *)
(***************************************************************************)
EXTENDS KnowledgeBase

CONSTANTS Askers,
          RequestIds,     \* of the requests, which their client may choose
          MaxRetries      \* as configured

ASSUME KnowledgeQueryAssumption == MaxRetries \in Nat

VARIABLES rows,     \* rag_queries by request_id, which is unique there
          ask       \* ask[a] : where the query of a is

queryVars == <<rows, ask>>
vars == <<baseVars, hits, queryVars>>

NoRow == [status |-> "none"]
Quiet == [pc |-> "idle"]

QueryInit ==
  /\ hits = {}
  /\ rows = [id \in RequestIds |-> NoRow]
  /\ ask = [a \in Askers |-> Quiet]

Asking(a, pc) == ask[a].pc = pc
Retries == IF MaxRetries < 2 THEN MaxRetries ELSE 2

\* create_query.  A request identifier that was used before is refused by the
\* unique index, outside the try: nothing changes.
CreateQuery(a) ==
  /\ Asking(a, "idle")
  /\ \E id \in RequestIds, expands \in BOOLEAN :
       /\ rows[id] = NoRow
       /\ rows' = [rows EXCEPT ![id] = [status |-> "running"]]
       /\ ask' = [ask EXCEPT ![a] = [pc |-> "searching", id |-> id, expands |-> expands,
                                     attempt |-> 0, retries |-> 0, found |-> {},
                                     confident |-> FALSE]]
  /\ UNCHANGED <<baseVars, hits>>

\* The three statements of hybrid_search: the nearest chunks, all of them here;
\* those whose text matches ...
VectorSearch(a) ==
  /\ Asking(a, "searching")
  /\ ask' = [ask EXCEPT ![a].pc = "matching", ![a].found = chunks]
  /\ UNCHANGED <<baseVars, hits, rows>>

TextSearch(a) ==
  /\ Asking(a, "matching")
  /\ \E matching \in SUBSET chunks :
       ask' = [ask EXCEPT ![a].pc = "fetching", ![a].found = @ \cup matching]
  /\ UNCHANGED <<baseVars, hits, rows>>

\* ... and the rows of both, which the reranker scores.
RowsOf_Candidates(candidates) == candidates                            \* fault
RowsOf(candidates) == candidates \cap chunks
FetchRows(a) ==
  LET found == RowsOf(ask[a].found)
  IN  /\ Asking(a, "fetching")
      /\ \E confident \in BOOLEAN :
           /\ confident => found # {}
           /\ ask' = [ask EXCEPT ![a].pc = "recording", ![a].found = found,
                                 ![a].confident = confident]
      /\ UNCHANGED <<baseVars, hits, rows>>

\* Then once more with the rewritten query, when there is an attempt left and the
\* rules have something to add; an attempt without confidence leaves no evidence.
RetriesNow_Anyway(a) == ask[a].attempt + 1                             \* fault
RetriesNow(a) == IF ask[a].expands THEN ask[a].attempt + 1 ELSE ask[a].retries
Decided(a) ==
  IF ask[a].confident \/ ask[a].attempt >= Retries
    THEN [ask[a] EXCEPT !.pc = "completing"]
    ELSE IF ask[a].expands
      THEN [ask[a] EXCEPT !.pc = "searching", !.attempt = @ + 1, !.retries = RetriesNow(a),
                          !.found = {}]
      ELSE [ask[a] EXCEPT !.pc = "completing", !.retries = RetriesNow(a)]

\* record_hits, whose foreign key waits for a chunk that is being replaced and
\* refuses one that is gone.  What was found are the three hits on top.
HitsOf(a) ==
  {[query |-> ask[a].id, chunk |-> c, attempt |-> ask[a].attempt,
    selected |-> ask[a].confident] : c \in ask[a].found}
RecordHits(a) ==
  /\ Asking(a, "recording")
  /\ \A c \in ask[a].found : c \in chunks /\ ~BeingReplaced(c)
  /\ hits' = hits \cup HitsOf(a)
  /\ ask' = [ask EXCEPT ![a] = Decided(a)]
  /\ UNCHANGED <<baseVars, rows>>

RefuseHits(a) ==
  /\ Asking(a, "recording")
  /\ ~(ask[a].found \subseteq chunks)
  /\ ask' = [ask EXCEPT ![a].pc = "failing"]
  /\ UNCHANGED <<baseVars, hits, rows>>

CompleteQuery(a) ==
  /\ Asking(a, "completing")
  /\ rows' = [rows EXCEPT ![ask[a].id] =
                [status |-> IF ask[a].confident THEN "success" ELSE "no_evidence",
                 retries |-> ask[a].retries,
                 cited |-> IF ask[a].confident THEN ask[a].found ELSE {}]]
  /\ ask' = [ask EXCEPT ![a] = Quiet]
  /\ UNCHANGED <<baseVars, hits>>

\* Anything else in the try fails; fail_query then closes the row.
Trying == {"searching", "matching", "fetching", "recording", "completing"}
QueryFails(a) ==
  /\ ask[a].pc \in Trying
  /\ ask' = [ask EXCEPT ![a].pc = "failing"]
  /\ UNCHANGED <<baseVars, hits, rows>>

FailQuery(a) ==
  /\ Asking(a, "failing")
  /\ rows' = [rows EXCEPT ![ask[a].id] = [status |-> "failed"]]
  /\ ask' = [ask EXCEPT ![a] = Quiet]
  /\ UNCHANGED <<baseVars, hits>>

\* A cancelled request, which the except clause does not catch, or a fail_query
\* that fails: the row stays "running".
Abandon(a) ==
  /\ ask[a].pc \in Trying \cup {"failing"}
  /\ ask' = [ask EXCEPT ![a] = Quiet]
  /\ UNCHANGED <<baseVars, hits, rows>>

QueryNext ==
  \E a \in Askers :
    \/ CreateQuery(a) \/ VectorSearch(a) \/ TextSearch(a) \/ FetchRows(a)
    \/ RecordHits(a) \/ RefuseHits(a) \/ CompleteQuery(a)
    \/ QueryFails(a) \/ FailQuery(a) \/ Abandon(a)

Init == BaseInit /\ QueryInit
Next == (BaseNext /\ UNCHANGED queryVars) \/ QueryNext
Spec == Init /\ [][Next]_vars

--------------------------------------------------------------------------------
\* Types.  Hits refer to queries and chunks that exist, as the foreign keys say.
TypeOK ==
  /\ BaseTypeOK
  /\ \A h \in hits : /\ h.chunk \in chunks
                     /\ rows[h.query] # NoRow
                     /\ h.attempt \in 0..2
  /\ \A id \in RequestIds :
       rows[id].status \in {"none", "running", "success", "no_evidence", "failed"}

\* An answer never puts a document's old text beside its new one: what a search
\* returns holds no two versions of a document, however it was replaced between
\* the search's statements.
OneVersionFound ==
  \A a \in Askers :
    ask[a].pc \in {"recording", "completing"} =>
      \A c, d \in ask[a].found : c.source = d.source => c = d

\* docs/phase-3-architecture.md:36-37: the audit of a closed query supports its
\* answer.  What it cited and still exists is recorded as selected, in the last
\* attempt, of which there were as many as retries say and at most three; a query
\* without evidence selected nothing.
AuditSupportsAnswer ==
  /\ \A a \in Askers : Asking(a, "completing") => ask[a].retries = ask[a].attempt
  /\ \A id \in RequestIds :
       rows[id].status \in {"success", "no_evidence"} =>
         LET mine == {h \in hits : h.query = id}
         IN  /\ rows[id].retries <= 2
             /\ \A h \in mine :
                  /\ h.attempt <= rows[id].retries
                  /\ h.selected <=> h.chunk \in rows[id].cited /\ h.attempt = rows[id].retries
             /\ \A c \in rows[id].cited \cap chunks : \E h \in mine : h.chunk = c /\ h.selected
             /\ rows[id].status = "success" <=> rows[id].cited # {}
================================================================================

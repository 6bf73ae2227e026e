------------------------- MODULE KnowledgeQuery_proofs -------------------------
(***************************************************************************)
(* Proofs about KnowledgeBase and KnowledgeQuery, for any ingestions,      *)
(* queries, sources and contents.                                          *)
(***************************************************************************)
EXTENDS KnowledgeQuery, TLAPS

Embedded == [pc : {"embedded"}, source : Sources, content : Contents]
Open     == [pc : {"selected", "writing"}, source : Sources, saw : Documents, content : Contents]

\* An ingestion with a lock: on the row it read, or on the key it inserts.
Locks(x) == x.pc = "writing" \/ (x.pc = "selected" /\ x.saw # NoDocument)

\* What the lock is for: what was read is what is there.
LockInv ==
  /\ docs \in [Sources -> Documents] /\ chunks \subseteq AllChunks
  /\ owner \in [Sources -> Ingesters \cup {Nobody}]
  /\ ingest \in [Ingesters -> {Done} \cup Embedded \cup Open]
  /\ \A i \in Ingesters :
       /\ Locks(ingest[i]) => /\ owner[ingest[i].source] = i
                              /\ ingest[i].saw = docs[ingest[i].source]
       /\ ingest[i].pc = "writing" => /\ ingest[i].saw.content # ingest[i].content
                                      /\ ingest[i].saw.version < MaxVersion

BaseInv == LockInv /\ IndexMatches

\* One ingestion moves, without a lock or with one that is its own, and no
\* document changes.
LEMMA IngestionMoves ==
  ASSUME BaseInv, NEW i \in Ingesters, NEW new \in {Done} \cup Embedded \cup Open,
         ingest' = [ingest EXCEPT ![i] = new],
         UNCHANGED <<docs, chunks>>,
         owner' \in [Sources -> Ingesters \cup {Nobody}],
         \A k \in Sources : owner[k] \in Ingesters \ {i} => owner'[k] = owner[k],
         Locks(new) => owner'[new.source] = i /\ new.saw = docs[new.source],
         new.pc = "writing" => new.saw.content # new.content /\ new.saw.version < MaxVersion
  PROVE  BaseInv'
<1>1. \A j \in Ingesters : ingest'[j] = IF j = i THEN new ELSE ingest[j]
  BY DEF BaseInv, LockInv
<1>2. ingest' \in [Ingesters -> {Done} \cup Embedded \cup Open]
  BY DEF BaseInv, LockInv
<1>3. ASSUME NEW j \in Ingesters, j # i, Locks(ingest[j])
      PROVE  owner'[ingest[j].source] = j /\ ingest[j].saw = docs'[ingest[j].source]
  <2>1. ingest[j] \in Open
    BY <1>3 DEF BaseInv, LockInv, Locks, Done, Embedded
  <2>2. ingest[j].source \in Sources
    BY <2>1 DEF Open
  <2> QED BY <1>3, <2>2 DEF BaseInv, LockInv
<1>4. LockInv'
  BY <1>1, <1>2, <1>3 DEF BaseInv, LockInv, Locks, Documents, Open, Embedded
<1>5. IndexMatches'
  BY DEF BaseInv, IndexMatches, Chunk
<1> QED BY <1>4, <1>5 DEF BaseInv

LEMMA ReleaseKeeps ==
  ASSUME BaseInv, NEW i \in Ingesters, Releases(i)
  PROVE  /\ owner' \in [Sources -> Ingesters \cup {Nobody}]
         /\ \A k \in Sources : owner[k] \in Ingesters \ {i} => owner'[k] = owner[k]
BY DEF BaseInv, LockInv, Releases

LEMMA HoldKeeps ==
  ASSUME BaseInv, NEW i \in Ingesters, NEW k \in Sources, Free(k), Holds(i, k)
  PROVE  /\ owner' \in [Sources -> Ingesters \cup {Nobody}]
         /\ owner'[k] = i
         /\ \A l \in Sources : owner[l] \in Ingesters \ {i} => owner'[l] = owner[l]
BY KnowledgeBaseAssumption DEF BaseInv, LockInv, Holds, Free, Nobody

\* CommitDocument replaces what it read, and nothing else.
LEMMA CommitFacts ==
  ASSUME BaseInv, NEW i \in Ingesters, CommitDocument(i)
  PROVE  LET k == ingest[i].source
             new == [version |-> docs[k].version + 1, content |-> ingest[i].content]
         IN  /\ k \in Sources
             /\ owner[k] = i
             /\ ingest[i].content \in Contents
             /\ docs[k].version \in Nat /\ docs[k].version < MaxVersion
             /\ docs[k].content # ingest[i].content
             /\ docs' = [docs EXCEPT ![k] = new]
             /\ chunks' = {c \in chunks : c.source # k} \cup {Chunk(k, new)}
             /\ ingest' = [ingest EXCEPT ![i] = Done]
             /\ Releases(i)
<1> DEFINE k == ingest[i].source
<1>1. ingest[i] \in Open /\ ingest[i].pc = "writing"
  BY DEF CommitDocument, Ingesting, BaseInv, LockInv, Done, Embedded
<1>2. k \in Sources /\ ingest[i].content \in Contents /\ ingest[i].saw \in Documents
  BY <1>1 DEF Open
<1>3. /\ owner[k] = i /\ ingest[i].saw = docs[k]
      /\ docs[k].version < MaxVersion /\ docs[k].content # ingest[i].content
  BY <1>1 DEF BaseInv, LockInv, Locks
<1>4. docs[k].version \in Nat
  BY <1>2, <1>3 DEF Documents
<1>5. {c \in chunks : c.source = k} = IF docs[k] = NoDocument THEN {} ELSE {Chunk(k, docs[k])}
  BY <1>2 DEF BaseInv, IndexMatches
<1>6. chunks \ (IF docs[k] = NoDocument THEN {} ELSE {c \in chunks : c.source = k})
        = {c \in chunks : c.source # k}
  BY <1>5
<1> QED BY <1>2, <1>3, <1>4, <1>6 DEF CommitDocument

LEMMA CommitKeeps ==
  ASSUME BaseInv, NEW i \in Ingesters, CommitDocument(i)
  PROVE  BaseInv'
<1> DEFINE k == ingest[i].source
           new == [version |-> docs[k].version + 1, content |-> ingest[i].content]
<1>1. /\ k \in Sources /\ owner[k] = i /\ ingest[i].content \in Contents
      /\ docs[k].version \in Nat /\ docs[k].version < MaxVersion
      /\ docs' = [docs EXCEPT ![k] = new]
      /\ chunks' = {c \in chunks : c.source # k} \cup {Chunk(k, new)}
      /\ ingest' = [ingest EXCEPT ![i] = Done]
      /\ Releases(i)
  BY CommitFacts
<1>2. new \in Documents /\ new # NoDocument
  BY <1>1, KnowledgeBaseAssumption DEF Documents, NoDocument
<1> HIDE DEF new
<1>3. \A l \in Sources : docs'[l] = IF l = k THEN new ELSE docs[l]
  BY <1>1 DEF BaseInv, LockInv
<1>4. docs' \in [Sources -> Documents]
  BY <1>1, <1>2 DEF BaseInv, LockInv
<1>5. \A j \in Ingesters : ingest'[j] = IF j = i THEN Done ELSE ingest[j]
  BY <1>1 DEF BaseInv, LockInv
<1>6. ingest' \in [Ingesters -> {Done} \cup Embedded \cup Open]
  BY <1>1 DEF BaseInv, LockInv
<1>7. ASSUME NEW j \in Ingesters, j # i, Locks(ingest[j])
      PROVE  /\ owner'[ingest[j].source] = j
             /\ ingest[j].saw = docs'[ingest[j].source]
  <2>1. ingest[j] \in Open
    BY <1>7 DEF BaseInv, LockInv, Locks, Done, Embedded
  <2>2. ingest[j].source \in Sources
    BY <2>1 DEF Open
  <2>3. owner[ingest[j].source] = j /\ ingest[j].saw = docs[ingest[j].source]
    BY <1>7 DEF BaseInv, LockInv
  <2>4. ingest[j].source # k
    BY <1>1, <1>7, <2>3
  <2> QED BY <1>1, <1>3, <1>7, <2>2, <2>3, <2>4, ReleaseKeeps
<1>8. LockInv'
  <2>0. chunks' \subseteq AllChunks
    <3>1. Chunk(k, new) \in AllChunks
      BY <1>1, KnowledgeBaseAssumption DEF Chunk, AllChunks, new
    <3> QED BY <1>1, <3>1 DEF BaseInv, LockInv
  <2>1. ~Locks(Done) /\ Done.pc # "writing"
    BY DEF Locks, Done
  <2>2. owner' \in [Sources -> Ingesters \cup {Nobody}]
    BY <1>1, ReleaseKeeps
  <2> QED BY <1>4, <1>5, <1>6, <1>7, <2>0, <2>1, <2>2 DEF BaseInv, LockInv
<1>9. IndexMatches'
  <2>1. Chunk(k, new).source = k
    BY DEF Chunk
  <2> SUFFICES ASSUME NEW l \in Sources
               PROVE  {c \in chunks' : c.source = l}
                        = IF docs'[l] = NoDocument THEN {} ELSE {Chunk(l, docs'[l])}
    BY DEF IndexMatches, Chunk
  <2>2. CASE l = k
    BY <1>1, <1>2, <1>3, <2>1, <2>2
  <2>3. CASE l # k
    <3>1. {c \in chunks' : c.source = l} = {c \in chunks : c.source = l}
      BY <1>1, <2>1, <2>3
    <3> QED BY <1>3, <2>3, <3>1 DEF BaseInv, IndexMatches
  <2> QED BY <2>2, <2>3
<1> QED BY <1>8, <1>9 DEF BaseInv

--------------------------------------------------------------------------------
LEMMA IngestKeeps ==
  ASSUME BaseInv, NEW i \in Ingesters, Ingest(i) PROVE BaseInv'
<1>1. PICK k \in Sources, c \in Contents :
        ingest' = [ingest EXCEPT ![i] = [pc |-> "embedded", source |-> k, content |-> c]]
  BY DEF Ingest
<1> DEFINE new == [pc |-> "embedded", source |-> k, content |-> c]
<1>2. new \in Embedded /\ ~Locks(new) /\ new.pc # "writing"
  BY DEF Embedded, Locks
<1> HIDE DEF new
<1>3. ingest' = [ingest EXCEPT ![i] = new]
  BY <1>1 DEF new
<1> QED BY <1>2, <1>3, IngestionMoves DEF Ingest, BaseInv, LockInv

\* FOR UPDATE reads the row as it is, once nobody else holds it.
LEMMA SelectKeeps ==
  ASSUME BaseInv, NEW i \in Ingesters, SelectDocument(i) PROVE BaseInv'
<1> DEFINE k == ingest[i].source
           new == [pc |-> "selected", source |-> k, saw |-> docs[k], content |-> ingest[i].content]
<1>1. ingest[i] \in Embedded
  BY DEF SelectDocument, Ingesting, BaseInv, LockInv, Done, Open
<1>2. k \in Sources /\ ingest[i].content \in Contents /\ docs[k] \in Documents
  BY <1>1 DEF Embedded, BaseInv, LockInv
<1>3. /\ new \in Open /\ new.pc = "selected" /\ new.source = k /\ new.saw = docs[k]
  BY <1>2 DEF Open
<1>4. ingest' = [ingest EXCEPT ![i] = new] /\ UNCHANGED <<docs, chunks>>
  BY DEF SelectDocument
<1>5. docs[k] # NoDocument => Free(k) /\ Holds(i, k)
  BY DEF SelectDocument
<1>6. docs[k] = NoDocument => UNCHANGED owner
  BY DEF SelectDocument
<1> HIDE DEF new, k
<1>7. CASE docs[k] # NoDocument
  BY <1>2, <1>3, <1>4, <1>5, <1>7, HoldKeeps, IngestionMoves DEF Locks
<1>8. CASE docs[k] = NoDocument
  BY <1>3, <1>4, <1>6, <1>8, IngestionMoves DEF Locks, BaseInv, LockInv
<1> QED BY <1>7, <1>8

\* The transaction ends without a change.
LEMMA EndKeeps ==
  ASSUME BaseInv, NEW i \in Ingesters, KeepDocument(i) \/ RollBack(i) PROVE BaseInv'
<1>1. ~Locks(Done) /\ Done.pc # "writing"
  BY DEF Locks, Done
<1>2. /\ ingest' = [ingest EXCEPT ![i] = Done] /\ Releases(i)
      /\ UNCHANGED <<docs, chunks>>
  BY DEF KeepDocument, RollBack
<1> QED BY <1>1, <1>2, ReleaseKeeps, IngestionMoves

LEMMA WriteKeeps ==
  ASSUME BaseInv, NEW i \in Ingesters, BeginWrite(i) PROVE BaseInv'
<1> DEFINE k == ingest[i].source
           new == [ingest[i] EXCEPT !.pc = "writing"]
<1>1. ingest[i] \in Open /\ ingest[i].pc = "selected"
  BY DEF BeginWrite, Ingesting, BaseInv, LockInv, Done, Embedded
<1>2. k \in Sources
  BY <1>1 DEF Open
<1>3. /\ new \in Open /\ new.source = k /\ new.saw = ingest[i].saw
      /\ new.content = ingest[i].content
  BY <1>1 DEF Open
<1>4. ingest' = [ingest EXCEPT ![i] = new] /\ UNCHANGED <<docs, chunks>>
  BY DEF BeginWrite, BaseInv, LockInv
<1>5. ingest[i].saw.content # ingest[i].content /\ ingest[i].saw.version < MaxVersion
  BY DEF BeginWrite
<1>6. CASE ingest[i].saw # NoDocument /\ UNCHANGED owner
  <2>1. owner[k] = i /\ ingest[i].saw = docs[k]
    BY <1>1, <1>6 DEF BaseInv, LockInv, Locks
  <2> HIDE DEF new
  <2> QED BY <1>3, <1>4, <1>5, <1>6, <2>1, IngestionMoves DEF BaseInv, LockInv
<1>7. CASE ingest[i].saw = NoDocument /\ Free(k) /\ KeyIsNew(i) /\ Holds(i, k)
  <2>1. ingest[i].saw = docs[k]
    BY <1>7 DEF KeyIsNew
  <2> HIDE DEF new
  <2> QED BY <1>2, <1>3, <1>4, <1>5, <1>7, <2>1, HoldKeeps, IngestionMoves
<1> QED BY <1>6, <1>7 DEF BeginWrite

LEMMA BaseUntouched ==
  ASSUME BaseInv, UNCHANGED baseVars PROVE BaseInv'
BY DEF BaseInv, baseVars, LockInv, IndexMatches, Locks, Chunk

LEMMA QueryTouchesNoBase ==
  ASSUME QueryNext PROVE UNCHANGED baseVars
BY DEF QueryNext, CreateQuery, VectorSearch, TextSearch, FetchRows, RecordHits, RefuseHits,
       CompleteQuery, QueryFails, FailQuery, Abandon

LEMMA BaseStep == BaseInv /\ [Next]_vars => BaseInv'
<1> SUFFICES ASSUME BaseInv, [Next]_vars PROVE BaseInv'
  OBVIOUS
<1>1. CASE BaseNext
  BY <1>1, IngestKeeps, SelectKeeps, EndKeeps, WriteKeeps, CommitKeeps DEF BaseNext
<1>2. CASE QueryNext
  BY <1>2, QueryTouchesNoBase, BaseUntouched DEF QueryNext
<1>3. CASE UNCHANGED vars
  BY <1>3, BaseUntouched DEF vars, baseVars
<1> QED BY <1>1, <1>2, <1>3 DEF Next

LEMMA BaseStart == Init => BaseInv
BY KnowledgeBaseAssumption
DEF Init, BaseInit, BaseInv, LockInv, IndexMatches, Documents, NoDocument, Nobody, Done, Locks

\* Documents and chunks are replaced as one, however many ingestions of a source
\* run at once (replace_document): a search finds the current version and no other.
THEOREM IndexIsCurrent == Spec => []IndexMatches
<1>1. BaseInv => IndexMatches
  BY DEF BaseInv
<1> QED BY <1>1, BaseStart, BaseStep, PTL DEF Spec

\* A version counts the changes of a document: it goes up by one with every other
\* content, and only then.
THEOREM VersionsCount == Spec => VersionCountsChanges
<1> DEFINE Counts ==
      \A k \in Sources :
        docs'[k] # docs[k] => /\ docs'[k].version = docs[k].version + 1
                              /\ docs'[k].content # docs[k].content
<1>1. BaseInv /\ [Next]_vars => [Counts]_docs
  <2> SUFFICES ASSUME BaseInv, [Next]_vars, docs' # docs PROVE Counts
    OBVIOUS
  <2>1. PICK i \in Ingesters : CommitDocument(i)
    BY QueryTouchesNoBase
    DEF Next, BaseNext, QueryNext, Ingest, SelectDocument, KeepDocument, BeginWrite, RollBack,
        vars, baseVars
  <2> DEFINE k == ingest[i].source
             new == [version |-> docs[k].version + 1, content |-> ingest[i].content]
  <2>2. /\ k \in Sources /\ docs' = [docs EXCEPT ![k] = new]
        /\ docs[k].content # ingest[i].content
    BY <2>1, CommitFacts
  <2>3. new.version = docs[k].version + 1 /\ new.content = ingest[i].content
    OBVIOUS
  <2> HIDE DEF new
  <2>4. \A l \in Sources : docs'[l] = IF l = k THEN new ELSE docs[l]
    BY <2>2 DEF BaseInv, LockInv
  <2> QED BY <2>2, <2>3, <2>4
<1>2. Spec => []BaseInv
  BY BaseStart, BaseStep, PTL DEF Spec
<1> QED BY <1>1, <1>2, PTL DEF Spec, VersionCountsChanges

--------------------------------------------------------------------------------
\* No two versions of a document.
OneEach(found) == \A c, d \in found : c.source = d.source => c = d

Fields == {"pc", "id", "expands", "attempt", "retries", "found", "confident"}
AskHolds(x) ==
  \/ x = Quiet
  \/ DOMAIN x = Fields /\ (x.pc \in {"recording", "completing"} => OneEach(x.found))
AskInv ==
  /\ ask = [a \in Askers |-> ask[a]]
  /\ \A a \in Askers : AskHolds(ask[a])

LEMMA ChunksAreOneEach == BaseInv => OneEach(chunks)
<1> SUFFICES ASSUME BaseInv, NEW c \in chunks, NEW d \in chunks, c.source = d.source
             PROVE  c = d
  BY DEF OneEach
<1>1. c.source \in Sources
  BY DEF BaseInv, LockInv, AllChunks
<1>2. {c, d} \subseteq {e \in chunks : e.source = c.source}
  OBVIOUS
<1> QED BY <1>1, <1>2 DEF BaseInv, IndexMatches

LEMMA AskMoves ==
  ASSUME AskInv, NEW a \in Askers, NEW new, AskHolds(new), ask' = [ask EXCEPT ![a] = new]
  PROVE  AskInv'
<1>1. \A b \in Askers : ask'[b] = IF b = a THEN new ELSE ask[b]
  BY DEF AskInv
<1>2. ask' = [b \in Askers |-> ask'[b]]
  BY DEF AskInv
<1>3. \A b \in Askers : AskHolds(ask'[b])
  BY <1>1 DEF AskInv
<1> QED BY <1>2, <1>3 DEF AskInv, AskHolds, OneEach

LEMMA AskFields ==
  ASSUME AskInv, NEW a \in Askers, ask[a].pc # "idle"
  PROVE  /\ DOMAIN ask[a] = Fields
         /\ ask[a].pc \in {"recording", "completing"} => OneEach(ask[a].found)
BY DEF AskInv, AskHolds, Quiet

LEMMA AskUntouched ==
  ASSUME AskInv, UNCHANGED ask PROVE AskInv'
BY DEF AskInv, AskHolds, OneEach

LEMMA AskStep ==
  ASSUME AskInv, BaseInv, NEW a \in Askers,
         \/ CreateQuery(a) \/ VectorSearch(a) \/ TextSearch(a) \/ FetchRows(a)
         \/ RecordHits(a) \/ RefuseHits(a) \/ CompleteQuery(a)
         \/ QueryFails(a) \/ FailQuery(a) \/ Abandon(a)
  PROVE  AskInv'
<1>1. CASE CreateQuery(a)
  <2> DEFINE new(id, expands) ==
        [pc |-> "searching", id |-> id, expands |-> expands, attempt |-> 0, retries |-> 0,
         found |-> {}, confident |-> FALSE]
  <2>1. \E id, expands : ask' = [ask EXCEPT ![a] = new(id, expands)]
    BY <1>1 DEF CreateQuery
  <2>2. \A id, expands : AskHolds(new(id, expands))
    BY DEF AskHolds, Fields
  <2> HIDE DEF new
  <2> QED BY <2>1, <2>2, AskMoves
<1>2. CASE VectorSearch(a)
  <2> DEFINE new == [ask[a] EXCEPT !.pc = "matching", !.found = chunks]
  <2>1. ask' = [ask EXCEPT ![a] = new]
    BY <1>2 DEF VectorSearch, AskInv
  <2>2. DOMAIN ask[a] = Fields
    BY <1>2, AskFields DEF VectorSearch, Asking
  <2>3. AskHolds(new)
    BY <2>2 DEF AskHolds, Fields
  <2> HIDE DEF new
  <2> QED BY <2>1, <2>3, AskMoves
<1>3. CASE TextSearch(a)
  <2> DEFINE new(matching) == [ask[a] EXCEPT !.pc = "fetching", !.found = @ \cup matching]
  <2>1. DOMAIN ask[a] = Fields
    BY <1>3, AskFields DEF TextSearch, Asking
  <2>2. PICK matching : ask' = [ask EXCEPT ![a].pc = "fetching", ![a].found = @ \cup matching]
    BY <1>3 DEF TextSearch
  <2>3. ask' = [ask EXCEPT ![a] = new(matching)]
    BY <2>2 DEF AskInv
  <2>4. AskHolds(new(matching))
    <3>1. DOMAIN new(matching) = Fields /\ new(matching).pc = "fetching"
      BY <2>1 DEF Fields
    <3> HIDE DEF new
    <3> QED BY <3>1 DEF AskHolds
  <2> HIDE DEF new
  <2> QED BY <2>3, <2>4, AskMoves
<1>4. CASE FetchRows(a)
  <2> DEFINE found == RowsOf(ask[a].found)
             new(confident) == [ask[a] EXCEPT !.pc = "recording", !.found = found,
                                              !.confident = confident]
  <2>1. DOMAIN ask[a] = Fields
    BY <1>4, AskFields DEF FetchRows, Asking
  <2>2. PICK confident : ask' = [ask EXCEPT ![a].pc = "recording", ![a].found = found,
                                            ![a].confident = confident]
    BY <1>4 DEF FetchRows
  <2>3. ask' = [ask EXCEPT ![a] = new(confident)]
    BY <2>2 DEF AskInv
  <2>4. OneEach(found)
    BY ChunksAreOneEach DEF OneEach, RowsOf
  <2>5. DOMAIN new(confident) = Fields /\ new(confident).found = found
    BY <2>1 DEF Fields
  <2> HIDE DEF new, found
  <2>6. AskHolds(new(confident))
    BY <2>4, <2>5 DEF AskHolds
  <2> QED BY <2>3, <2>6, AskMoves
<1>5. CASE RecordHits(a)
  <2>1. DOMAIN ask[a] = Fields /\ OneEach(ask[a].found)
    BY <1>5, AskFields DEF RecordHits, Asking
  <2>2. AskHolds(Decided(a))
    <3>1. AskHolds([ask[a] EXCEPT !.pc = "completing"])
      BY <2>1 DEF AskHolds, Fields
    <3>2. AskHolds([ask[a] EXCEPT !.pc = "searching", !.attempt = @ + 1,
                                  !.retries = RetriesNow(a), !.found = {}])
      BY <2>1 DEF AskHolds, Fields
    <3>3. AskHolds([ask[a] EXCEPT !.pc = "completing", !.retries = RetriesNow(a)])
      BY <2>1 DEF AskHolds, Fields
    <3> QED BY <3>1, <3>2, <3>3 DEF Decided
  <2> QED BY <1>5, <2>2, AskMoves DEF RecordHits
<1>6. CASE RefuseHits(a) \/ QueryFails(a)
  <2> DEFINE new == [ask[a] EXCEPT !.pc = "failing"]
  <2>1. ask' = [ask EXCEPT ![a] = new]
    BY <1>6 DEF RefuseHits, QueryFails, AskInv
  <2>2. DOMAIN ask[a] = Fields
    BY <1>6, AskFields DEF RefuseHits, QueryFails, Trying, Asking
  <2>3. AskHolds(new)
    BY <2>2 DEF AskHolds, Fields
  <2> HIDE DEF new
  <2> QED BY <2>1, <2>3, AskMoves
<1>7. CASE CompleteQuery(a) \/ FailQuery(a) \/ Abandon(a)
  <2>1. ask' = [ask EXCEPT ![a] = Quiet] /\ AskHolds(Quiet)
    BY <1>7 DEF CompleteQuery, FailQuery, Abandon, AskHolds
  <2> QED BY <2>1, AskMoves
<1> QED BY <1>1, <1>2, <1>3, <1>4, <1>5, <1>6, <1>7

\* What a search hands to the answer holds no two versions of a document, however
\* often it was replaced between the search's statements (hybrid_search).
THEOREM SearchIsOneVersion == Spec => []OneVersionFound
<1>1. Init => AskInv
  BY DEF Init, QueryInit, AskInv, AskHolds
<1>2. BaseInv /\ AskInv /\ [Next]_vars => AskInv'
  <2> SUFFICES ASSUME BaseInv, AskInv, [Next]_vars PROVE AskInv'
    OBVIOUS
  <2>1. CASE QueryNext
    BY <2>1, AskStep DEF QueryNext
  <2>2. CASE UNCHANGED ask
    BY <2>2, AskUntouched
  <2> QED BY <2>1, <2>2 DEF Next, vars, queryVars
<1>3. AskInv => OneVersionFound
  BY DEF AskInv, AskHolds, OneVersionFound, OneEach, Quiet
<1> QED BY <1>1, <1>2, <1>3, BaseStart, BaseStep, PTL DEF Spec

--------------------------------------------------------------------------------
\* What the audit rests on.  The tables' rows and the requests of the queries ...
Running == [status |-> "running"]
Failed  == [status |-> "failed"]
ClosedRow == [status : {"success", "no_evidence"}, retries : 0..2, cited : SUBSET AllChunks]
RowType == {NoRow, Running, Failed} \cup ClosedRow
HitType == [query : RequestIds, chunk : AllChunks, attempt : 0..2, selected : BOOLEAN]
AskType == [pc : Trying \cup {"failing"}, id : RequestIds, expands : BOOLEAN,
            attempt : 0..2, retries : 0..2, found : SUBSET AllChunks, confident : BOOLEAN]

\* ... chunks of a version the document D has had: none of them will be written yet ...
Past(S, D) == \A c \in S : c.version <= D[c.source].version

\* ... a query counts its retries by its attempts and is confident of what it found ...
CountsTries(x) ==
  /\ x.attempt <= Retries /\ x.retries = x.attempt /\ (~x.expands => x.attempt = 0)
  /\ x.pc \in {"searching", "matching", "fetching"} => ~x.confident
  /\ x.confident => x.found # {}

\* ... the hits H of a query at work, among the chunks C: those of earlier attempts
\* are not selected; those of the last one are what it is going to cite ...
Audited(x, H, C) ==
  /\ \A h \in H : h.query = x.id =>
       /\ x.pc \in Trying \ {"completing"} => h.attempt < x.attempt /\ ~h.selected
       /\ x.pc = "completing" =>
            /\ h.attempt <= x.attempt
            /\ h.selected <=> x.confident /\ h.attempt = x.attempt /\ h.chunk \in x.found
  /\ x.pc = "completing" /\ x.confident =>
       \A c \in x.found \cap C : \E h \in H : h.query = x.id /\ h.chunk = c /\ h.selected

\* ... and those of a closed one are what it cited.
RowAudited(id, row, H, C) ==
  /\ \A h \in H : h.query = id =>
       /\ h.attempt <= row.retries
       /\ h.selected <=> h.chunk \in row.cited /\ h.attempt = row.retries
  /\ \A c \in row.cited \cap C : \E h \in H : h.query = id /\ h.chunk = c /\ h.selected
  /\ row.status = "success" <=> row.cited # {}

QueryInv ==
  /\ hits \subseteq HitType
  /\ \A h \in hits : h.chunk \in chunks /\ rows[h.query] # NoRow
  /\ rows \in [RequestIds -> RowType]
  /\ \A id \in RequestIds : rows[id] \in ClosedRow =>
       Past(rows[id].cited, docs) /\ RowAudited(id, rows[id], hits, chunks)
  /\ ask \in [Askers -> {Quiet} \cup AskType]
  /\ \A a \in Askers : ask[a] \in AskType =>
       /\ rows[ask[a].id] = Running
       /\ Past(ask[a].found, docs) /\ CountsTries(ask[a]) /\ Audited(ask[a], hits, chunks)
       /\ \A b \in Askers \ {a} : ask[b] \in AskType => ask[b].id # ask[a].id

LEMMA QuietAsks == Quiet \notin AskType
BY DEF Quiet, AskType, Trying

LEMMA RunningIsOpen ==
  /\ Running \in RowType /\ Failed \in RowType /\ NoRow \in RowType
  /\ Running # NoRow /\ Failed # NoRow
  /\ Running \notin ClosedRow /\ Failed \notin ClosedRow /\ NoRow \notin ClosedRow
<1>1. \A row \in ClosedRow : row.status \in {"success", "no_evidence"}
  BY DEF ClosedRow
<1>2. Running.status = "running" /\ Failed.status = "failed" /\ NoRow.status = "none"
  BY DEF Running, Failed, NoRow
<1> QED BY <1>1, <1>2 DEF RowType

\* What an ingestion does to the tables a query reads: versions grow, a new chunk
\* is of a later one, and hits go with their chunk and with nothing else.
BaseMoved ==
  /\ \A k \in Sources : /\ docs[k].version \in Nat /\ docs'[k].version \in Nat
                        /\ docs[k].version <= docs'[k].version
  /\ \A c \in chunks' \ chunks : docs[c.source].version < c.version
  /\ hits' = {h \in hits : h.chunk \in chunks'}

LEMMA IngestionReplaces ==
  ASSUME BaseInv, \A h \in hits : h.chunk \in chunks, BaseNext
  PROVE  BaseMoved
<1>typed. \A k \in Sources : docs[k].version \in Nat
  BY KnowledgeBaseAssumption DEF BaseInv, LockInv, Documents
<1>1. CASE UNCHANGED <<docs, chunks, hits>>
  BY <1>1, <1>typed DEF BaseMoved
<1>2. ASSUME NEW i \in Ingesters, CommitDocument(i)
      PROVE  BaseMoved
  <2> DEFINE k == ingest[i].source
             new == [version |-> docs[k].version + 1, content |-> ingest[i].content]
             old == IF ingest[i].saw = NoDocument THEN {} ELSE {c \in chunks : c.source = k}
  <2>1. /\ k \in Sources
        /\ docs' = [docs EXCEPT ![k] = new]
        /\ chunks' = {c \in chunks : c.source # k} \cup {Chunk(k, new)}
    BY <1>2, CommitFacts
  <2>2. ingest[i].saw = docs[k] /\ hits' = Cascade(old)
    BY <1>2 DEF CommitDocument, Ingesting, BaseInv, LockInv, Locks
  <2>3. {c \in chunks : c.source = k}
          = IF docs[k] = NoDocument THEN {} ELSE {Chunk(k, docs[k])}
    BY <2>1 DEF BaseInv, IndexMatches
  <2>4. new.version = docs[k].version + 1 /\ docs[k].version \in Nat
    BY <2>1, <1>typed
  <2>5. Chunk(k, new).version = docs[k].version + 1 /\ Chunk(k, new).source = k
        /\ Chunk(k, docs[k]).version = docs[k].version
    BY <2>4 DEF Chunk
  <2> HIDE DEF new
  <2>6. \A l \in Sources : docs'[l] = IF l = k THEN new ELSE docs[l]
    BY <2>1 DEF BaseInv, LockInv
  <2>7. \A l \in Sources : docs'[l].version \in Nat /\ docs[l].version <= docs'[l].version
    BY <2>4, <2>6, <1>typed
  <2>8. Chunk(k, new) \notin chunks
    <3> SUFFICES ASSUME Chunk(k, new) \in chunks PROVE FALSE
      OBVIOUS
    <3>1. Chunk(k, new) \in {c \in chunks : c.source = k}
      BY <2>5
    <3>2. Chunk(k, new) = Chunk(k, docs[k])
      BY <3>1, <2>3
    <3> QED BY <3>2, <2>4, <2>5
  <2>9. \A c \in chunks' \ chunks : docs[c.source].version < c.version
    BY <2>1, <2>4, <2>5
  <2>10. old = {c \in chunks : c.source = k}
    BY <2>2, <2>3
  <2> HIDE DEF old
  <2>11. \A h \in hits : h.chunk \notin old <=> h.chunk \in chunks'
    BY <2>1, <2>8, <2>10
  <2> QED BY <1>typed, <2>2, <2>7, <2>9, <2>11 DEF BaseMoved, Cascade
<1>3. \E i \in Ingesters : CommitDocument(i) \/ UNCHANGED <<docs, chunks, hits>>
  BY DEF BaseNext, Ingest, SelectDocument, KeepDocument, BeginWrite, RollBack
<1> QED BY <1>1, <1>2, <1>3

\* A chunk a query knows is not one of those to come.
LEMMA PastStays ==
  ASSUME BaseMoved, NEW S \in SUBSET AllChunks, Past(S, docs)
  PROVE  Past(S, docs') /\ S \cap chunks' \subseteq chunks
<1> SUFFICES ASSUME NEW c \in S
             PROVE  c.version <= docs'[c.source].version /\ (c \in chunks' => c \in chunks)
  BY DEF Past
<1>1. c.source \in Sources /\ c.version \in Int
  BY KnowledgeBaseAssumption DEF AllChunks
<1>2. c.version <= docs[c.source].version
  BY DEF Past
<1> QED BY <1>1, <1>2 DEF BaseMoved

\* Documents may be replaced at any time: the audit loses the hits of chunks that
\* are gone, and no others.
LEMMA IngestionKeepsAudit ==
  ASSUME QueryInv, BaseMoved, UNCHANGED queryVars
  PROVE  QueryInv'
<1>1. rows' = rows /\ ask' = ask
  BY DEF queryVars
<1>2. hits' \subseteq hits /\ \A h \in hits' : h.chunk \in chunks'
  BY DEF BaseMoved
<1>3. \A h \in hits : h.chunk \in chunks' => h \in hits'
  BY DEF BaseMoved
<1>4. ASSUME NEW id \in RequestIds, rows[id] \in ClosedRow
      PROVE  Past(rows[id].cited, docs') /\ RowAudited(id, rows[id], hits', chunks')
  <2>1. /\ Past(rows[id].cited, docs) /\ RowAudited(id, rows[id], hits, chunks)
        /\ rows[id].cited \in SUBSET AllChunks
    BY <1>4 DEF QueryInv, ClosedRow
  <2>2. Past(rows[id].cited, docs') /\ rows[id].cited \cap chunks' \subseteq chunks
    BY <2>1, PastStays
  <2>3. RowAudited(id, rows[id], hits', chunks')
    BY <2>1, <2>2, <1>2, <1>3 DEF RowAudited
  <2> QED BY <2>2, <2>3
<1>5. ASSUME NEW a \in Askers, ask[a] \in AskType
      PROVE  Past(ask[a].found, docs') /\ Audited(ask[a], hits', chunks')
  <2>1. /\ Past(ask[a].found, docs) /\ Audited(ask[a], hits, chunks)
        /\ ask[a].found \in SUBSET AllChunks
    BY <1>5 DEF QueryInv, AskType
  <2>2. Past(ask[a].found, docs') /\ ask[a].found \cap chunks' \subseteq chunks
    BY <2>1, PastStays
  <2>3. Audited(ask[a], hits', chunks')
    BY <2>1, <2>2, <1>2, <1>3 DEF Audited
  <2> QED BY <2>2, <2>3
<1> QED BY <1>1, <1>2, <1>4, <1>5 DEF QueryInv

LEMMA AskIs ==
  ASSUME QueryInv, NEW a \in Askers, ask[a].pc # "idle"
  PROVE  /\ ask[a] \in AskType /\ rows[ask[a].id] = Running
         /\ Past(ask[a].found, docs) /\ CountsTries(ask[a]) /\ Audited(ask[a], hits, chunks)
BY DEF QueryInv, Quiet

\* A query goes on.
LEMMA AskGoesOn ==
  ASSUME QueryInv, NEW a \in Askers, ask[a] \in AskType, NEW new \in AskType,
         ask' = [ask EXCEPT ![a] = new], new.id = ask[a].id,
         UNCHANGED <<docs, chunks, hits, rows>>,
         Past(new.found, docs), CountsTries(new), Audited(new, hits, chunks)
  PROVE  QueryInv'
<1>1. ask' \in [Askers -> {Quiet} \cup AskType]
      /\ \A b \in Askers : ask'[b] = IF b = a THEN new ELSE ask[b]
  BY DEF QueryInv
<1>2. ASSUME NEW b \in Askers, ask'[b] \in AskType
      PROVE  /\ rows[ask'[b].id] = Running
             /\ Past(ask'[b].found, docs) /\ CountsTries(ask'[b])
             /\ Audited(ask'[b], hits, chunks)
             /\ \A c \in Askers \ {b} : ask'[c] \in AskType => ask'[c].id # ask'[b].id
  BY <1>1, <1>2 DEF QueryInv
<1> QED BY <1>1, <1>2 DEF QueryInv

\* A query ends, with a row of its own that it closes or leaves.
LEMMA AskEnds ==
  ASSUME QueryInv, NEW a \in Askers, ask[a] \in AskType, NEW row \in RowType \ {NoRow},
         ask' = [ask EXCEPT ![a] = Quiet], rows' = [rows EXCEPT ![ask[a].id] = row],
         UNCHANGED <<docs, chunks, hits>>,
         row \in ClosedRow => Past(row.cited, docs) /\ RowAudited(ask[a].id, row, hits, chunks)
  PROVE  QueryInv'
<1>1. ask' \in [Askers -> {Quiet} \cup AskType]
      /\ \A b \in Askers : ask'[b] = IF b = a THEN Quiet ELSE ask[b]
  BY DEF QueryInv
<1>2. ask[a].id \in RequestIds
  BY DEF AskType
<1>3. rows' \in [RequestIds -> RowType]
      /\ \A id \in RequestIds : rows'[id] = IF id = ask[a].id THEN row ELSE rows[id]
  BY <1>2 DEF QueryInv
<1>4. \A h \in hits : rows'[h.query] # NoRow
  BY <1>3 DEF QueryInv, HitType
<1>5. ASSUME NEW id \in RequestIds, rows'[id] \in ClosedRow
      PROVE  Past(rows'[id].cited, docs) /\ RowAudited(id, rows'[id], hits, chunks)
  BY <1>3, <1>5 DEF QueryInv
<1>6. ASSUME NEW b \in Askers, ask'[b] \in AskType
      PROVE  /\ rows'[ask'[b].id] = Running
             /\ Past(ask'[b].found, docs) /\ CountsTries(ask'[b])
             /\ Audited(ask'[b], hits, chunks)
             /\ \A c \in Askers \ {b} : ask'[c] \in AskType => ask'[c].id # ask'[b].id
  <2>1. b # a /\ ask'[b] = ask[b]
    BY <1>1, <1>6, QuietAsks
  <2>2. ask[b].id \in RequestIds /\ ask[b].id # ask[a].id
    BY <1>6, <2>1 DEF QueryInv, AskType
  <2> QED BY <1>1, <1>3, <1>6, <2>1, <2>2, QuietAsks DEF QueryInv
<1> QED BY <1>1, <1>3, <1>4, <1>5, <1>6 DEF QueryInv

\* A request whose identifier was never used has no hits yet.
LEMMA CreateKeepsAudit ==
  ASSUME QueryInv, NEW a \in Askers, CreateQuery(a)
  PROVE  QueryInv'
<1>1. PICK id \in RequestIds, expands \in BOOLEAN :
        /\ rows[id] = NoRow
        /\ rows' = [rows EXCEPT ![id] = Running]
        /\ ask' = [ask EXCEPT ![a] = [pc |-> "searching", id |-> id, expands |-> expands,
                                      attempt |-> 0, retries |-> 0, found |-> {},
                                      confident |-> FALSE]]
  BY DEF CreateQuery, Running
<1> DEFINE new == [pc |-> "searching", id |-> id, expands |-> expands, attempt |-> 0,
                   retries |-> 0, found |-> {}, confident |-> FALSE]
<1>2. new \in AskType
  BY DEF AskType, Trying
<1>3. /\ new.id = id /\ new.pc = "searching" /\ new.found = {} /\ ~new.confident
      /\ new.attempt = 0 /\ new.retries = 0
  OBVIOUS
<1>4. ask' = [ask EXCEPT ![a] = new] /\ UNCHANGED <<docs, chunks, hits>>
  BY <1>1 DEF CreateQuery, baseVars
<1> HIDE DEF new
<1>5. ask' \in [Askers -> {Quiet} \cup AskType]
      /\ \A b \in Askers : ask'[b] = IF b = a THEN new ELSE ask[b]
  BY <1>2, <1>4 DEF QueryInv
<1>6. rows' \in [RequestIds -> RowType]
      /\ \A other \in RequestIds : rows'[other] = IF other = id THEN Running ELSE rows[other]
  BY <1>1, RunningIsOpen DEF QueryInv
<1>7. \A h \in hits : h.query # id /\ rows'[h.query] # NoRow
  BY <1>1, <1>6, RunningIsOpen DEF QueryInv, HitType
<1>8. Past(new.found, docs) /\ CountsTries(new) /\ Audited(new, hits, chunks)
  BY <1>3, <1>7, KnowledgeQueryAssumption DEF Past, CountsTries, Audited, Retries, Trying
<1>9. ASSUME NEW other \in RequestIds, rows'[other] \in ClosedRow
      PROVE  Past(rows'[other].cited, docs) /\ RowAudited(other, rows'[other], hits, chunks)
  BY <1>6, <1>9, RunningIsOpen DEF QueryInv
<1>10. ASSUME NEW b \in Askers \ {a}, ask[b] \in AskType
       PROVE  ask[b].id # id /\ ask[b].id \in RequestIds
  BY <1>1, <1>10, RunningIsOpen DEF QueryInv, AskType
<1>11. ASSUME NEW b \in Askers, ask'[b] \in AskType
       PROVE  /\ rows'[ask'[b].id] = Running
              /\ Past(ask'[b].found, docs) /\ CountsTries(ask'[b])
              /\ Audited(ask'[b], hits, chunks)
              /\ \A c \in Askers \ {b} : ask'[c] \in AskType => ask'[c].id # ask'[b].id
  <2>1. CASE b = a
    BY <2>1, <1>3, <1>5, <1>6, <1>8, <1>10
  <2>2. CASE b # a
    BY <2>2, <1>3, <1>5, <1>6, <1>10, <1>11 DEF QueryInv
  <2> QED BY <2>1, <2>2
<1> QED BY <1>4, <1>5, <1>6, <1>7, <1>9, <1>11 DEF QueryInv

\* The statements of a search, and its failures, record nothing.
LEMMA SearchKeepsAudit ==
  ASSUME QueryInv, BaseInv, NEW a \in Askers,
         VectorSearch(a) \/ TextSearch(a) \/ FetchRows(a) \/ RefuseHits(a) \/ QueryFails(a)
  PROVE  QueryInv'
<1>1. ask[a].pc \in Trying /\ ask[a].pc # "idle"
  BY DEF VectorSearch, TextSearch, FetchRows, RefuseHits, QueryFails, Asking, Trying
<1>2. /\ ask[a] \in AskType
      /\ Past(ask[a].found, docs) /\ CountsTries(ask[a]) /\ Audited(ask[a], hits, chunks)
  BY <1>1, AskIs
<1>3. UNCHANGED <<docs, chunks, hits, rows>>
  BY DEF VectorSearch, TextSearch, FetchRows, RefuseHits, QueryFails, baseVars
<1>chunks. chunks \in SUBSET AllChunks /\ Past(chunks, docs)
  <2>1. ASSUME NEW c \in chunks PROVE c.version <= docs[c.source].version
    <3>1. c.source \in Sources /\ c.version \in Int
      BY KnowledgeBaseAssumption DEF BaseInv, LockInv, AllChunks
    <3>2. c \in {d \in chunks : d.source = c.source}
      OBVIOUS
    <3>3. c = Chunk(c.source, docs[c.source])
      BY <3>1, <3>2 DEF BaseInv, IndexMatches
    <3>4. c.version = docs[c.source].version
      BY <3>3 DEF Chunk
    <3> QED BY <3>1, <3>4
  <2> QED BY <2>1 DEF Past, BaseInv, LockInv
<1>4. CASE VectorSearch(a)
  <2> DEFINE new == [ask[a] EXCEPT !.pc = "matching", !.found = chunks]
  <2>0. ask[a].pc = "searching"
    BY <1>4 DEF VectorSearch, Asking
  <2>1. ask' = [ask EXCEPT ![a] = new]
    BY <1>4 DEF VectorSearch, QueryInv
  <2>2. /\ new \in AskType /\ new.id = ask[a].id /\ new.found = chunks /\ new.pc = "matching"
        /\ new.confident = ask[a].confident /\ new.attempt = ask[a].attempt
        /\ new.retries = ask[a].retries /\ new.expands = ask[a].expands
    BY <1>2, <1>chunks DEF AskType, Trying
  <2> HIDE DEF new
  <2>3. Past(new.found, docs) /\ CountsTries(new) /\ Audited(new, hits, chunks)
    BY <1>2, <1>chunks, <2>0, <2>2 DEF CountsTries, Audited, Trying
  <2> QED BY <1>2, <1>3, <2>1, <2>2, <2>3, AskGoesOn
<1>5. CASE TextSearch(a)
  <2>0. ask[a].pc = "matching"
    BY <1>5 DEF TextSearch, Asking
  <2>1. PICK matching \in SUBSET chunks :
          ask' = [ask EXCEPT ![a].pc = "fetching", ![a].found = @ \cup matching]
    BY <1>5 DEF TextSearch
  <2> DEFINE both == ask[a].found \cup matching
             new == [ask[a] EXCEPT !.pc = "fetching", !.found = both]
  <2>2. ask' = [ask EXCEPT ![a] = new]
    BY <2>1 DEF QueryInv
  <2>3. both \in SUBSET AllChunks /\ Past(both, docs)
    BY <1>2, <1>chunks DEF Past, AskType
  <2> HIDE DEF both
  <2>4. /\ new \in AskType /\ new.id = ask[a].id /\ new.found = both /\ new.pc = "fetching"
        /\ new.confident = ask[a].confident /\ new.attempt = ask[a].attempt
        /\ new.retries = ask[a].retries /\ new.expands = ask[a].expands
    BY <1>2, <2>3 DEF AskType, Trying
  <2> HIDE DEF new
  <2>5. CountsTries(new) /\ Audited(new, hits, chunks)
    BY <1>2, <2>0, <2>4 DEF CountsTries, Audited, Trying
  <2> QED BY <1>2, <1>3, <2>2, <2>3, <2>4, <2>5, AskGoesOn
<1>6. CASE FetchRows(a)
  <2> DEFINE found == RowsOf(ask[a].found)
  <2>0. ask[a].pc = "fetching"
    BY <1>6 DEF FetchRows, Asking
  <2>1. PICK confident \in BOOLEAN :
          /\ confident => found # {}
          /\ ask' = [ask EXCEPT ![a].pc = "recording", ![a].found = found,
                                ![a].confident = confident]
    BY <1>6 DEF FetchRows
  <2> DEFINE new == [ask[a] EXCEPT !.pc = "recording", !.found = found,
                                   !.confident = confident]
  <2>2. ask' = [ask EXCEPT ![a] = new]
    BY <2>1 DEF QueryInv
  <2>3. found \in SUBSET AllChunks /\ Past(found, docs)
    BY <1>chunks DEF Past, RowsOf
  <2> HIDE DEF found
  <2>4. /\ new \in AskType /\ new.id = ask[a].id /\ new.found = found /\ new.pc = "recording"
        /\ new.confident = confident /\ new.attempt = ask[a].attempt
        /\ new.retries = ask[a].retries /\ new.expands = ask[a].expands
    BY <1>2, <2>3 DEF AskType, Trying
  <2> HIDE DEF new
  <2>5. CountsTries(new) /\ Audited(new, hits, chunks)
    BY <1>2, <2>0, <2>1, <2>4 DEF CountsTries, Audited, Trying
  <2> QED BY <1>2, <1>3, <2>2, <2>3, <2>4, <2>5, AskGoesOn
<1>7. CASE RefuseHits(a) \/ QueryFails(a)
  <2> DEFINE new == [ask[a] EXCEPT !.pc = "failing"]
  <2>1. ask' = [ask EXCEPT ![a] = new]
    BY <1>7 DEF RefuseHits, QueryFails, QueryInv
  <2>2. /\ new \in AskType /\ new.id = ask[a].id /\ new.found = ask[a].found
        /\ new.pc = "failing"
        /\ new.confident = ask[a].confident /\ new.attempt = ask[a].attempt
        /\ new.retries = ask[a].retries /\ new.expands = ask[a].expands
    BY <1>2 DEF AskType
  <2> HIDE DEF new
  <2>3. Past(new.found, docs) /\ CountsTries(new) /\ Audited(new, hits, chunks)
    BY <1>2, <2>2 DEF CountsTries, Audited, Trying
  <2> QED BY <1>2, <1>3, <2>1, <2>2, <2>3, AskGoesOn
<1> QED BY <1>4, <1>5, <1>6, <1>7

\* What Decided makes of a query whose hits are recorded: it is done, or it tries
\* once more with nothing found yet.
LEMMA DecidedIs ==
  ASSUME NEW a \in Askers, ask[a] \in AskType, ask[a].pc = "recording", CountsTries(ask[a])
  PROVE  LET new == Decided(a)
         IN  /\ new \in AskType /\ new.id = ask[a].id /\ CountsTries(new)
             /\ new.confident = ask[a].confident
             /\ \/ new.pc = "completing" /\ new.found = ask[a].found
                   /\ new.attempt = ask[a].attempt
                \/ new.pc = "searching" /\ new.found = {}
                   /\ new.attempt = ask[a].attempt + 1 /\ ~new.confident
<1>retries. Retries \in 0..2
  BY KnowledgeQueryAssumption DEF Retries
<1>x. /\ ask[a].attempt \in 0..2 /\ ask[a].retries = ask[a].attempt
      /\ ask[a].attempt <= Retries /\ (~ask[a].expands => ask[a].attempt = 0)
      /\ ask[a].confident \in BOOLEAN /\ ask[a].expands \in BOOLEAN
      /\ ask[a].confident => ask[a].found # {}
  BY DEF AskType, CountsTries
<1>1. CASE ask[a].confident \/ ask[a].attempt >= Retries
  <2> DEFINE new == [ask[a] EXCEPT !.pc = "completing"]
  <2>1. Decided(a) = new
    BY <1>1 DEF Decided
  <2>2. /\ new \in AskType /\ new.id = ask[a].id /\ new.found = ask[a].found
        /\ new.pc = "completing"
        /\ new.confident = ask[a].confident /\ new.attempt = ask[a].attempt
        /\ new.retries = ask[a].retries /\ new.expands = ask[a].expands
    BY DEF AskType, Trying
  <2> HIDE DEF new
  <2> QED BY <1>x, <2>1, <2>2 DEF CountsTries
<1>2. CASE ~(ask[a].confident \/ ask[a].attempt >= Retries) /\ ask[a].expands
  <2> DEFINE new == [ask[a] EXCEPT !.pc = "searching", !.attempt = ask[a].attempt + 1,
                                   !.retries = ask[a].attempt + 1, !.found = {}]
  <2>1. Decided(a) = new
    BY <1>2 DEF Decided, RetriesNow
  <2>0. ask[a].attempt + 1 \in 0..2
    BY <1>2, <1>x, <1>retries
  <2>2. /\ new \in AskType /\ new.id = ask[a].id /\ new.found = {}
        /\ new.pc = "searching"
        /\ new.confident = ask[a].confident /\ new.attempt = ask[a].attempt + 1
        /\ new.retries = ask[a].attempt + 1 /\ new.expands = ask[a].expands
    BY <2>0 DEF AskType, Trying
  <2> HIDE DEF new
  <2> QED BY <1>x, <1>2, <1>retries, <2>1, <2>2 DEF CountsTries
<1>3. CASE ~(ask[a].confident \/ ask[a].attempt >= Retries) /\ ~ask[a].expands
  <2> DEFINE new == [ask[a] EXCEPT !.pc = "completing", !.retries = ask[a].retries]
  <2>1. Decided(a) = new
    BY <1>3 DEF Decided, RetriesNow
  <2>2. /\ new \in AskType /\ new.id = ask[a].id /\ new.found = ask[a].found
        /\ new.pc = "completing"
        /\ new.confident = ask[a].confident /\ new.attempt = ask[a].attempt
        /\ new.retries = ask[a].retries /\ new.expands = ask[a].expands
    BY DEF AskType, Trying
  <2> HIDE DEF new
  <2> QED BY <1>x, <2>1, <2>2 DEF CountsTries
<1> QED BY <1>1, <1>2, <1>3

\* record_hits: the foreign key sees to it that the chunks are there.
LEMMA RecordKeepsAudit ==
  ASSUME QueryInv, NEW a \in Askers, RecordHits(a)
  PROVE  QueryInv'
<1> DEFINE x == ask[a]
           new == Decided(a)
           fresh == HitsOf(a)
<1>1. ask[a].pc = "recording" /\ ask[a].pc # "idle"
  BY DEF RecordHits, Asking
<1>2. /\ x \in AskType /\ rows[x.id] = Running
      /\ Past(x.found, docs) /\ CountsTries(x) /\ Audited(x, hits, chunks)
  BY <1>1, AskIs
<1>3. /\ new \in AskType /\ new.id = x.id /\ CountsTries(new) /\ new.confident = x.confident
      /\ \/ new.pc = "completing" /\ new.found = x.found /\ new.attempt = x.attempt
         \/ new.pc = "searching" /\ new.found = {} /\ new.attempt = x.attempt + 1
            /\ ~new.confident
  BY <1>1, <1>2, DecidedIs
<1>4. /\ ask' = [ask EXCEPT ![a] = new] /\ hits' = hits \cup fresh
      /\ x.found \subseteq chunks /\ UNCHANGED <<docs, chunks, rows>>
  BY DEF RecordHits, baseVars
<1>5. /\ x.id \in RequestIds /\ x.attempt \in 0..2 /\ x.confident \in BOOLEAN
      /\ x.found \in SUBSET AllChunks
  BY <1>2 DEF AskType
<1>6. \A h \in fresh : /\ h \in HitType /\ h.query = x.id /\ h.attempt = x.attempt
                       /\ h.selected = x.confident /\ h.chunk \in x.found
  BY <1>5 DEF HitsOf, HitType
<1>7. \A c \in x.found : \E h \in fresh :
        h.query = x.id /\ h.chunk = c /\ h.selected = x.confident
  <2> SUFFICES ASSUME NEW c \in x.found
               PROVE  \E h \in fresh : h.query = x.id /\ h.chunk = c /\ h.selected = x.confident
    OBVIOUS
  <2> DEFINE h == [query |-> x.id, chunk |-> c, attempt |-> x.attempt,
                   selected |-> x.confident]
  <2>1. h \in fresh /\ h.query = x.id /\ h.chunk = c /\ h.selected = x.confident
    BY DEF HitsOf
  <2> HIDE DEF h
  <2> QED BY <2>1
<1> HIDE DEF x, new, fresh
<1>x. ask[a] = x
  BY DEF x
<1>8. Past(new.found, docs)
  BY <1>2, <1>3 DEF Past
<1>9. Audited(new, hits', chunks)
  <2>1. \A h \in hits : h.query = x.id => h.attempt < x.attempt /\ h.attempt \in 0..2 /\ ~h.selected
    BY <1>1, <1>2, <1>x DEF Audited, Trying, QueryInv, HitType
  <2>2. CASE new.pc = "completing" /\ new.found = x.found /\ new.attempt = x.attempt
    <3>1. ASSUME NEW h \in hits', h.query = x.id
          PROVE  /\ h.attempt <= new.attempt
                 /\ h.selected <=> new.confident /\ h.attempt = new.attempt
                                   /\ h.chunk \in new.found
      <4>1. CASE h \in hits
        BY <1>5, <2>1, <2>2, <3>1, <4>1
      <4>2. CASE h \in fresh
        BY <1>3, <1>5, <1>6, <2>2, <4>2
      <4> QED BY <1>4, <4>1, <4>2
    <3>2. new.confident => \A c \in new.found :
            \E h \in hits' : h.query = x.id /\ h.chunk = c /\ h.selected
      BY <1>3, <1>4, <1>7, <2>2
    <3> QED BY <1>3, <2>2, <3>1, <3>2 DEF Audited
  <2>3. CASE new.pc = "searching" /\ new.attempt = x.attempt + 1 /\ ~new.confident
    <3>1. ASSUME NEW h \in hits', h.query = x.id
          PROVE  h.attempt < new.attempt /\ ~h.selected
      <4>1. CASE h \in hits
        BY <1>5, <2>1, <2>3, <3>1, <4>1
      <4>2. CASE h \in fresh
        BY <1>3, <1>5, <1>6, <2>3, <4>2
      <4> QED BY <1>4, <4>1, <4>2
    <3> QED BY <1>3, <2>3, <3>1 DEF Audited
  <2> QED BY <1>3, <2>2, <2>3
<1>10. hits' \subseteq HitType /\ \A h \in hits' : h.chunk \in chunks /\ rows[h.query] # NoRow
  BY <1>2, <1>4, <1>6, RunningIsOpen DEF QueryInv
<1>11. ask' \in [Askers -> {Quiet} \cup AskType]
       /\ \A b \in Askers : ask'[b] = IF b = a THEN new ELSE ask[b]
  BY <1>3, <1>4 DEF QueryInv
<1>12. ASSUME NEW id \in RequestIds, rows[id] \in ClosedRow
       PROVE  Past(rows[id].cited, docs) /\ RowAudited(id, rows[id], hits', chunks)
  <2>1. id # x.id
    BY <1>2, <1>12, RunningIsOpen
  <2>2. \A h \in hits' : h.query = id => h \in hits
    BY <1>4, <1>6, <2>1
  <2>3. Past(rows[id].cited, docs) /\ RowAudited(id, rows[id], hits, chunks)
    BY <1>12 DEF QueryInv
  <2>4. hits \subseteq hits'
    BY <1>4
  <2> QED BY <2>2, <2>3, <2>4 DEF RowAudited
<1>13. ASSUME NEW b \in Askers, ask'[b] \in AskType
       PROVE  /\ rows[ask'[b].id] = Running
              /\ Past(ask'[b].found, docs) /\ CountsTries(ask'[b])
              /\ Audited(ask'[b], hits', chunks)
              /\ \A c \in Askers \ {b} : ask'[c] \in AskType => ask'[c].id # ask'[b].id
  <2>1. CASE b = a
    BY <2>1, <1>2, <1>3, <1>8, <1>9, <1>11, <1>x DEF QueryInv
  <2>2. CASE b # a
    <3>1. /\ ask'[b] = ask[b] /\ ask[b] \in AskType /\ ask[b].id # x.id
      BY <2>2, <1>2, <1>11, <1>13, <1>x DEF QueryInv
    <3>2. \A h \in hits' : h.query = ask[b].id => h \in hits
      BY <1>4, <1>6, <3>1
    <3>3. /\ rows[ask[b].id] = Running /\ Past(ask[b].found, docs) /\ CountsTries(ask[b])
          /\ Audited(ask[b], hits, chunks)
      BY <3>1 DEF QueryInv
    <3>4. hits \subseteq hits'
      BY <1>4
    <3>5. Audited(ask[b], hits', chunks)
      BY <3>2, <3>3, <3>4 DEF Audited
    <3>6. \A c \in Askers \ {b} : ask'[c] \in AskType => ask'[c].id # ask'[b].id
      BY <2>2, <3>1, <1>3, <1>11 DEF QueryInv
    <3> QED BY <3>1, <3>3, <3>5, <3>6
  <2> QED BY <2>1, <2>2
<1> QED BY <1>4, <1>10, <1>11, <1>12, <1>13 DEF QueryInv

\* The row is closed with what was found, closed as failed, or left running.
LEMMA CloseKeepsAudit ==
  ASSUME QueryInv, NEW a \in Askers, CompleteQuery(a) \/ FailQuery(a) \/ Abandon(a)
  PROVE  QueryInv'
<1>1. ask[a].pc # "idle"
  BY DEF CompleteQuery, FailQuery, Abandon, Asking, Trying
<1>2. /\ ask[a] \in AskType /\ rows[ask[a].id] = Running
      /\ Past(ask[a].found, docs) /\ CountsTries(ask[a]) /\ Audited(ask[a], hits, chunks)
  BY <1>1, AskIs
<1>3. ask' = [ask EXCEPT ![a] = Quiet] /\ UNCHANGED <<docs, chunks, hits>>
  BY DEF CompleteQuery, FailQuery, Abandon, baseVars
<1>4. CASE CompleteQuery(a)
  <2> DEFINE row == [status |-> IF ask[a].confident THEN "success" ELSE "no_evidence",
                     retries |-> ask[a].retries,
                     cited |-> IF ask[a].confident THEN ask[a].found ELSE {}]
  <2>1. rows' = [rows EXCEPT ![ask[a].id] = row] /\ ask[a].pc = "completing"
    BY <1>4 DEF CompleteQuery, Asking
  <2>2. row \in ClosedRow
    BY <1>2 DEF ClosedRow, AskType
  <2>3. /\ row.status = IF ask[a].confident THEN "success" ELSE "no_evidence"
        /\ row.retries = ask[a].attempt
        /\ row.cited = IF ask[a].confident THEN ask[a].found ELSE {}
    BY <1>2 DEF CountsTries
  <2> HIDE DEF row
  <2>4. Past(row.cited, docs)
    BY <1>2, <2>3 DEF Past
  <2>5. RowAudited(ask[a].id, row, hits, chunks)
    <3>1. ask[a].confident \in BOOLEAN /\ (ask[a].confident => ask[a].found # {})
      BY <1>2 DEF AskType, CountsTries
    <3>2. CASE ask[a].confident
      BY <1>2, <2>1, <2>3, <3>1, <3>2 DEF RowAudited, Audited
    <3>3. CASE ~ask[a].confident
      BY <1>2, <2>1, <2>3, <3>1, <3>3 DEF RowAudited, Audited
    <3> QED BY <3>2, <3>3
  <2>6. row \in RowType \ {NoRow}
    BY <2>2, RunningIsOpen DEF RowType
  <2> QED BY <1>2, <1>3, <2>1, <2>4, <2>5, <2>6, AskEnds
<1>5. CASE FailQuery(a)
  <2>1. rows' = [rows EXCEPT ![ask[a].id] = Failed]
    BY <1>5 DEF FailQuery, Failed
  <2>2. Failed \in RowType \ {NoRow} /\ Failed \notin ClosedRow
    BY RunningIsOpen
  <2> QED BY <1>2, <1>3, <2>1, <2>2, AskEnds
<1>6. CASE Abandon(a)
  <2>1. rows' = [rows EXCEPT ![ask[a].id] = Running]
    BY <1>2, <1>6 DEF Abandon, QueryInv
  <2>2. Running \in RowType \ {NoRow} /\ Running \notin ClosedRow
    BY RunningIsOpen
  <2> QED BY <1>2, <1>3, <2>1, <2>2, AskEnds
<1> QED BY <1>4, <1>5, <1>6

LEMMA AuditStep == BaseInv /\ QueryInv /\ [Next]_vars => QueryInv'
<1> SUFFICES ASSUME BaseInv, QueryInv, [Next]_vars PROVE QueryInv'
  OBVIOUS
<1>1. CASE BaseNext /\ UNCHANGED queryVars
  <2>1. BaseMoved
    BY <1>1, IngestionReplaces DEF QueryInv
  <2> QED BY <1>1, <2>1, IngestionKeepsAudit
<1>2. CASE QueryNext
  BY <1>2, CreateKeepsAudit, SearchKeepsAudit, RecordKeepsAudit, CloseKeepsAudit DEF QueryNext
<1>3. CASE UNCHANGED vars
  BY <1>3 DEF vars, baseVars, queryVars, QueryInv
<1> QED BY <1>1, <1>2, <1>3 DEF Next

LEMMA AuditStart == Init => QueryInv
<1> SUFFICES ASSUME Init PROVE QueryInv
  OBVIOUS
<1>1. \A id \in RequestIds : rows[id] = NoRow
  BY DEF Init, QueryInit
<1>2. \A a \in Askers : ask[a] = Quiet
  BY DEF Init, QueryInit
<1>3. rows \in [RequestIds -> RowType] /\ ask \in [Askers -> {Quiet} \cup AskType] /\ hits = {}
  BY RunningIsOpen DEF Init, QueryInit
<1> QED BY <1>1, <1>2, <1>3, RunningIsOpen, QuietAsks DEF QueryInv

\* What KnowledgeService closes a query with is what rag_hits shows of it: the hits
\* selected in the last attempt are the chunks it cited that still exist, whichever
\* documents are replaced before, between and after its statements.
THEOREM AuditIsFaithful == Spec => []AuditSupportsAnswer
<1>1. QueryInv => AuditSupportsAnswer
  <2> SUFFICES ASSUME QueryInv PROVE AuditSupportsAnswer
    OBVIOUS
  <2>1. ASSUME NEW a \in Askers, Asking(a, "completing")
        PROVE  ask[a].retries = ask[a].attempt
    BY <2>1, AskIs DEF Asking, CountsTries
  <2>2. ASSUME NEW id \in RequestIds, rows[id].status \in {"success", "no_evidence"}
        PROVE  /\ rows[id].retries <= 2
               /\ RowAudited(id, rows[id], hits, chunks)
    <3>1. rows[id] \in ClosedRow
      BY <2>2 DEF QueryInv, RowType, NoRow, Running, Failed
    <3> QED BY <3>1 DEF QueryInv, ClosedRow
  <2> QED BY <2>1, <2>2 DEF AuditSupportsAnswer, RowAudited
<1> QED BY <1>1, AuditStart, AuditStep, BaseStart, BaseStep, PTL DEF Spec

\* Types, and the foreign keys of rag_hits: every hit's chunk and query exist.
THEOREM KnowledgeTyped == Spec => []TypeOK
<1>1. BaseInv /\ QueryInv => TypeOK
  <2> SUFFICES ASSUME BaseInv, QueryInv PROVE TypeOK
    OBVIOUS
  <2>1. \A id \in RequestIds :
          rows[id].status \in {"none", "running", "success", "no_evidence", "failed"}
    BY DEF QueryInv, RowType, NoRow, Running, Failed, ClosedRow
  <2>2. BaseTypeOK
    BY DEF BaseInv, LockInv, BaseTypeOK
  <2>3. \A h \in hits : h.chunk \in chunks /\ rows[h.query] # NoRow /\ h.attempt \in 0..2
    BY DEF QueryInv, HitType
  <2> QED BY <2>1, <2>2, <2>3 DEF TypeOK
<1> QED BY <1>1, AuditStart, AuditStep, BaseStart, BaseStep, PTL DEF Spec
================================================================================

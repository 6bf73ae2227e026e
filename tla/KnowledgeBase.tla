------------------------------ MODULE KnowledgeBase ----------------------------
(***************************************************************************)
(* The documents and chunks tables and what writes them: an administrator's *)
(* POST /knowledge/documents/ingest or the command line, through           *)
(* DocumentIngestionService and replace_document.  Any number of them run  *)
(* at once, each in its own transaction at READ COMMITTED.                 *)
(*                                                                         *)
(* A document's chunks come and go together, so one stands for them all;   *)
(* its identifiers are new with every version.                             *)
(***************************************************************************)
EXTENDS Integers, FiniteSets

CONSTANTS Ingesters,
          Sources,        \* source keys
          Contents,       \* a document's bytes and its indexing, by their checksum
          MaxVersion      \* bound on a document's version

ASSUME KnowledgeBaseAssumption == MaxVersion \in Nat \ {0} /\ "nobody" \notin Ingesters

VARIABLES docs,     \* docs[k] : the committed document of source key k
          chunks,   \* the committed chunks
          hits,     \* rag_hits, whose rows go with their chunk
          ingest,   \* ingest[i] : where the ingestion of i is
          owner     \* owner[k] : the transaction that holds the row or the key k

baseVars == <<docs, chunks, ingest, owner>>

NoDocument == [version |-> 0, content |-> "none"]
Nobody == "nobody"
Done == [pc |-> "idle"]
Chunk(k, document) == [source |-> k, version |-> document.version, content |-> document.content]

BaseInit ==
  /\ docs = [k \in Sources |-> NoDocument]
  /\ chunks = {}
  /\ ingest = [i \in Ingesters |-> Done]
  /\ owner = [k \in Sources |-> Nobody]

Ingesting(i, pc) == ingest[i].pc = pc
Holds(i, k) == owner' = [owner EXCEPT ![k] = i]
Releases(i) == owner' = [k \in Sources |-> IF owner[k] = i THEN Nobody ELSE owner[k]]
Free(k) == owner[k] = Nobody

\* Parsing, chunking and embedding come before the transaction.  (A document
\* without text, or an embedding that fails, changes nothing.)
Ingest(i) ==
  /\ Ingesting(i, "idle")
  /\ \E k \in Sources, c \in Contents :
       ingest' = [ingest EXCEPT ![i] = [pc |-> "embedded", source |-> k, content |-> c]]
  /\ UNCHANGED <<docs, chunks, owner, hits>>

\* SELECT ... FOR UPDATE by source_key: the row, once no other transaction has
\* it; no lock when there is none.
SelectDocument_NoLock(i) ==                                            \* fault
  LET k == ingest[i].source
  IN  /\ Ingesting(i, "embedded")
      /\ ingest' = [ingest EXCEPT ![i] = [pc |-> "selected", source |-> k, saw |-> docs[k],
                                          content |-> ingest[i].content]]
      /\ UNCHANGED <<docs, chunks, owner, hits>>
SelectDocument(i) ==
  LET k == ingest[i].source
  IN  /\ Ingesting(i, "embedded")
      /\ docs[k] # NoDocument => Free(k)
      /\ ingest' = [ingest EXCEPT ![i] = [pc |-> "selected", source |-> k, saw |-> docs[k],
                                          content |-> ingest[i].content]]
      /\ IF docs[k] # NoDocument THEN Holds(i, k) ELSE UNCHANGED owner
      /\ UNCHANGED <<docs, chunks, hits>>

\* The same checksum: only titles and metadata are written.
KeepDocument(i) ==
  /\ Ingesting(i, "selected")
  /\ ingest[i].saw.content = ingest[i].content
  /\ ingest' = [ingest EXCEPT ![i] = Done]
  /\ Releases(i)
  /\ UNCHANGED <<docs, chunks, hits>>

\* Another: the chunks are deleted, or a first document is inserted, which waits
\* for, and then fails on, a transaction that inserts the same key.
KeyIsNew_Always(i) == TRUE                                             \* fault
KeyIsNew(i) == docs[ingest[i].source] = NoDocument
BeginWrite(i) ==
  LET k == ingest[i].source
  IN  /\ Ingesting(i, "selected")
      /\ ingest[i].saw.content # ingest[i].content
      /\ ingest[i].saw.version < MaxVersion
      /\ \/ /\ ingest[i].saw # NoDocument
            /\ UNCHANGED owner
         \/ /\ ingest[i].saw = NoDocument
            /\ Free(k) /\ KeyIsNew(i)
            /\ Holds(i, k)
      /\ ingest' = [ingest EXCEPT ![i].pc = "writing"]
      /\ UNCHANGED <<docs, chunks, hits>>

\* The new chunks, and the commit of it all.  The foreign key's cascade takes the
\* hits of the chunks deleted.
Cascade_None(deleted) == hits                                          \* fault
Cascade(deleted) == {h \in hits : h.chunk \notin deleted}
CommitDocument(i) ==
  LET k   == ingest[i].source
      new == [version |-> ingest[i].saw.version + 1, content |-> ingest[i].content]
      old == IF ingest[i].saw = NoDocument THEN {} ELSE {c \in chunks : c.source = k}
  IN  /\ Ingesting(i, "writing")
      /\ docs' = [docs EXCEPT ![k] = new]
      /\ chunks' = (chunks \ old) \cup {Chunk(k, new)}
      /\ hits' = Cascade(old)
      /\ ingest' = [ingest EXCEPT ![i] = Done]
      /\ Releases(i)

\* A statement fails, the key's unique index refuses the row, or the process is
\* gone: the transaction is rolled back.
RollBack(i) ==
  /\ ingest[i].pc \in {"selected", "writing"}
  /\ ingest' = [ingest EXCEPT ![i] = Done]
  /\ Releases(i)
  /\ UNCHANGED <<docs, chunks, hits>>

BaseNext ==
  \E i \in Ingesters :
    \/ Ingest(i) \/ SelectDocument(i) \/ KeepDocument(i)
    \/ BeginWrite(i) \/ CommitDocument(i) \/ RollBack(i)

\* A chunk that an open transaction has deleted: who refers to it has to wait.
BeingReplaced(c) ==
  \E i \in Ingesters :
    Ingesting(i, "writing") /\ ingest[i].source = c.source /\ ingest[i].saw # NoDocument

--------------------------------------------------------------------------------
Documents == [version : 0..MaxVersion, content : Contents \cup {"none"}]
AllChunks == [source : Sources, version : 1..MaxVersion, content : Contents]

BaseTypeOK ==
  /\ docs \in [Sources -> Documents]
  /\ chunks \subseteq AllChunks
  /\ owner \in [Sources -> Ingesters \cup {Nobody}]

\* docs/phase-3-architecture.md:17: documents and chunks are replaced as one; what
\* is searched is the document's current version, whole, and nothing else.
IndexMatches ==
  \A k \in Sources :
    {c \in chunks : c.source = k} = IF docs[k] = NoDocument THEN {} ELSE {Chunk(k, docs[k])}

\* docs/phase-3-architecture.md:22: the version goes up, by one, when and only when
\* a document's contents change, whoever ingests it at the same time.
VersionCountsChanges ==
  [][\A k \in Sources :
       docs'[k] # docs[k] => /\ docs'[k].version = docs[k].version + 1
                             /\ docs'[k].content # docs[k].content]_docs
================================================================================

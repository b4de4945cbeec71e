--------------------------- MODULE LocalKnowledge ---------------------------
(***************************************************************************)
(* The local (SQLite) knowledge bases and the queries over them.           *)
(*                                                                         *)
(* An import creates a document with one version and a task; its handler   *)
(* stores chunks and vectors, finalises the full text rows and activates   *)
(* the version.  Deleting cascades over the tables, but the full text rows *)
(* are a virtual table no foreign key reaches.  A query is a sequence of   *)
(* separate statements with two awaits among them, and the commands that   *)
(* import, merge and delete run between any two of them.                   *)
(***************************************************************************)
EXTENDS Naturals, FiniteSets

CONSTANTS LkBases,
          LkMaxDocs

VARIABLES kb,            \* per base: "none", "live" or "deleted"
          localDocs,     \* the documents, each with its one version
          ftsRows,       \* documents with rows in knowledge_chunks_fts
          lquery,        \* the query at work
          audits         \* the retrieval_audits row of the last query, until
                         \* the next one begins

lkVars == <<kb, localDocs, ftsRows, lquery, audits>>

LkDocs == 1..LkMaxDocs

LkStages == {"pending", "embedded", "indexed", "active"}

NoDoc == [stage |-> "none", base |-> "none", task |-> "none"]
NoQuery == [at |-> "idle", bases |-> {}, gone |-> {},
            snapshot |-> {}, allowed |-> {}, lexical |-> {}, hits |-> {}]
NoAudits == [evidence |-> {}, bases |-> {}, gone |-> {}]

LkInit ==
    /\ kb = [b \in LkBases |-> "none"]
    /\ localDocs = [d \in LkDocs |-> NoDoc]
    /\ ftsRows = {}
    /\ lquery = NoQuery
    /\ audits = NoAudits

Present(d) == localDocs[d].stage \in LkStages
InBases(bases) == {d \in LkDocs : Present(d) /\ localDocs[d].base \in bases}
Vectors == {d \in LkDocs : localDocs[d].stage \in {"embedded", "indexed", "active"}}
ActiveIn(bases) == {d \in InBases(bases) : localDocs[d].stage = "active"}

\* The next rows a transaction inserts, in order.
FreshLocalDocs(n) == {d \in LkDocs : /\ localDocs[d] = NoDoc
                                /\ Cardinality({e \in LkDocs : e <= d /\ localDocs[e] = NoDoc}) <= n}

----------------------------------------------------------------------------
(* Commands and the ingestion handler.                                     *)

Catalog == UNCHANGED <<lquery, audits>>

CreateKnowledgeBase(b) ==
    /\ kb[b] = "none"
    /\ kb' = [kb EXCEPT ![b] = "live"]
    /\ UNCHANGED <<localDocs, ftsRows>> /\ Catalog

\* queue_document_import: the base, when the request names a new one, the
\* document, its pending version, the task and the attempt in one transaction.
queue_document_import(b) ==
    /\ kb[b] \in {"none", "live"}
    /\ \E d \in FreshLocalDocs(1) :
          localDocs' = [localDocs EXCEPT ![d] = [stage |-> "pending", base |-> b, task |-> "open"]]
    /\ kb' = [kb EXCEPT ![b] = "live"]
    /\ UNCHANGED ftsRows /\ Catalog

\* A handler whose task has ended may still write; the foreign keys refuse
\* it once the document is gone.
StoreContent(d) ==
    /\ localDocs[d].stage = "pending" /\ localDocs[d].task # "none"
    /\ localDocs' = [localDocs EXCEPT ![d].stage = "embedded"]
    /\ UNCHANGED <<kb, ftsRows>> /\ Catalog

\* finalize_flat_index replaces the version's full text rows.
FinalizeRows(d) ==
    /\ localDocs[d].stage = "embedded" /\ localDocs[d].task # "none"
    /\ localDocs' = [localDocs EXCEPT ![d].stage = "indexed"]
    /\ ftsRows' = ftsRows \cup {d}
    /\ UNCHANGED kb /\ Catalog

ActivateDocument(d) ==
    /\ localDocs[d].stage = "indexed" /\ localDocs[d].task = "open"
    /\ localDocs' = [localDocs EXCEPT ![d].stage = "active", ![d].task = "ended"]
    /\ UNCHANGED <<kb, ftsRows>> /\ Catalog

\* The task fails or is cancelled; a user may retry it later.
EndImport(d) ==
    /\ localDocs[d].task = "open"
    /\ localDocs' = [localDocs EXCEPT ![d].task = "ended"]
    /\ UNCHANGED <<kb, ftsRows>> /\ Catalog

RetryImport(d) ==
    /\ localDocs[d].task = "ended" /\ localDocs[d].stage \in LkStages \ {"active"}
    /\ localDocs' = [localDocs EXCEPT ![d].task = "open"]
    /\ UNCHANGED <<kb, ftsRows>> /\ Catalog

\* delete_knowledge_document refuses while a task of the document is active.  The
\* code asks before it opens the transaction that deletes; here both are one step.
DeleteLocalDocument(d) ==
    /\ Present(d) /\ localDocs[d].task # "open"
    /\ localDocs' = [localDocs EXCEPT ![d].stage = "deleted"]
    /\ ftsRows' = ftsRows \ {d}
    /\ UNCHANGED kb /\ Catalog

\* delete_knowledge_base_confirmed leaves the full text rows behind.
DeleteKnowledgeBase(b) ==
    /\ kb[b] = "live"
    /\ \A d \in InBases({b}) : localDocs[d].task # "open"
    /\ kb' = [kb EXCEPT ![b] = "deleted"]
    /\ localDocs' = [d \in LkDocs |-> IF d \in InBases({b})
                                 THEN [localDocs[d] EXCEPT !.stage = "deleted"]
                                 ELSE localDocs[d]]
    /\ UNCHANGED ftsRows /\ Catalog

\* The content of the copied versions and their full text rows.
copy_version_content(copied) ==
    ftsRows' = ftsRows \cup {d \in DOMAIN copied : copied[d] \in ftsRows}

\* The copies of merge_knowledge_bases, in the order of their sources: an
\* active version stays active, no task follows.
copy_document(sources, fresh, target) ==
    \E copied \in [fresh -> sources] :
        /\ sources = {copied[d] : d \in fresh}
        /\ \A d, e \in fresh : d < e => copied[d] < copied[e]
        /\ localDocs' = [d \in LkDocs |->
                            IF d \in fresh
                            THEN [localDocs[copied[d]] EXCEPT !.base = target, !.task = "none"]
                            ELSE localDocs[d]]
        /\ copy_version_content(copied)

\* Into the existing target, or copies of both bases into a new one.
MergeKnowledgeBases(source, target, new) ==
    LET sources == InBases(IF new = target THEN {source} ELSE {source, target})
        fresh == FreshLocalDocs(Cardinality(sources))
    IN  /\ source # target
        /\ kb[source] = "live" /\ kb[target] = "live"
        /\ new = target \/ kb[new] = "none"
        /\ kb' = [kb EXCEPT ![new] = "live"]
        /\ copy_document(sources, fresh, new)
        /\ Catalog

----------------------------------------------------------------------------
(* query_local_knowledge_from_path.                                        *)

QueryBecomes(record) == lquery' = record /\ UNCHANGED <<kb, localDocs, ftsRows, audits>>

BeginLocalQuery(bases) ==
    /\ lquery.at = "idle"
    /\ lquery' = [NoQuery EXCEPT !.at = "embed", !.bases = bases,
                                 !.gone = {d \in LkDocs : localDocs[d].stage = "deleted"}]
    /\ audits' = NoAudits
    /\ UNCHANGED <<kb, localDocs, ftsRows>>

\* The query is embedded, with no connection open.
EmbedLocalQuery ==
    /\ lquery.at = "embed"
    /\ QueryBecomes([lquery EXCEPT !.at = "snapshot"])

\* Embedding missing or failing, or an index that cannot be read: the strict
\* policy refuses, the others search the full text.
DegradeToText ==
    /\ lquery.at \in {"embed", "snapshot", "open", "filter", "search", "dense", "fetch"}
    /\ QueryBecomes(NoQuery) \/ QueryBecomes([NoQuery EXCEPT !.at = "fts", !.bases = lquery.bases,
                                            !.gone = lquery.gone])

LoadSnapshot ==
    /\ lquery.at = "snapshot"
    /\ QueryBecomes([lquery EXCEPT !.at = "open", !.snapshot = Vectors])

\* open_with_flat_fallback: the graph of this very snapshot, or the vectors
\* SQLite holds now, if they are as many (module LocalIndex).
OpenIndex ==
    /\ lquery.at = "open"
    /\ \/ QueryBecomes([lquery EXCEPT !.at = "filter"])
       \/ /\ Cardinality(Vectors) = Cardinality(lquery.snapshot)
          /\ QueryBecomes([lquery EXCEPT !.at = "filter", !.snapshot = Vectors])

\* active_versions; nothing active in the bases answers with no evidence.
FilterVersions ==
    /\ lquery.at = "filter"
    /\ QueryBecomes(IF ActiveIn(lquery.bases) = {}
           THEN [NoQuery EXCEPT !.at = "rerank", !.bases = lquery.bases, !.gone = lquery.gone]
           ELSE [lquery EXCEPT !.at = "search", !.allowed = ActiveIn(lquery.bases)])

\* Mutant: the full text search trusts its own rows, without the join on
\* the active version.
RowsOf(bases) == {d \in ftsRows : localDocs[d].base \in bases}

\* search_bm25 and search_cjk_fallback join the rows with active versions.
search_fts(bases) == {d \in ftsRows : d \in ActiveIn(bases)}

SearchLocalText ==
    /\ lquery.at = "search"
    /\ \E found \in SUBSET search_fts(lquery.bases) :
          QueryBecomes([lquery EXCEPT !.at = "dense", !.lexical = found \cap lquery.allowed])

SearchLocalVectors ==
    /\ lquery.at = "dense"
    /\ \E found \in SUBSET (lquery.snapshot \cap lquery.allowed) :
          QueryBecomes([NoQuery EXCEPT !.at = "fetch", !.bases = lquery.bases, !.gone = lquery.gone,
                              !.hits = lquery.lexical \cup found])

\* fetch_authoritative keeps what is still active.
FetchAuthoritative ==
    /\ lquery.at = "fetch"
    /\ QueryBecomes([lquery EXCEPT !.at = "rerank",
                          !.hits = {d \in @ : localDocs[d].stage = "active"}])

\* The reranker reorders, or fails and leaves the order alone.
RerankHits ==
    /\ lquery.at = "rerank"
    /\ QueryBecomes([lquery EXCEPT !.at = "persist"])

\* query_local_knowledge_fts_fallback: the search ...
FallbackSearch ==
    /\ lquery.at = "fts"
    /\ \E found \in SUBSET search_fts(lquery.bases) :
          QueryBecomes([lquery EXCEPT !.at = "locate", !.hits = found])

\* ... then the location of each hit; a chunk that is gone fails the query.
LocateHits ==
    /\ lquery.at = "locate"
    /\ QueryBecomes(IF \A d \in lquery.hits : Present(d)
           THEN [lquery EXCEPT !.at = "persist"] ELSE NoQuery)

PersistEvidence ==
    /\ lquery.at = "persist"
    /\ audits' = [evidence |-> lquery.hits, bases |-> lquery.bases, gone |-> lquery.gone]
    /\ lquery' = NoQuery
    /\ UNCHANGED <<kb, localDocs, ftsRows>>

----------------------------------------------------------------------------

LkNext ==
    \/ \E b \in LkBases : CreateKnowledgeBase(b) \/ queue_document_import(b) \/ DeleteKnowledgeBase(b)
    \/ \E d \in LkDocs :
          \/ StoreContent(d) \/ FinalizeRows(d) \/ ActivateDocument(d)
          \/ EndImport(d) \/ RetryImport(d) \/ DeleteLocalDocument(d)
    \/ \E s, t, n \in LkBases : MergeKnowledgeBases(s, t, n)
    \/ \E bases \in SUBSET LkBases \ {{}} : BeginLocalQuery(bases)
    \/ EmbedLocalQuery \/ DegradeToText \/ LoadSnapshot \/ OpenIndex \/ FilterVersions
    \/ SearchLocalText \/ SearchLocalVectors \/ FetchAuthoritative \/ RerankHits
    \/ FallbackSearch \/ LocateHits \/ PersistEvidence

LkSpec == LkInit /\ [][LkNext]_lkVars

----------------------------------------------------------------------------

\* The evidence an answer cites (persist_evidence_pack) comes from documents
\* of the requested bases that were active while the query ran: never from one
\* that was deleted before it began, though its full text rows are still
\* there, nor from one whose ingestion has not been activated.
EvidenceIsCurrent ==
    \A d \in audits.evidence :
        /\ d \notin audits.gone
        /\ localDocs[d].base \in audits.bases
        /\ localDocs[d].stage \in {"active", "deleted"}

=============================================================================

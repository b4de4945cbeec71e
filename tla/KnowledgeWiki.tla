--------------------------- MODULE KnowledgeWiki ---------------------------
(***************************************************************************)
(* Wiki pages of a PostgreSQL knowledge base (knowledge_db.rs): a page's   *)
(* current text beside its numbered revisions, the links found in the text *)
(* as rows of knowledge_edges, its source document and its tags.           *)
(*                                                                         *)
(* Several editors work at once under READ COMMITTED: the next revision    *)
(* number is read first, and the rows are written later, in a transaction  *)
(* whose unique constraints decide.  A text is the set of slugs it links   *)
(* to; a page is identified by its slug, as UNIQUE (knowledge_base_id,     *)
(* slug) never frees one.                                                  *)
(***************************************************************************)
EXTENDS Naturals, FiniteSets, FiniteSetsExt

CONSTANTS
    Slugs,        \* slugs, and so the pages that may exist
    SourceDocs,   \* documents a page may name as its source
    Tags,
    Editors,      \* concurrent sessions of one client
    WikiTexts,        \* texts, each the set of slugs it links to
    MaxRevisions, \* revisions of a page
    MaxRequests   \* commands in a behaviour

VARIABLES
    wikiBase,  \* the knowledge base is "private" or "deleted"
    page,      \* slug -> the row of wiki_pages
    revision,  \* slug -> rows of wiki_page_revisions: number and text
    edges,     \* live rows of knowledge_edges
    editor,    \* what a session has read and is about to write
    requests   \* commands so far

wikiVars == <<wikiBase, page, revision, edges, editor, requests>>

NoSource == "no source"
KeepTags == {"keep"}  \* update with tags: None
NoPage == [row |-> "none", body |-> {}, source |-> NoSource, tags |-> {}]
Reading == [kind |-> "idle", slug |-> "none", body |-> {}, source |-> NoSource,
            tags |-> {}, number |-> 0]

WikiInit ==
    /\ wikiBase = "private"
    /\ page = [s \in Slugs |-> NoPage]
    /\ revision = [s \in Slugs |-> {}]
    /\ edges = {}
    /\ editor = [e \in Editors |-> Reading]
    /\ requests = 0

WikiRequest == requests < MaxRequests /\ requests' = requests + 1

\* SELECT COALESCE(MAX(revision), 0)
LastNumber(s) == Max({r.number : r \in revision[s]} \cup {0})

LiveIn(pages) == {s \in Slugs : pages[s].row = "live"}

Link(s, t) == [relation |-> "wiki_link", from |-> s, to |-> t]
SourceEdge(s, d) == [relation |-> "source_document", from |-> s, to |-> d]

\* rebuild_wiki_links: the page's links are replaced by those of the new text
\* that name a live page of the base.
rebuild_wiki_links(rows, s, body, pages) ==
    {x \in rows : ~(x.from = s /\ x.relation = "wiki_link")}
        \cup {Link(s, t) : t \in body \cap LiveIn(pages)}

\* rebuild_wiki_source_edge: at most one live edge to a source document.
rebuild_wiki_source_edge(rows, s, source) ==
    {x \in rows : ~(x.from = s /\ x.relation = "source_document")}
        \cup (IF source = NoSource THEN {} ELSE {SourceEdge(s, source)})

(***************************************************************************)
(* Reads                                                                   *)
(***************************************************************************)

BeginCreate(e, s, body, source, tags) ==
    /\ WikiRequest /\ editor[e] = Reading
    /\ wikiBase = "private" /\ page[s].row = "none"
    /\ editor' = [editor EXCEPT ![e] = [kind |-> "create", slug |-> s, body |-> body,
                     source |-> source, tags |-> tags, number |-> 1]]
    /\ UNCHANGED <<wikiBase, page, revision, edges>>

BeginUpdate(e, s, body, source, tags) ==
    /\ WikiRequest /\ editor[e] = Reading
    /\ page[s].row = "live"
    /\ LastNumber(s) < MaxRevisions
    /\ editor' = [editor EXCEPT ![e] = [kind |-> "update", slug |-> s, body |-> body,
                     source |-> source, tags |-> tags,
                     number |-> LastNumber(s) + 1]]
    /\ UNCHANGED <<wikiBase, page, revision, edges>>

BeginRestore(e, s, r) ==
    /\ WikiRequest /\ editor[e] = Reading
    /\ page[s].row = "live" /\ wikiBase = "private"
    /\ r \in revision[s] /\ LastNumber(s) < MaxRevisions
    /\ editor' = [editor EXCEPT ![e] = [kind |-> "restore", slug |-> s,
                     body |-> r.body, source |-> NoSource, tags |-> {},
                     number |-> LastNumber(s) + 1]]
    /\ UNCHANGED <<wikiBase, page, revision, edges>>

(***************************************************************************)
(* Writes                                                                  *)
(***************************************************************************)

\* Rows and edges of slug s after text body and source have been written.  A
\* page deleted since the read keeps its row: the UPDATE finds nothing.
WriteWiki(e, s, row, source) ==
    LET pages == [page EXCEPT ![s] = row] IN
    /\ page' = pages
    /\ revision' = [revision EXCEPT ![s] = @ \cup
         {[number |-> editor[e].number, body |-> editor[e].body]}]
    /\ edges' = rebuild_wiki_source_edge(
                    rebuild_wiki_links(edges, s, editor[e].body, pages), s, source)
    /\ editor' = [editor EXCEPT ![e] = Reading]

CommitCreate(e) ==
    LET x == editor[e] IN
    /\ x.kind = "create" /\ page[x.slug].row = "none"
    /\ WriteWiki(e, x.slug, [row |-> "live", body |-> x.body, source |-> x.source,
                         tags |-> x.tags], x.source)
    /\ UNCHANGED <<wikiBase, requests>>

\* Mutant: two revisions of a page may have the same number.
NumberUnchecked(x) == TRUE

\* UNIQUE (page_id, revision): the number read before is still free.
NumberFree(x) == \A r \in revision[x.slug] : r.number # x.number

CommitWikiUpdate(e) ==
    LET x == editor[e] IN
    /\ x.kind = "update" /\ NumberFree(x)
    /\ WriteWiki(e, x.slug,
             IF page[x.slug].row = "live"
             THEN [page[x.slug] EXCEPT !.body = x.body, !.source = x.source,
                  !.tags = IF x.tags = KeepTags THEN @ ELSE x.tags]
             ELSE page[x.slug], x.source)
    /\ UNCHANGED <<wikiBase, requests>>

\* A restored page keeps the source document it has by then.
CommitRestore(e) ==
    LET x == editor[e] IN
    /\ x.kind = "restore" /\ NumberFree(x)
    /\ WriteWiki(e, x.slug,
             IF page[x.slug].row = "live"
             THEN [page[x.slug] EXCEPT !.body = x.body] ELSE page[x.slug],
             page[x.slug].source)
    /\ UNCHANGED <<wikiBase, requests>>

\* The constraint refuses the row and the transaction is rolled back.
WikiRefused(e) ==
    LET x == editor[e] IN
    /\ \/ x.kind = "create" /\ page[x.slug].row # "none"
       \/ x.kind \in {"update", "restore"} /\ ~NumberFree(x)
    /\ editor' = [editor EXCEPT ![e] = Reading]
    /\ UNCHANGED <<wikiBase, page, revision, edges, requests>>

\* set_postgres_wiki_page_tags, one transaction.
SetTags(s, tags) ==
    /\ WikiRequest /\ wikiBase = "private" /\ page[s].row = "live" /\ page[s].tags # tags
    /\ page' = [page EXCEPT ![s].tags = tags]
    /\ UNCHANGED <<wikiBase, revision, edges, editor>>

\* A relation of the user's own between two pages of the base.
CreateEdge(s, t) ==
    /\ WikiRequest /\ wikiBase = "private" /\ page[s].row = "live" /\ page[t].row = "live"
    /\ edges' = edges \cup {[relation |-> "related", from |-> s, to |-> t]}
    /\ UNCHANGED <<wikiBase, page, revision, editor>>

DeleteEdge(x) ==
    /\ WikiRequest /\ wikiBase = "private"
    /\ edges' = edges \ {x}
    /\ UNCHANGED <<wikiBase, page, revision, editor>>

\* The wiki's share of delete_postgres_knowledge_base.
DeleteWiki ==
    /\ WikiRequest /\ wikiBase = "private"
    /\ wikiBase' = "deleted"
    /\ page' = [s \in Slugs |-> IF page[s].row = "live"
                                THEN [page[s] EXCEPT !.row = "deleted"] ELSE page[s]]
    /\ edges' = {}
    /\ UNCHANGED <<revision, editor>>

WikiNext ==
    \/ \E e \in Editors, s \in Slugs, body \in WikiTexts,
          source \in SourceDocs \cup {NoSource} :
            \/ \E tags \in SUBSET Tags : BeginCreate(e, s, body, source, tags)
            \/ \E tags \in (SUBSET Tags) \cup {KeepTags} : BeginUpdate(e, s, body, source, tags)
    \/ \E e \in Editors, s \in Slugs : \E r \in revision[s] : BeginRestore(e, s, r)
    \/ \E e \in Editors : \/ CommitCreate(e) \/ CommitWikiUpdate(e)
                          \/ CommitRestore(e) \/ WikiRefused(e)
    \/ \E s \in Slugs, tags \in SUBSET Tags : SetTags(s, tags)
    \/ \E s, t \in Slugs : CreateEdge(s, t)
    \/ \E x \in edges : DeleteEdge(x)
    \/ DeleteWiki

WikiSpec == WikiInit /\ [][WikiNext]_wikiVars

(***************************************************************************)
(* Properties                                                              *)
(***************************************************************************)

\* Two editors that read the same revision number cannot both save: the text a
\* page shows is always that of its latest revision, so nothing was overwritten
\* without a revision to go back to.
PageShowsLatestRevision ==
    \A s \in LiveIn(page) :
        {r.body : r \in {x \in revision[s] : x.number = LastNumber(s)}} = {page[s].body}

=============================================================================

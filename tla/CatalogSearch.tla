----------------------------- MODULE CatalogSearch -----------------------------
(***************************************************************************)
(* The library: the search document of every published Track, which        *)
(* triggers and a script keep, and what a visitor is shown who searches,   *)
(* opens a Track or asks for similar ones                                  *)
(* (src/migrations/domain/0007-searchable-published-library.sql,           *)
(* src/lib/catalog-search, src/lib/embeddings/repository.ts).              *)
(*                                                                         *)
(* Grain: a statement.  Each reads a snapshot of its own of what was       *)
(* committed when it began, and of its own transaction's writes; it waits  *)
(* for rows that another transaction has written, and then writes what     *)
(* follows from the snapshot it already has.  A statement takes its row    *)
(* locks in one step: the order in which two of them lock several          *)
(* documents is left out, and so are deadlocks of such statements.         *)
(*                                                                         *)
(* Of a document's text only its title and the label of one term are told  *)
(* apart, which every Track carries.                                       *)
(***************************************************************************)
EXTENDS Naturals, FiniteSets, FiniteSetsExt

CONSTANTS
  SearchTracks,  \* approved Tracks
  Indexers,      \* connections that publish, change the term or rebuild
  Visitors,      \* requests of visitors
  PageSize,      \* results on a page
  MaxPage        \* bound: the pages visitors ask for

ASSUME PageAssumption == PageSize \in Nat \ {0} /\ MaxPage \in Nat \ {0}

VARIABLES
  public,      \* per Track: publication_status
  termActive,  \* taxonomy_term.is_active
  document,    \* per Track: catalog.track_search_document
  vectorState, \* per Track: its row of catalog.track_embedding
  indexer,     \* per connection: its transaction
  visitor      \* per request: what it has read and shown

indexVars == <<public, termActive, document, vectorState>>
searchVars == <<indexVars, indexer, visitor>>

Untouched == [t \in SearchTracks |-> "untouched"]
NoTransaction == [at |-> "idle", update |-> "none", scope |-> {}, saw |-> {}, sawActive |-> FALSE,
                  wrote |-> Untouched]
NoVisit == [at |-> "idle", query |-> "none", candidates |-> {}, shown |-> {}]

SearchInit ==
  /\ public = [t \in SearchTracks |-> "unpublished"]
  /\ termActive = TRUE
  /\ document = [t \in SearchTracks |-> "none"]
  /\ vectorState = [t \in SearchTracks |-> "none"]
  /\ indexer = [i \in Indexers |-> NoTransaction]
  /\ visitor = [v \in Visitors |-> NoVisit]

Public == {t \in SearchTracks : public[t] = "published"}
Documented == {t \in SearchTracks : document[t] # "none"}

-----------------------------------------------------------------------------
(* Writing documents.                                                       *)

\* What a statement of the transaction sees: published Tracks, the term.
Snapshot(update, scope) ==
  [saw |-> IF update = "publish" THEN Public \cup scope
           ELSE IF update = "withdraw" THEN Public \ scope ELSE Public,
   active |-> IF update = "term" THEN ~termActive ELSE termActive]

\* The UPDATE, whose row lock keeps a second one of the row waiting, and the start of
\* refresh_track_search_documents in its trigger.
StartRefresh(i, update, scope) ==
  LET seen == Snapshot(update, scope) IN
  /\ indexer[i].at = "idle"
  /\ indexer' = [indexer EXCEPT
       ![i] = [at |-> "delete", update |-> update, scope |-> scope, saw |-> seen.saw,
               sawActive |-> seen.active, wrote |-> Untouched]]
  /\ UNCHANGED <<indexVars, visitor>>

Updating(updates, t) == \E i \in Indexers : indexer[i].update \in updates /\ t \in indexer[i].scope

StartPublication(i, t) ==
  /\ public[t] # "published" /\ ~Updating({"publish", "withdraw"}, t)
  /\ StartRefresh(i, "publish", {t})

StartWithdrawal(i, t) ==
  /\ public[t] = "published" /\ ~Updating({"publish", "withdraw"}, t)
  /\ StartRefresh(i, "withdraw", {t})

StartTermChange(i) ==
  /\ \A j \in Indexers : indexer[j].update # "term"
  /\ StartRefresh(i, "term", SearchTracks)

StartRebuild(i) == StartRefresh(i, "rebuild", SearchTracks)

\* A document that another open transaction has written is waited for.
Unlocked(i, rows) ==
  \A j \in Indexers \ {i} : \A t \in rows : indexer[j].wrote[t] = "untouched"

\* The DELETE, and the snapshot of the INSERT that follows.
DeleteOutdated(i) ==
  LET rows == (indexer[i].scope \ indexer[i].saw) \cap Documented
      seen == Snapshot(indexer[i].update, indexer[i].scope)
  IN
  /\ indexer[i].at = "delete"
  /\ Unlocked(i, rows)
  /\ indexer' = [indexer EXCEPT
       ![i].at = "insert", ![i].saw = seen.saw, ![i].sawActive = seen.active,
       ![i].wrote = [t \in SearchTracks |-> IF t \in rows THEN "none" ELSE @[t]]]
  /\ UNCHANGED <<indexVars, visitor>>

\* INSERT ... ON CONFLICT (track_id) DO UPDATE.
UpsertDocuments(i) ==
  LET rows == indexer[i].scope \cap indexer[i].saw
      content == IF indexer[i].sawActive THEN "labelled" ELSE "titled"
  IN
  /\ indexer[i].at = "insert"
  /\ Unlocked(i, rows)
  /\ indexer' = [indexer EXCEPT
       ![i].at = "commit",
       ![i].wrote = [t \in SearchTracks |-> IF t \in rows THEN content ELSE @[t]]]
  /\ UNCHANGED <<indexVars, visitor>>

\* Publication and withdrawal mark the embedding stale in the same transaction.
CommitRefresh(i) ==
  LET tx == indexer[i]
      moved == IF tx.update \in {"publish", "withdraw"} THEN tx.scope ELSE {}
  IN
  /\ tx.at = "commit"
  /\ public' = [t \in SearchTracks |->
       IF t \notin moved THEN public[t]
       ELSE IF tx.update = "publish" THEN "published" ELSE "withdrawn"]
  /\ vectorState' = [t \in SearchTracks |->
       IF t \in moved /\ vectorState[t] = "ready" THEN "stale" ELSE vectorState[t]]
  /\ termActive' = IF tx.update = "term" THEN ~termActive ELSE termActive
  /\ document' = [t \in SearchTracks |->
       IF tx.wrote[t] = "untouched" THEN document[t] ELSE tx.wrote[t]]
  /\ indexer' = [indexer EXCEPT ![i] = NoTransaction]
  /\ UNCHANGED visitor

RefreshFails(i) ==
  /\ indexer[i].at # "idle"
  /\ indexer' = [indexer EXCEPT ![i] = NoTransaction]
  /\ UNCHANGED <<indexVars, visitor>>

\* The embedding worker, for a Track that was published when its text was read.
CompleteVector(t) ==
  /\ public[t] # "unpublished" /\ vectorState[t] # "ready"
  /\ vectorState' = [vectorState EXCEPT ![t] = "ready"]
  /\ UNCHANGED <<public, termActive, document, indexer, visitor>>

-----------------------------------------------------------------------------
(* Searching.                                                               *)

Show(v, tracks) ==
  /\ visitor' = [visitor EXCEPT ![v] = [NoVisit EXCEPT !.at = "shown", !.shown = tracks]]
  /\ UNCHANGED <<indexVars, indexer>>

\* assertKnownTaxonomyFilters, a statement before the search.
AskForPage(v, query) ==
  /\ visitor[v].at = "idle"
  /\ query = "facet" => termActive
  /\ visitor' = [visitor EXCEPT ![v] = [NoVisit EXCEPT !.at = "search", !.query = query]]
  /\ UNCHANGED <<indexVars, indexer>>

\* The conditions that the input adds.  A semantic search, whose query could be
\* embedded, also matches Tracks whose vectors are close.
Matching(query, close) ==
  IF query = "label" THEN {t \in SearchTracks : document[t] = "labelled"} \cup close
  ELSE IF query = "facet" /\ ~termActive THEN {}
  ELSE SearchTracks

\* Mutant: a Track with a document is taken to be published.
FoundByDocument(query, close) == Documented \cap Matching(query, close)

\* "filtered": published Tracks that have a document.
Found(query, close) == Public \cap Documented \cap Matching(query, close)

CloseVectors == {t \in SearchTracks : vectorState[t] = "ready"}

\* A page beyond the last has no row to take the total from; the query that would count
\* lacks the parameter of the media profile, and the request fails.
SearchPage(v, page) ==
  /\ visitor[v].at = "search"
  /\ \E close \in SUBSET CloseVectors :
       LET found == Found(visitor[v].query, close)
           before == (page - 1) * PageSize
       IN
       IF Cardinality(found) <= before
       THEN IF page > 1
            THEN visitor' = [visitor EXCEPT ![v] = NoVisit] /\ UNCHANGED <<indexVars, indexer>>
            ELSE Show(v, {})
       ELSE \E rows \in SUBSET found :
              /\ Cardinality(rows) = Min({PageSize, Cardinality(found) - before})
              /\ Show(v, rows)

OpenTrack(v, t) ==
  /\ visitor[v].at = "idle"
  /\ t \in Public \cap Documented
  /\ Show(v, {t})

-----------------------------------------------------------------------------
(* Similar Tracks: three statements.                                        *)

GetTrackEmbedding(v, t) ==
  /\ visitor[v].at = "idle"
  /\ t \in Public /\ vectorState[t] = "ready"
  /\ visitor' = [visitor EXCEPT ![v] = [NoVisit EXCEPT !.at = "nearest", !.candidates = {t}]]
  /\ UNCHANGED <<indexVars, indexer>>

FindNearestPublishedTracks(v) ==
  /\ visitor[v].at = "nearest"
  /\ visitor' = [visitor EXCEPT
       ![v].at = "load",
       ![v].candidates = {t \in Public : vectorState[t] = "ready"} \ visitor[v].candidates]
  /\ UNCHANGED <<indexVars, indexer>>

GetPublishedTracksByIds(v) ==
  /\ visitor[v].at = "load"
  /\ Show(v, visitor[v].candidates \cap Public)

Leave(v) ==
  /\ visitor[v].at = "shown"
  /\ visitor' = [visitor EXCEPT ![v] = NoVisit]
  /\ UNCHANGED <<indexVars, indexer>>

-----------------------------------------------------------------------------
SearchNext ==
  \/ \E i \in Indexers :
       \/ \E t \in SearchTracks : StartPublication(i, t) \/ StartWithdrawal(i, t)
       \/ StartTermChange(i)
       \/ StartRebuild(i)
       \/ DeleteOutdated(i)
       \/ UpsertDocuments(i)
       \/ CommitRefresh(i)
       \/ RefreshFails(i)
  \/ \E t \in SearchTracks : CompleteVector(t)
  \/ \E v \in Visitors :
       \/ \E query \in {"title", "label", "facet"} : AskForPage(v, query)
       \/ \E page \in 1 .. MaxPage : SearchPage(v, page)
       \/ \E t \in SearchTracks : OpenTrack(v, t) \/ GetTrackEmbedding(v, t)
       \/ FindNearestPublishedTracks(v)
       \/ GetPublishedTracksByIds(v)
       \/ Leave(v)

SearchSpec == SearchInit /\ [][SearchNext]_searchVars

-----------------------------------------------------------------------------
Contents == {"none", "titled", "labelled"}

SearchTypeOK ==
  /\ public \in [SearchTracks -> {"unpublished", "published", "withdrawn"}]
  /\ termActive \in BOOLEAN
  /\ document \in [SearchTracks -> Contents]
  /\ vectorState \in [SearchTracks -> {"none", "ready", "stale"}]
  /\ indexer \in [Indexers ->
       [at : {"idle", "delete", "insert", "commit"},
        update : {"none", "publish", "withdraw", "term", "rebuild"},
        scope : SUBSET SearchTracks, saw : SUBSET SearchTracks, sawActive : BOOLEAN,
        wrote : [SearchTracks -> Contents \cup {"untouched"}]]]
  /\ visitor \in [Visitors ->
       [at : {"idle", "search", "nearest", "load", "shown"},
        query : {"none", "title", "label", "facet"},
        candidates : SUBSET SearchTracks, shown : SUBSET SearchTracks]]

\* docs/searchable-published-library.md: every result and detail query repeats the
\* predicate, so a stale index row cannot expose a withdrawn Track.  Such rows there are:
\* a rebuild or a change of the term that read the Track as published inserts its
\* document after the withdrawal has deleted it.
WithdrawnTracksAreNotShown ==
  [][\A v \in Visitors :
       visitor[v].at # "shown" /\ visitor'[v].at = "shown" => visitor'[v].shown \subseteq Public]_searchVars
=============================================================================

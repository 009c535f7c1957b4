---------------------------- MODULE EmbeddingQueue ----------------------------
(***************************************************************************)
(* The embedding of a published Track: the row that is both the queue and  *)
(* the vector, the workers that compute it, and the reconciliation that    *)
(* compares its input with the Track as it is now (src/lib/embeddings,     *)
(* scripts/embedding-*.ts).                                                *)
(*                                                                         *)
(* Once its submission is approved, what still changes of a Track's        *)
(* canonical text is which of its terms are active, which no trigger       *)
(* watches; and its one Revision is published, withdrawn and republished.  *)
(* A canonical text is a number, and its hash the same number; a vector is *)
(* the text it was computed from, 0 when there is none.  Provider, model   *)
(* and dimension are fixed by the configuration.                           *)
(***************************************************************************)
EXTENDS Naturals

CONSTANTS
  EmbeddedTracks,    \* approved Tracks
  EmbeddingWorkers,  \* worker processes, each with an id of its own
  MaxTexts,          \* bound: texts that a Track's terms may give it
  NoWorker           \* a model value

ASSUME NoWorkerAssumption == NoWorker \notin EmbeddingWorkers
ASSUME TextAssumption == MaxTexts \in Nat \ {0}

Texts == 1 .. MaxTexts

VARIABLES
  canonicalText,    \* what buildCanonicalEmbeddingDocument would make of a Track now
  listed,           \* Tracks whose publication_status is published
  embedding,        \* catalog.track_embedding
  embeddingHeld,    \* Tracks whose row has lease_expires_at >= now()
  embedder,         \* per worker: its step and the job it claimed
  comparing         \* what the reconciliation has read of a Track

embeddingVars == <<canonicalText, listed, embedding, embeddingHeld, embedder, comparing>>

NoEmbedding == [status |-> "absent", hash |-> 0, text |-> 0, vector |-> 0,
                owner |-> NoWorker]
NotEmbedding == [step |-> "idle", track |-> "none", hash |-> 0, text |-> 0]
NotComparing == [track |-> "none", text |-> 0]

EmbeddingInit ==
  /\ canonicalText = [t \in EmbeddedTracks |-> 1]
  /\ listed = {}
  /\ embedding = [t \in EmbeddedTracks |-> NoEmbedding]
  /\ embeddingHeld = {}
  /\ embedder = [w \in EmbeddingWorkers |-> NotEmbedding]
  /\ comparing = NotComparing

\* A term of the Track is deactivated or activated again.
ChangeTerms(t) ==
  /\ \E text \in Texts \ {canonicalText[t]} :
       canonicalText' = [canonicalText EXCEPT ![t] = text]
  /\ UNCHANGED <<listed, embedding, embeddingHeld, embedder, comparing>>

\* The trigger on the Track.
MarkStale(t) ==
  embedding' = [embedding EXCEPT ![t].status = IF @ = "ready" THEN "stale" ELSE @]

ListTrack(t) ==
  /\ t \notin listed
  /\ listed' = listed \cup {t}
  /\ MarkStale(t)
  /\ UNCHANGED <<canonicalText, embeddingHeld, embedder, comparing>>

WithdrawTrack(t) ==
  /\ t \in listed
  /\ listed' = listed \ {t}
  /\ MarkStale(t)
  /\ UNCHANGED <<canonicalText, embeddingHeld, embedder, comparing>>

-----------------------------------------------------------------------------
(* The reconciliation reads all published Tracks first, then goes Track by Track.   *)

LoadCanonicalMetadata(t) ==
  /\ comparing = NotComparing
  /\ t \in listed
  /\ comparing' = [track |-> t, text |-> canonicalText[t]]
  /\ UNCHANGED <<canonicalText, listed, embedding, embeddingHeld, embedder>>

NeedsEmbedding(row) ==
  \/ row.status \in {"absent", "stale"}
  \/ row.hash # comparing.text

EnqueueMissingEmbedding(t) ==
  /\ comparing.track = t
  /\ comparing' = NotComparing
  /\ IF NeedsEmbedding(embedding[t])
     THEN /\ embedding' = [embedding EXCEPT
               ![t] = [status |-> "queued", hash |-> comparing.text, text |-> comparing.text,
                       vector |-> @.vector, owner |-> NoWorker]]
          /\ embeddingHeld' = embeddingHeld \ {t}
     ELSE UNCHANGED <<embedding, embeddingHeld>>
  /\ UNCHANGED <<canonicalText, listed, embedder>>

-----------------------------------------------------------------------------
(* The worker.                                                              *)

EmbeddingGoes(w, step) == embedder' = [embedder EXCEPT ![w].step = step]

Claimable(t) ==
  /\ t \in listed
  /\ \/ embedding[t].status = "queued"
     \/ embedding[t].status = "processing" /\ t \notin embeddingHeld

\* A worker takes one job at a time, so its limit of active leases never binds.
ClaimNextEmbeddingJob(w, t) ==
  /\ embedder[w].step = "idle"
  /\ Claimable(t)
  /\ embedding' = [embedding EXCEPT ![t].status = "processing", ![t].owner = w]
  /\ embeddingHeld' = embeddingHeld \cup {t}
  /\ embedder' = [embedder EXCEPT
       ![w] = [step |-> "embed", track |-> t, hash |-> embedding[t].hash, text |-> embedding[t].text]]
  /\ UNCHANGED <<canonicalText, listed, comparing>>

EmbeddingLeaseExpires(t) ==
  /\ t \in embeddingHeld
  /\ embeddingHeld' = embeddingHeld \ {t}
  /\ UNCHANGED <<canonicalText, listed, embedding, embedder, comparing>>

EmbedDocument(w) ==
  /\ embedder[w].step = "embed"
  /\ \E answered \in BOOLEAN : EmbeddingGoes(w, IF answered THEN "complete" ELSE "fail")
  /\ UNCHANGED <<canonicalText, listed, embedding, embeddingHeld, comparing>>

\* Mutant: the vector is stored without the hash of the text it was computed from.
CompleteKeepingHash(w) ==
  LET t == embedder[w].track IN
  /\ embedder[w].step = "complete"
  /\ IF embedding[t].owner \in {w, NoWorker}
     THEN /\ embedding' = [embedding EXCEPT
               ![t].status = "ready", ![t].vector = embedder[w].text, ![t].owner = NoWorker]
          /\ embeddingHeld' = embeddingHeld \ {t}
          /\ embedder' = [embedder EXCEPT ![w] = NotEmbedding]
     ELSE /\ EmbeddingGoes(w, "fail")
          /\ UNCHANGED <<embedding, embeddingHeld>>
  /\ UNCHANGED <<canonicalText, listed, comparing>>

\* Refused only while another worker's lease is written in the row.
CompleteEmbeddingJob(w) ==
  LET t == embedder[w].track IN
  /\ embedder[w].step = "complete"
  /\ IF embedding[t].owner \in {w, NoWorker}
     THEN /\ embedding' = [embedding EXCEPT
               ![t].status = "ready", ![t].vector = embedder[w].text,
               ![t].hash = embedder[w].hash, ![t].owner = NoWorker]
          /\ embeddingHeld' = embeddingHeld \ {t}
          /\ embedder' = [embedder EXCEPT ![w] = NotEmbedding]
     ELSE /\ EmbeddingGoes(w, "fail")
          /\ UNCHANGED <<embedding, embeddingHeld>>
  /\ UNCHANGED <<canonicalText, listed, comparing>>

\* By the row's id alone, whoever holds it now.
FailEmbeddingJob(w) ==
  LET t == embedder[w].track IN
  /\ embedder[w].step = "fail"
  /\ embedding' = [embedding EXCEPT ![t].status = "failed", ![t].owner = NoWorker]
  /\ embeddingHeld' = embeddingHeld \ {t}
  /\ embedder' = [embedder EXCEPT ![w] = NotEmbedding]
  /\ UNCHANGED <<canonicalText, listed, comparing>>

EmbeddingWorkerCrashes(w) ==
  /\ embedder[w].step # "idle"
  /\ embedder' = [embedder EXCEPT ![w] = NotEmbedding]
  /\ UNCHANGED <<canonicalText, listed, embedding, embeddingHeld, comparing>>

-----------------------------------------------------------------------------
EmbeddingNext ==
  \/ \E t \in EmbeddedTracks :
       \/ ChangeTerms(t)
       \/ ListTrack(t)
       \/ WithdrawTrack(t)
       \/ LoadCanonicalMetadata(t)
       \/ EnqueueMissingEmbedding(t)
       \/ EmbeddingLeaseExpires(t)
       \/ \E w \in EmbeddingWorkers : ClaimNextEmbeddingJob(w, t)
  \/ \E w \in EmbeddingWorkers :
       \/ EmbedDocument(w)
       \/ CompleteEmbeddingJob(w)
       \/ FailEmbeddingJob(w)
       \/ EmbeddingWorkerCrashes(w)

EmbeddingSpec == EmbeddingInit /\ [][EmbeddingNext]_embeddingVars

-----------------------------------------------------------------------------
EmbeddingTypeOK ==
  /\ canonicalText \in [EmbeddedTracks -> Texts] /\ listed \subseteq EmbeddedTracks
  /\ embedding \in [EmbeddedTracks ->
       [status : {"absent", "queued", "processing", "ready", "stale", "failed"},
        hash : 0 .. MaxTexts, text : 0 .. MaxTexts, vector : 0 .. MaxTexts,
        owner : EmbeddingWorkers \cup {NoWorker}]]
  /\ embeddingHeld \subseteq {t \in EmbeddedTracks : embedding[t].owner # NoWorker}
  /\ embedder \in [EmbeddingWorkers ->
       [step : {"idle", "embed", "complete", "fail"}, track : EmbeddedTracks \cup {"none"},
        hash : 0 .. MaxTexts, text : 0 .. MaxTexts]]
  /\ comparing \in [track : EmbeddedTracks \cup {"none"}, text : 0 .. MaxTexts]

\* A ready vector was computed from the text whose hash its row keeps, however late the
\* worker that stored it: so the comparison of the reconciliation finds every vector
\* that the Track has left behind.
StaleVectorsAreNoticed ==
  \A t \in EmbeddedTracks :
    embedding[t].status = "ready" => embedding[t].vector = embedding[t].hash
=============================================================================

---------------------------- MODULE MCWorkspace -----------------------------
(***************************************************************************)
(* The other parts of the workspace, side by side: a behaviour chooses one *)
(* of them and stays in it, so a run visits the states of each and no      *)
(* products of them.                                                       *)
(***************************************************************************)
EXTENDS DemandSheet, TeamAccess, CatalogSearch, CopyrightWorkflow, MediaDelivery,
        EmbeddingQueue, TLC

VARIABLE scope  \* the component that moves

workspaceVars == <<demandVars, teamVars, searchVars, copyrightVars, mediaVars, embeddingVars, scope>>

Init ==
  /\ scope \in {"demand", "team", "search", "copyright", "media", "embeddings"}
  /\ DemandInit
  /\ TeamInit
  /\ SearchInit
  /\ CopyrightInit
  /\ MediaInit
  /\ EmbeddingInit

Next ==
  \/ scope = "demand" /\ DemandNext /\ UNCHANGED <<scope, teamVars, searchVars, copyrightVars, mediaVars, embeddingVars>>
  \/ scope = "team" /\ TeamNext /\ UNCHANGED <<scope, demandVars, searchVars, copyrightVars, mediaVars, embeddingVars>>
  \/ scope = "search" /\ SearchNext /\ UNCHANGED <<scope, demandVars, teamVars, copyrightVars, mediaVars, embeddingVars>>
  \/ scope = "copyright" /\ CopyrightNext /\ UNCHANGED <<scope, demandVars, teamVars, searchVars, mediaVars, embeddingVars>>
  \/ scope = "media" /\ MediaNext /\ UNCHANGED <<scope, demandVars, teamVars, searchVars, copyrightVars, embeddingVars>>
  \/ scope = "embeddings" /\ EmbeddingNext /\ UNCHANGED <<scope, demandVars, teamVars, searchVars, copyrightVars, mediaVars>>

Spec == Init /\ [][Next]_workspaceVars

\* Every variable of the component that moves is in its domain; the others stay as they
\* begin.
TypeOK ==
  /\ scope = "demand" => DemandTypeOK
  /\ scope = "team" => TeamTypeOK
  /\ scope = "search" => SearchTypeOK
  /\ scope = "copyright" => CopyrightTypeOK
  /\ scope = "media" => MediaTypeOK
  /\ scope = "embeddings" => EmbeddingTypeOK

\* Where more than one term is told apart: the Demand asks for a term that is no Format, a
\* Track has it, or it is inactive.
SecondTermUsed ==
  LET others == Terms \ Formats IN
  \/ demand.required \cap others # {}
  \/ ~ (others \subseteq activeTerms)
  \/ \E s \in Songs : catalogue[s].terms \cap others # {}

\* Bounds: a Track is withdrawn or rejected, or referred to by the Demand, or its deadline
\* has passed, beside one response, or there are two responses; a second term is used beside
\* one Track, before anyone responds; a visitor searches while one of the connections is
\* idle, and somebody enters an observation while one of the builders is; a copyright check
\* that has been reopened is built in one attempt, and the reconciliation pauses while a batch
\* is built a second time; a Track is withdrawn while one of the delivery workers is idle.
Bounded ==
  /\ LET moved == Cardinality(references)
                    + Cardinality({s \in Songs : catalogue[s].state \in {"withdrawn", "rejected"}})
         responses == Cardinality({s \in Songs : response[s].status # "none"})
     IN  /\ moved <= 1
         /\ moved + responses <= 2
         /\ overdue => responses <= 1
         /\ SecondTermUsed =>
              /\ references = {} /\ ~overdue /\ responses = 0
              /\ Cardinality({s \in Songs : catalogue[s].state # "unpublished"}) <= 1
  /\ (\A i \in Indexers : indexer[i].at # "idle") => \A v \in Visitors : visitor[v].at = "idle"
  /\ (\A w \in Builders : builder[w].step # "idle") => \A o \in Observers : observing[o] = NotObserving
  /\ (\E t \in Tracks : round[t] = 2) => \A b \in Batches : buildJob[b].attempts <= 1
  /\ (\E b \in Batches : buildJob[b].attempts > 1) => reconciling = NotReconciling
  /\ publication = "withdrawn" => \E w \in MediaWorkers : MediaAt(w, "idle")

\* The configuration gives the Tracks, people and workers of all these modules the same
\* names: exchanging two of them exchanges nothing that the modules tell apart.
Symmetry == Permutations(Songs)
=============================================================================

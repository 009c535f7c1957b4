---------------------------- MODULE MCDrafts --------------------------------
(***************************************************************************)
(* The parts that make a draft and describe its audio: the page that       *)
(* registers it, the transfers of its files, generated audio, the audio    *)
(* tools, the technical and the AI half of the analysis, the place of the  *)
(* stored objects, and the player, which plays what became of it.  They    *)
(* share no state that these modules model, so a behaviour chooses one of  *)
(* them and stays in it.                                                   *)
(***************************************************************************)
EXTENDS UploadTransfers, UploadForm, GenerationDrafts, AudioTools, TechnicalMeasurement,
        MetadataAnalysis, StorageSwitch, Player, TLC

VARIABLE scope  \* the component that moves

draftsVars == <<uploadVars, formVars, generationVars, toolVars, measureVars, metadataVars,
                storedVars, playerVars, scope>>

Init ==
  /\ scope \in {"uploads", "form", "generation", "tools", "measurement", "analysis", "storage",
               "player"}
  /\ UploadInit
  /\ FormInit /\ (revising => scope = "form")
  /\ GenerationInit
  /\ ToolInit /\ (wrapper # "tool" \/ total # 0 \/ child # "running" => scope = "tools")
  /\ MeasureInit
  /\ (\A f \in SourceFiles : bytes[f] = IF f[2] = "master" THEN "song" ELSE "none") \/ scope = "measurement"
  /\ MetadataInit /\ (measurable \/ termActive => scope = "analysis")
  /\ StorageInit /\ (provider = "onedrive" => scope = "storage")
  /\ PlayerInit

Next ==
  \/ scope = "uploads" /\ UploadNext
       /\ UNCHANGED <<scope, formVars, generationVars, toolVars, measureVars, metadataVars, storedVars, playerVars>>
  \/ scope = "form" /\ FormNext
       /\ UNCHANGED <<scope, uploadVars, generationVars, toolVars, measureVars, metadataVars, storedVars, playerVars>>
  \/ scope = "generation" /\ GenerationNext
       /\ UNCHANGED <<scope, uploadVars, formVars, toolVars, measureVars, metadataVars, storedVars, playerVars>>
  \/ scope = "tools" /\ ToolNext
       /\ UNCHANGED <<scope, uploadVars, formVars, generationVars, measureVars, metadataVars, storedVars, playerVars>>
  \/ scope = "measurement" /\ MeasureNext
       /\ UNCHANGED <<scope, uploadVars, formVars, generationVars, toolVars, metadataVars, storedVars, playerVars>>
  \/ scope = "analysis" /\ MetadataNext
       /\ UNCHANGED <<scope, uploadVars, formVars, generationVars, toolVars, measureVars, storedVars, playerVars>>
  \/ scope = "storage" /\ StorageNext
       /\ UNCHANGED <<scope, uploadVars, formVars, generationVars, toolVars, measureVars, metadataVars, playerVars>>
  \/ scope = "player" /\ PlayerNext
       /\ UNCHANGED <<scope, uploadVars, formVars, generationVars, toolVars, measureVars, metadataVars, storedVars>>

Spec == Init /\ [][Next]_draftsVars

\* Every variable of the component that moves is in its domain; the others stay as they
\* begin.
TypeOK ==
  /\ scope = "uploads" => UploadTypeOK
  /\ scope = "form" => FormTypeOK
  /\ scope = "generation" => GenerationTypeOK
  /\ scope = "tools" => ToolTypeOK
  /\ scope = "measurement" => MeasureTypeOK
  /\ scope = "analysis" => MetadataTypeOK
  /\ scope = "storage" => StorageTypeOK
  /\ scope = "player" => PlayerTypeOK

\* Bounds: a requested Revision is uploaded to local storage, the rights are acknowledged
\* when the files are there, and a file is not cancelled and cleaned up at once.
Bounded ==
  /\ stage = "requested" => backend = "local"
  /\ acknowledged => EveryFileAvailable
  /\ \A f \in Files : cancel[f].step = "idle" \/ cleanup[f].step = "idle"
  /\ (\E r \in SaveRequests : request[r].at # "unsent") => formStep >= 3
  /\ Cardinality({f \in SourceFiles : bytes[f] # "none"}) <= 3
  /\ Cardinality({f \in SourceFiles : bytes[f] = "silent_start"}) <= 1

\* The configuration gives transfers, local files, saves, workers, Masters and Tracks the
\* same names, and so the ids of packages and the calls of the player: exchanging two of either exchanges nothing
\* that the modules tell apart.
Symmetry == Permutations(Transfers) \cup Permutations(PackageIds)
=============================================================================

--------------------------- MODULE ModelArtifact ---------------------------
(***************************************************************************)
(* engines/fair_price_catboost.py: the trained model that the fair-price   *)
(* engine loads.  A trainer process publishes two files, one os.replace    *)
(* after the other; the threads of a server process load them, metadata    *)
(* first, and keep what they loaded for the rest of the process.  A file   *)
(* is the number of the transaction snapshot it was trained on.            *)
(***************************************************************************)
EXTENDS Naturals

CONSTANTS
  Valuers,        \* the server's threads that value a flat
  LastSnapshot,   \* bound: transaction snapshots
  MaxServerStarts \* bound: starts of the server process

ASSUME ArtifactAssumption == LastSnapshot \in Nat \ {0}

NoFile == 0
Unloaded == [loaded |-> FALSE]

VARIABLES
  snapshot,      \* the transaction history of today: _records_to_frame(...)
  modelFile,     \* model.cbm
  metadataFile,  \* metadata.json
  trainer,       \* the train command
  valuer,        \* per thread: where load_artifact is
  artifactCache, \* _ARTIFACT_CACHE of the server process
  starts

artifactVars ==
  <<snapshot, modelFile, metadataFile, trainer, valuer, artifactCache, starts>>

Resting == [at |-> "idle"]

ArtifactInit ==
  /\ snapshot = 1
  /\ modelFile = NoFile /\ metadataFile = NoFile
  /\ trainer = Resting
  /\ valuer = [v \in Valuers |-> Resting]
  /\ artifactCache = Unloaded
  /\ starts = 1

\* A new ingest, or a new month: other rows, another snapshot key.
NewSnapshot ==
  /\ snapshot < LastSnapshot
  /\ snapshot' = snapshot + 1
  /\ UNCHANGED <<modelFile, metadataFile, trainer, valuer, artifactCache, starts>>

\* train_artifact up to the staged files.
Train ==
  /\ trainer.at = "idle"
  /\ trainer' = [at |-> "staged", on |-> snapshot]
  /\ UNCHANGED <<snapshot, modelFile, metadataFile, valuer, artifactCache, starts>>

\* _publish_artifact with the two os.replace calls the other way round.
PublishMetadataFirst ==
  \/ /\ trainer.at = "staged"
     /\ metadataFile' = trainer.on
     /\ trainer' = [trainer EXCEPT !.at = "half"]
     /\ UNCHANGED <<snapshot, modelFile, valuer, artifactCache, starts>>
  \/ /\ trainer.at = "half"
     /\ modelFile' = trainer.on
     /\ trainer' = Resting
     /\ UNCHANGED <<snapshot, metadataFile, valuer, artifactCache, starts>>

Publish ==
  \/ /\ trainer.at = "staged"
     /\ modelFile' = trainer.on
     /\ trainer' = [trainer EXCEPT !.at = "half"]
     /\ UNCHANGED <<snapshot, metadataFile, valuer, artifactCache, starts>>
  \/ /\ trainer.at = "half"
     /\ metadataFile' = trainer.on
     /\ trainer' = Resting
     /\ UNCHANGED <<snapshot, modelFile, valuer, artifactCache, starts>>

TrainerStops ==
  /\ trainer.at # "idle"
  /\ trainer' = Resting
  /\ UNCHANGED <<snapshot, modelFile, metadataFile, valuer, artifactCache, starts>>

Compatible == metadataFile = snapshot

\* load_artifact without a cached artifact: both files exist and the metadata
\* was made from the rows this valuation reads.
ReadMetadata(v) ==
  /\ valuer[v].at = "idle"
  /\ ~artifactCache.loaded
  /\ modelFile # NoFile /\ metadataFile # NoFile
  /\ Compatible
  /\ valuer' = [valuer EXCEPT ![v] = [at |-> "described", by |-> metadataFile]]
  /\ UNCHANGED <<snapshot, modelFile, metadataFile, trainer, artifactCache, starts>>

\* model.load_model, then the cache: the last thread to load decides.
LoadModel(v) ==
  /\ valuer[v].at = "described"
  /\ artifactCache' = [loaded |-> TRUE, model |-> modelFile, metadata |-> valuer[v].by]
  /\ valuer' = [valuer EXCEPT ![v] = Resting]
  /\ UNCHANGED <<snapshot, modelFile, metadataFile, trainer, starts>>

\* A loaded artifact is kept, whatever is published afterwards: only a new
\* process looks at the files again.
ServerStarts ==
  /\ starts < MaxServerStarts
  /\ starts' = starts + 1
  /\ artifactCache' = Unloaded
  /\ valuer' = [v \in Valuers |-> Resting]
  /\ UNCHANGED <<snapshot, modelFile, metadataFile, trainer>>

ArtifactNext ==
  \/ NewSnapshot \/ Train \/ Publish \/ TrainerStops \/ ServerStarts
  \/ \E v \in Valuers : ReadMetadata(v) \/ LoadModel(v)

ArtifactSpec == ArtifactInit /\ [][ArtifactNext]_artifactVars

-----------------------------------------------------------------------------

ArtifactTypeOK ==
  /\ snapshot \in 1..LastSnapshot
  /\ {modelFile, metadataFile} \subseteq NoFile..LastSnapshot
  /\ trainer \in {Resting} \cup [at : {"staged", "half"}, on : 1..LastSnapshot]
  /\ \A v \in Valuers :
       valuer[v] \in {Resting} \cup [at : {"described"}, by : 1..LastSnapshot]
  /\ artifactCache \in
       {Unloaded} \cup [loaded : {TRUE}, model : 1..LastSnapshot, metadata : 1..LastSnapshot]

\* The two files are replaced one after the other, a trainer may stop between
\* them and threads load while they are being replaced: a loaded model is
\* never from an older training than the residuals, medians and supported flat
\* types it is used with, and never older than the rows it was accepted for.
ModelNotOlderThanMetadata ==
  artifactCache.loaded => artifactCache.metadata <= artifactCache.model

=============================================================================

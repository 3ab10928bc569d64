-------------------------- MODULE MCIngestService --------------------------
(* Instances of IngestService for TLC: versions are strings, since records    *)
(* hold them beside "seed".                                                   *)
EXTENDS IngestService, TLC

TwoVersions == {"v1", "v2"}
TwoOffers == "v1" :> {"button", "grid"} @@ "v2" :> {"button"}

\* One component of a version from npm, of which a re-ingest makes all; and
\* the other version, as a .zip and as a .tgz, looked at for what it offers.
ThreeRequests ==
    {[remote |-> "kendo", version |-> "v1", from |-> "npm", discover |-> FALSE,
      include |-> {"grid"}],
     [remote |-> "kendo", version |-> "v2", from |-> "zip", discover |-> TRUE,
      include |-> {}],
     [remote |-> "kendo", version |-> "v2", from |-> "tgz", discover |-> TRUE,
      include |-> {}]}
=============================================================================

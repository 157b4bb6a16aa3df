----------------------- MODULE MCSnapshotInstallation -----------------------
(* An instance of SnapshotInstallation for TLC.                            *)
EXTENDS SnapshotInstallation
AllReleases == {"none", "1.0.0", "1.1.0", "1.1.1", "1.2.0", "1.2.1", "1.3.0", "1.3.1"}
=============================================================================

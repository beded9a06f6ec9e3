-------------------------- MODULE MCBackupVolumes --------------------------
(***************************************************************************)
(* Instances of BackupVolumes for TLC.                                     *)
(***************************************************************************)
EXTENDS BackupVolumes, TLC

Symmetry == Permutations(FileSystems) \cup Permutations(Volumes)
=============================================================================

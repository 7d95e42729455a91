-------------------------- MODULE MCIdleCollector --------------------------
(***************************************************************************)
(* The collector beside one client, in a service that runs without         *)
(* -per-user-rate-mbit: the flag decides which classes a start records,    *)
(* which Collect never reads.                                              *)
(***************************************************************************)
EXTENDS IdleCollector

NoFlag == perUser = NoRate

MCInit == GcInit /\ NoFlag
MCNext == Service \/ (GcRestart /\ NoFlag')

MCSpec == MCInit /\ [][MCNext]_vars
MCLiveSpec == MCInit /\ [][Service]_vars /\ GcFairness
=============================================================================

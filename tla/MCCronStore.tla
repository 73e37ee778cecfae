----------------------------- MODULE MCCronStore -----------------------------
(* A small instance of the cron job file: see MCCronStore.cfg.              *)
EXTENDS CronStore, TLC

Symmetry == Permutations(Jobs) \cup Permutations(Threads)
=============================================================================

------------------------------- MODULE MCCalls -------------------------------
(***************************************************************************)
(* A process that draws random integers (PrioRand), or calls the functions *)
(* of prio/ one after the other, any step of which may fail                *)
(* (PrioLifetimes).                                                        *)
(***************************************************************************)
EXTENDS PrioRand, PrioLifetimes

VARIABLE task
mcVars == <<randVars, lifeVars, task>>

NoCall ==
    fn = "MPArray_new" /\ pc = 0 /\ mem = <<>> /\ failed = FALSE /\ undef = FALSE /\ rv = "none"

MCInit ==
    /\ RandInit
    /\ \/ task = "draw" /\ NoCall
       \/ task = "call" /\ LifeInit

MCNext ==
    /\ \/ task = "draw" /\ RandNext /\ UNCHANGED lifeVars
       \/ task = "call" /\ LifeNext /\ UNCHANGED randVars
    /\ UNCHANGED task

MCSpec == MCInit /\ [][MCNext]_mcVars /\ RandFairness

MCCallees == DOMAIN Table

-----------------------------------------------------------------------------
(* Wherever the first failure is, the cleanup label releases only pointers *)
(* that were set; a function that fails leaves its caller owning what it   *)
(* owned before, and one that succeeds adds exactly its result.            *)
(* fft_interpolate_raw is left out of the first part: it jumps to the      *)
(* label before n_inverse is set (poly.c:117).                             *)
CleanupExact ==
    task = "call" => (fn # "fft_interpolate_raw" => CleanupSafe) /\ NothingLeaks

(* A function in which a step failed does not return success.  Left out    *)
(* are poly_fft, which always returns success (poly.c:203), and PRG_new,   *)
(* which does not look whether its key was derived (prg.c:87).             *)
ErrorsReportedElsewhere ==
    task = "call" /\ fn \notin {"poly_fft", "PRG_new"} => ErrorsReported
=============================================================================

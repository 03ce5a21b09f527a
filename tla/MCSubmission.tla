---------------------------- MODULE MCSubmission ----------------------------
(***************************************************************************)
(* A process that creates configurations, runs the transforms of poly.c,   *)
(* or follows one submission from the client to the verdict.               *)
(***************************************************************************)
EXTENDS PrioSubmission, PrioConfig, MCPoly

MCRnd ==
    {[triple |-> [a1 |-> x, b1 |-> 5, a2 |-> 11, b2 |-> y, c2 |-> 7],
      f0 |-> x, f0A |-> 6, g0 |-> y, g0A |-> 2, h0A |-> 16,
      seed |-> Array(NumFields + N, LAMBDA i : (i * i * 3 + x) % Modulus)] :
        x \in {0, 4}, y \in {0, 9}}

VARIABLE task
mcVars == <<submissionVars, configVars, polyVars, task>>

NoSubmission == data = <<>> /\ packets = <<>> /\ altered = FALSE /\ point = 0 /\ verdict = "none"
NoTransform == points = <<>> /\ at = 0 /\ result = <<>>

MCInit ==
    /\ ConfigInit
    /\ \/ task = "configure" /\ NoSubmission /\ NoTransform
       \/ task = "transform" /\ NoSubmission /\ PolyInit
       \/ task = "submit" /\ SubmissionInit /\ NoTransform

MCNext ==
    /\ \/ task = "configure" /\ ConfigNext /\ UNCHANGED <<submissionVars, polyVars>>
       \/ task = "transform" /\ PolyNext /\ UNCHANGED <<submissionVars, configVars>>
       \/ task = "submit" /\ SubmissionNext /\ UNCHANGED <<configVars, polyVars>>
    /\ UNCHANGED task

MCSpec == MCInit /\ [][MCNext]_mcVars
=============================================================================

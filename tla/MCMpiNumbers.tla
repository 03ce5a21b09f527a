---------------------------- MODULE MCMpiNumbers ----------------------------
(***************************************************************************)
(* Digits of two bits: a caller of mpi.c's arithmetic and number theory,   *)
(* with numbers of up to three digits, or a caller of mplogic.c.           *)
(***************************************************************************)
EXTENDS MpiNumber, MpLogic

VARIABLE caller
mcVars == <<vars, logicVars, caller>>

MCInit ==
  \/ caller = "arith" /\ Init /\ a = Fresh(<<0>>) /\ b = a
  \/ caller = "logic" /\ Init /\ LogicInit

MCNext ==
  /\ \/ caller = "arith" /\ (Next \/ NumberNext) /\ UNCHANGED logicVars
     \/ caller = "logic" /\ LogicNext /\ UNCHANGED vars
  /\ UNCHANGED caller

MCSpec == MCInit /\ [][MCNext]_mcVars
=============================================================================

----------------------------- MODULE MCParameters -----------------------------
(* The acquisition parameters on their way to the recorder, and the trigger    *)
(* they are for.  The two models share no state: a behaviour is one of them,   *)
(* the other stays where it begins.                                            *)
EXTENDS MCAcqParmPath, MCTrigger

VARIABLE part
allVars == <<part, vars, trgVars>>

\* While the path runs, the trigger begins in one state.
ParametersInit ==
  /\ part \in {"path", "trigger"}
  /\ Init /\ TrgInit
  /\ part = "path" => rWr.parms = CHOOSE p \in Parms : TRUE

Path == part = "path" /\ Next /\ UNCHANGED <<part, trgVars>>
Trg  == part = "trigger" /\ TrgNext /\ UNCHANGED <<part, vars>>

\* The fairness of FairSpec and TrgFairSpec, for the part that runs.
ParametersSpec ==
  /\ ParametersInit /\ [][Path \/ Trg]_allVars
  /\ WF_vars(part = "path" /\ BusClk(TRUE, TRUE)) /\ WF_vars(part = "path" /\ MemClk(FALSE))
  /\ WF_trgVars(part = "trigger" /\ TrgNext)
  /\ SF_trgVars(part = "trigger" /\ \E s \in Samples, released \in BOOLEAN : Sampled(s, released))
===============================================================================

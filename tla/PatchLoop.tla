----------------------------- MODULE PatchLoop -----------------------------
(***************************************************************************)
(* What a run promises of its patch: attempt follows attempt, up to a      *)
(* limit; each proposes at most one patch, which is tested as it is and    *)
(* reviewed only if it passed or no attempt is left; the run ends once.    *)
(***************************************************************************)
EXTENDS Naturals

CONSTANTS Patches,     \* the patches an attempt may propose
          MaxAttempts

VARIABLES
  attempt,  \* the attempt under way
  proposal, \* its patch, {} while there is none
  phase     \* "working", "passed", "failed", "repair", or how the run ended

Init == attempt = 1 /\ proposal = {} /\ phase = "working"

Propose ==
  /\ phase = "working" /\ proposal = {}
  /\ proposal' \in Patches /\ proposal' # {}
  /\ UNCHANGED <<attempt, phase>>

\* The verdict of the tests; a patch that fails is repaired while it can be.
Test ==
  /\ phase = "working"
  /\ \/ phase' = "passed" /\ proposal # {}
     \/ phase' = IF attempt < MaxAttempts THEN "repair" ELSE "failed"
  /\ UNCHANGED <<attempt, proposal>>

Review ==
  /\ phase \in {"passed", "failed"}
  /\ \/ phase' \in {"COMPLETED", "HUMAN_REVIEW"}
     \/ attempt < MaxAttempts /\ phase' = "repair"
  /\ UNCHANGED <<attempt, proposal>>

\* The next attempt starts from nothing.
Repair ==
  /\ phase = "repair"
  /\ attempt' = attempt + 1
  /\ proposal' = {} /\ phase' = "working"

\* A run that makes no attempt: an explanation, a decision to ask a person.
Skip ==
  /\ phase = "working" /\ attempt = 1 /\ proposal = {}
  /\ phase' \in {"COMPLETED", "HUMAN_REVIEW"}
  /\ UNCHANGED <<attempt, proposal>>

Fail ==
  /\ phase \in {"working", "passed", "failed", "repair"}
  /\ phase' \in {"FAILED", "interrupted"}
  /\ UNCHANGED <<attempt, proposal>>

Next == Propose \/ Test \/ Review \/ Repair \/ Skip \/ Fail

Spec == Init /\ [][Next]_<<attempt, proposal, phase>>
=============================================================================

---------------------------- MODULE MCExecution ----------------------------
(* One run whose agent can edit two tracked files and write a file that
   .gitignore names; limits small enough that each of them is reached.         *)
EXTENDS Execution
CONSTANTS one, two, ignored
ThreeEdits == {one, two, ignored}
OneIgnored == {ignored}
AllWorkflows == {"standard", "explanation", "dynamic"}
AllClients == {"none", "transcript", "native"}
=============================================================================

----------------------------- MODULE Execution -----------------------------
(* One run of a task from the creation of its workspace to its release:
   executeWorkflow and its nodes (internal/runtime/workflow.go), the patch loop
   with its attempts, the tool loops of the patch and review agents
   (agent_tools.go, agents.go), the tool gateway's timeout and the retries of
   the language model client.  The planner's first plan and the task's statuses
   belong to TaskRuntime; the workspace to Workspace.

   The answers of the language model, the results of docker commands and of the
   tests are inputs.                                                           *)
EXTENDS Naturals, Sequences, Workspace

CONSTANTS Workflows,   \* the workflows a skill selects
          Clients,     \* "none", "transcript" (text tool calls), "native"
          MaxSteps,    \* maxWorkflowSteps
          MaxAttempts, \* maxPatchAttempts
          MaxCalls,    \* maxPatchEditToolCalls, maxAgentToolCalls
          MaxReads,    \* maxPatchReadCallsWithoutEdit
          MaxRepeats,  \* maxPatchRepeatedToolCall
          MaxEmpty,    \* maxPatchEmptyGenerateAttempts
          MaxFinals,   \* maxPatchFinalAnswersWithoutEdit
          MaxRetries,  \* DEEPSEEK_MAX_RETRIES
          MaxRound,    \* bound: tool calls in one native answer
          MaxFaults    \* bound: docker faults and crashes

ASSUME ExecutionAssumption ==
  /\ Workflows \subseteq {"standard", "explanation", "dynamic"}
  /\ Clients \subseteq {"none", "transcript", "native"}
  /\ {MaxSteps, MaxAttempts, MaxCalls, MaxReads, MaxRepeats, MaxEmpty, MaxFinals} \subseteq Nat \ {0}
  /\ {MaxRetries, MaxRound, MaxFaults} \subseteq Nat

VARIABLES
  setup,  \* the model client, and whether the task asks for documentation
  run,    \* its workflow, place, node count, attempt, target and outcome
  loop,   \* the counters of the tool loop in progress
  work,   \* the attempt's proposal, test report, and the last review decision
  ws,     \* the workspace
  faults  \* docker faults and crashes so far

vars == <<setup, run, loop, work, ws, faults>>

Nodes == {"orchestrator", "codebase", "explainer", "patch", "finish"}
Places == Nodes \cup {"create", "test", "review", "replan", "reset", "close", "done"}
Decisions == {"APPROVE_PROPOSAL", "REQUEST_CHANGES", "HUMAN_REVIEW_REQUIRED"}
Outcomes == {"running", "COMPLETED", "HUMAN_REVIEW", "FAILED", "interrupted"}

(* A tool call is told apart by its name and arguments: each edit, a read, the
   patch generation, a tool outside the allow list. *)
Calls == Edits \cup {"read", "generate", "denied"}

(* The calls one answer asks for: none is a final answer; a text answer holds at
   most one. *)
Rounds == UNION {[1..n -> Calls] : n \in 0..(IF setup.client = "native" THEN MaxRound ELSE 1)}

NoLoop == [calls |-> 0, reads |-> 0, empties |-> 0, finals |-> 0, tries |-> 0,
           edited |-> FALSE, seen |-> [c \in Calls |-> 0], queue |-> <<>>]

NoWork == [proposal |-> {}, report |-> NoReport, decision |-> "none", by |-> 0]

----------------------------------------------------------------------------
(* Where a run goes next.                                                     *)

Ended(outcome) == [run EXCEPT !.at = "close", !.outcome = outcome]

Failed == Ended("FAILED")

(* The workflow loop: one more node, within maxWorkflowSteps.  The patch loop is
   the last node of every workflow: nothing reads the workflow, the target or
   the count again, and the run drops them.                                    *)
Visit(node) ==
  IF run.step = MaxSteps THEN Failed
  ELSE IF node = "patch" THEN [run EXCEPT !.at = node, !.step = 0, !.target = "patch_loop", !.workflow = "standard"]
  ELSE [run EXCEPT !.at = node, !.step = @ + 1]

(* The node after codebase: the workflow's own, unless the dynamic workflow's
   decision named another target. *)
AfterCodebase ==
  IF run.workflow = "explanation" \/ (run.workflow = "dynamic" /\ run.target = "explainer")
  THEN "explainer" ELSE "patch"

LastAttempt == run.attempt = MaxAttempts

\* Mutant: a failing report is reviewed like a passing one.
AfterTestReviews(report) == IF report.applied THEN "review" ELSE "replan"

(* After the tests: a passing report is reviewed, a failing one only when no
   attempt is left. *)
AfterTest(report) == IF (report.applied /\ report.passed) \/ LastAttempt THEN "review" ELSE "replan"

\* Mutants: no attempt is the last; whatever is not sent back is completed.
AfterReviewAlways(decision) ==
  IF decision = "REQUEST_CHANGES" THEN [run EXCEPT !.at = "replan"]
  ELSE Ended(IF decision = "APPROVE_PROPOSAL" THEN "COMPLETED" ELSE "HUMAN_REVIEW")
AfterReviewCompletes(decision) ==
  IF decision = "REQUEST_CHANGES" /\ ~LastAttempt THEN [run EXCEPT !.at = "replan"]
  ELSE Ended("COMPLETED")

(* After the review: an approval completes the run, a request for changes is
   another attempt while there is one. *)
AfterReview(decision) ==
  IF decision = "REQUEST_CHANGES" /\ ~LastAttempt THEN [run EXCEPT !.at = "replan"]
  ELSE Ended(IF decision = "APPROVE_PROPOSAL" THEN "COMPLETED" ELSE "HUMAN_REVIEW")

----------------------------------------------------------------------------
Init ==
  /\ setup \in [client : Clients, doc : BOOLEAN]
  /\ run \in [workflow : Workflows, at : {"create"}, step : {0}, attempt : {1},
              target : {"patch_loop"}, outcome : {"running"}]
  /\ loop = NoLoop /\ work = NoWork /\ ws = NoWorkspace /\ faults = 0

At(place) == run.at = place

(* A docker command fails in the middle: at the gateway's time limit or when the
   run is cancelled its client is killed, and the container c lives on. *)
Interrupted(c) ==
  /\ faults < MaxFaults
  /\ faults' = faults + 1
  /\ ws' \in {ws, Orphan(ws, c)}

(* The workspace is created, and closed again when the import or the baseline
   commit fails; a killed client leaves its container and the volume.          *)
Create ==
  /\ At("create")
  /\ \/ /\ ws' = Baseline
        /\ run' = Visit(IF run.workflow = "dynamic" THEN "orchestrator" ELSE "codebase")
        /\ UNCHANGED faults
     \/ ws' = Close(Imported) /\ run' = Failed /\ UNCHANGED faults
     \/ /\ faults < MaxFaults /\ faults' = faults + 1
        /\ ws' = Close(Orphan(Imported, Command))
        /\ run' = Failed
  /\ UNCHANGED <<setup, loop, work>>

(* What the orchestrator answers: any text the model returns for the next node
   and the target; without a readable answer, or without a model, the defaults. *)
Default == [next |-> "codebase", target |-> "patch_loop"]
Choices == IF setup.client = "none" THEN {Default}
           ELSE [next : Nodes \cup {"unknown"}, target : {"patch_loop", "explainer"}]

Decide ==
  /\ At("orchestrator")
  /\ \E choice \in Choices :
       run' = CASE choice.next = "unknown" -> Failed
                [] choice.next = "finish" -> Ended("HUMAN_REVIEW")
                [] choice.next = "patch" -> Visit("patch")
                [] OTHER -> [Visit(choice.next) EXCEPT !.target = choice.target]
  /\ loop' = NoLoop
  /\ UNCHANGED <<setup, work, ws, faults>>

(* The codebase agent reads the workspace and builds the context pack. *)
Codebase ==
  /\ At("codebase")
  /\ run' = Visit(AfterCodebase)
  /\ UNCHANGED <<setup, loop, work, ws, faults>>

Explain ==
  /\ At("explainer")
  /\ run' = Visit("finish")
  /\ loop' = NoLoop
  /\ UNCHANGED <<setup, work, ws, faults>>

Finish ==
  /\ At("finish")
  /\ run' = Ended("COMPLETED")
  /\ UNCHANGED <<setup, loop, work, ws, faults>>

----------------------------------------------------------------------------
(* The patch agent and its edit loop.                                         *)

Editing == At("patch") /\ setup.client # "none"
Asking == Editing /\ loop.queue = <<>>
Calling == Editing /\ loop.queue # <<>>
Call == Head(loop.queue)
Taken == [loop EXCEPT !.queue = Tail(@)]
Counted == [Taken EXCEPT !.seen[Call] = @ + 1]

(* Without a model the patch agent describes the change and proposes nothing. *)
DescribePatch ==
  /\ At("patch") /\ setup.client = "none"
  /\ run' = [run EXCEPT !.at = "test"]
  /\ UNCHANGED <<setup, loop, work, ws, faults>>

(* The model answers with tool calls. *)
Answer ==
  /\ Asking /\ loop.calls < MaxCalls
  /\ \E round \in Rounds \ {<<>>} :
       loop' = [loop EXCEPT !.calls = @ + 1, !.queue = round, !.tries = 0]
  /\ UNCHANGED <<setup, run, work, ws, faults>>

(* generate_patch: a diff ends the loop at once, whatever calls are left in the
   round; an empty one, or an error, is tolerated MaxEmpty - 1 times.          *)
Empty(l) ==
  /\ loop' = [l EXCEPT !.empties = @ + 1]
  /\ run' = IF l.empties + 1 >= MaxEmpty THEN Failed ELSE run
  /\ UNCHANGED work

GeneratePatch(l) ==
  \/ /\ ws' = Stage(ws) /\ UNCHANGED faults
     /\ IF ws'.index = {} THEN Empty(l)
        ELSE /\ work' = [work EXCEPT !.proposal = ws'.index]
             /\ run' = [run EXCEPT !.at = "test"]
             /\ loop' = NoLoop
  \/ Interrupted(Command) /\ Empty(l)

(* An answer without tool calls: the patch is generated for the agent, once it
   has tried an edit. *)
FinalAnswer ==
  /\ Asking /\ loop.calls < MaxCalls
  /\ LET l == [loop EXCEPT !.calls = @ + 1, !.tries = 0] IN
     IF loop.edited THEN GeneratePatch(l)
     ELSE /\ loop' = [l EXCEPT !.finals = @ + 1]
          /\ run' = IF l.finals + 1 >= MaxFinals THEN Failed ELSE run
          /\ UNCHANGED <<work, ws, faults>>
  /\ UNCHANGED setup

(* A call is refused before it reaches the gateway: a tool outside the allow
   list, a patch before any edit, an edit already made (or tried).             *)
Premature == Call = "generate" /\ ~loop.edited
Refused == Call = "denied" \/ Premature \/ (Call \in Edits /\ loop.seen[Call] > 0)

(* The loop gives up: the same call once too often, reads without an edit, or
   no answer left. *)
Exhausted == \/ loop.seen[Call] >= MaxRepeats /\ ~Premature
             \/ Call = "read" /\ loop.reads >= MaxReads

GiveUp ==
  /\ \/ Asking /\ loop.calls >= MaxCalls
     \/ Calling /\ Exhausted
  /\ run' = Failed
  /\ loop' = NoLoop
  /\ UNCHANGED <<setup, work, ws, faults>>

Refuse ==
  /\ Calling /\ Refused /\ ~Exhausted
  /\ loop' = IF Premature THEN Taken
             ELSE [Counted EXCEPT !.reads = IF Call \in Edits THEN 0 ELSE @]
  /\ UNCHANGED <<setup, run, work, ws, faults>>

Read ==
  /\ Calling /\ Call = "read" /\ ~Exhausted
  /\ loop' = [Counted EXCEPT !.reads = @ + 1]
  /\ Interrupted(Command) \/ UNCHANGED <<ws, faults>>
  /\ UNCHANGED <<setup, run, work>>

(* An edit goes through the gateway; at its timeout the call fails and the
   container that holds the edit may still write it, or never do.              *)
Edit ==
  /\ Calling /\ Call \in Edits /\ ~Refused /\ ~Exhausted
  /\ loop' = [Counted EXCEPT !.edited = TRUE, !.reads = 0]
  /\ \/ \E result \in Apply(ws, Call) : ws' = result.ws /\ UNCHANGED faults
     \/ Interrupted(Call)
  /\ UNCHANGED <<setup, run, work>>

Generate ==
  /\ Calling /\ Call = "generate" /\ ~Refused /\ ~Exhausted
  /\ GeneratePatch(Counted)
  /\ UNCHANGED setup

----------------------------------------------------------------------------
(* The test agent, the reviewer, and the next attempt.                        *)

Tested(report) ==
  LET final == [report EXCEPT !.passed = @ \/ (setup.doc /\ report.applied)] IN
  /\ work' = [work EXCEPT !.report = final]
  /\ run' = [run EXCEPT !.at = AfterTest(final)]
  /\ loop' = NoLoop

(* Without a proposal there is nothing to test.  A documentation task passes
   once its patch applies.  At the command's timeout the tests count as failed
   and their container runs on. *)
Test ==
  /\ At("test")
  /\ \/ work.proposal = {} /\ Tested(NoReport) /\ UNCHANGED <<ws, faults>>
     \/ /\ work.proposal # {}
        /\ \E report \in RunTest(ws) : Tested(report)
        /\ UNCHANGED <<ws, faults>>
     \/ /\ work.proposal # {} /\ Interrupted(Command)
        /\ Tested([applied |-> TRUE, passed |-> FALSE, saw |-> ws.files])
  /\ UNCHANGED setup

Reviewed(decision) ==
  /\ work' = [work EXCEPT !.decision = decision, !.by = run.attempt]
  /\ run' = AfterReview(decision)
  /\ loop' = NoLoop

(* A round of the reviewer's read loop changes no file; a text client that asks
   for another tool ends the step, as does the last round. *)
ReviewRound ==
  /\ At("review") /\ setup.client # "none"
  /\ \/ /\ loop.calls < MaxCalls
        /\ loop' = [loop EXCEPT !.calls = @ + 1, !.tries = 0]
        /\ Interrupted(Command) \/ UNCHANGED <<ws, faults>>
        /\ UNCHANGED run
     \/ /\ loop.calls >= MaxCalls \/ setup.client = "transcript"
        /\ loop' = NoLoop
        /\ run' = Failed
        /\ UNCHANGED <<ws, faults>>
  /\ UNCHANGED <<setup, work>>

(* The decision the last line of the review names, human review if none does;
   without a model, what the report says. *)
Review ==
  /\ At("review") /\ loop.calls < MaxCalls
  /\ \E decision \in Decisions :
       /\ setup.client = "none" =>
            decision = IF work.report.applied /\ work.report.passed
                       THEN "APPROVE_PROPOSAL" ELSE "REQUEST_CHANGES"
       /\ Reviewed(decision)
  /\ UNCHANGED <<setup, ws, faults>>

\* Mutants: the old report stays in the context; the attempt is not counted.
ReplanKeeps ==
  /\ At("replan")
  /\ run' = [run EXCEPT !.at = "reset", !.attempt = @ + 1]
  /\ work' = [work EXCEPT !.proposal = {}]
  /\ loop' = NoLoop
  /\ UNCHANGED <<setup, ws, faults>>
ReplanAgain ==
  /\ At("replan")
  /\ run' = [run EXCEPT !.at = "reset"]
  /\ work' = [work EXCEPT !.proposal = {}, !.report = NoReport]
  /\ loop' = NoLoop
  /\ UNCHANGED <<setup, ws, faults>>

(* The planner plans the repair; patch, report and review leave the context. *)
Replan ==
  /\ At("replan")
  /\ run' = [run EXCEPT !.at = "reset", !.attempt = @ + 1]
  /\ work' = [work EXCEPT !.proposal = {}, !.report = NoReport]
  /\ loop' = NoLoop
  /\ UNCHANGED <<setup, ws, faults>>

(* Every attempt but the first begins with a reset workspace. *)
Reset ==
  /\ At("reset")
  /\ \/ ws' = ResetTree(ws) /\ run' = [run EXCEPT !.at = "patch"] /\ UNCHANGED faults
     \/ /\ faults < MaxFaults /\ faults' = faults + 1
        /\ ws' \in {ws, ResetTree(ws), Orphan(ws, Command)} /\ run' = Failed
  /\ UNCHANGED <<setup, loop, work>>

----------------------------------------------------------------------------
(* The language model client, failures, the end of the run.                   *)

Waiting == /\ setup.client # "none"
           /\ \/ run.at \in {"orchestrator", "explainer", "review", "replan"}
              \/ Asking /\ loop.calls < MaxCalls

(* A timeout, a 408, 429 or 5xx answer is tried again, MaxRetries times. *)
Retry ==
  /\ Waiting /\ loop.tries < MaxRetries
  /\ loop' = [loop EXCEPT !.tries = @ + 1]
  /\ UNCHANGED <<setup, run, work, ws, faults>>

(* An agent step fails: the model (after its retries), the store, a task that
   another run owns, a cancellation.  The run fails with it. *)
AgentFails ==
  /\ run.at \in {"orchestrator", "codebase", "explainer", "finish", "patch", "test", "review", "replan"}
  /\ run' = Failed
  /\ loop' = NoLoop
  /\ Interrupted(Command) \/ UNCHANGED <<ws, faults>>
  /\ UNCHANGED <<setup, work>>

\* Mutant: the workspace is closed by the path that ends well only.
CloseCompleted ==
  /\ At("close")
  /\ run' = [run EXCEPT !.at = "done"]
  /\ ws' = IF run.outcome = "FAILED" THEN ws ELSE Close(ws)
  /\ UNCHANGED <<setup, loop, work, faults>>

(* The deferred Close of executeWorkflow, after the outcome is stored. *)
CloseWorkspace ==
  /\ At("close")
  /\ run' = [run EXCEPT !.at = "done"]
  /\ \/ ws' = Close(ws) /\ UNCHANGED faults
     \/ faults < MaxFaults /\ faults' = faults + 1 /\ UNCHANGED ws
  /\ UNCHANGED <<setup, loop, work>>

(* The process dies; nothing of the run but its rows and its volume is left. *)
Crash ==
  /\ ~At("done") /\ faults < MaxFaults
  /\ run' = [run EXCEPT !.at = "done", !.outcome = IF @ = "running" THEN "interrupted" ELSE @]
  /\ loop' = NoLoop
  /\ faults' = faults + 1
  /\ UNCHANGED <<setup, work, ws>>

(* A container whose client is gone ends, its edit written. *)
LateWrite ==
  /\ \E c \in ws.late : ws' = Land(ws, c)
  /\ UNCHANGED <<setup, run, loop, work, faults>>

Agent == \/ Decide \/ Codebase \/ Explain \/ DescribePatch \/ Answer \/ FinalAnswer
         \/ GiveUp \/ Refuse \/ Read \/ Edit \/ Generate \/ Test
         \/ ReviewRound \/ Review \/ Replan \/ Retry \/ AgentFails

Worker == Create \/ Agent \/ Finish \/ Reset \/ CloseWorkspace

Next == Worker \/ Crash \/ LateWrite

Spec == Init /\ [][Next]_vars

(* The goroutine that executes the task runs on, and every call it makes comes
   back: the model client and the gateway have timeouts, docker answers.       *)
FairSpec == Spec /\ WF_vars(Worker)

----------------------------------------------------------------------------
TypeOK ==
  /\ setup \in [client : Clients, doc : BOOLEAN]
  /\ run \in [workflow : Workflows \cup {"standard"}, at : Places, step : 0..MaxSteps, attempt : 1..MaxAttempts,
              target : {"patch_loop", "explainer"}, outcome : Outcomes]
  /\ loop.calls \in 0..MaxCalls /\ loop.reads \in 0..MaxReads
  /\ loop.empties \in 0..MaxEmpty /\ loop.finals \in 0..MaxFinals
  /\ loop.tries \in 0..MaxRetries /\ loop.edited \in BOOLEAN
  /\ loop.seen \in [Calls -> 0..MaxRepeats] /\ loop.queue \in Seq(Calls)
  /\ work.proposal \subseteq Edits \ Ignored
  /\ work.report \in [applied : BOOLEAN, passed : BOOLEAN, saw : SUBSET Edits]
  /\ work.decision \in Decisions \cup {"none"} /\ work.by \in 0..MaxAttempts
  /\ ws \in Workspaces
  /\ faults \in 0..MaxFaults

(* Passing tests are about the patch that is proposed: what they ran on beyond
   the diff is a file git ignores, or the late write of an edit whose call had
   already been given up. *)
PatchIsTested ==
  work.report.passed /\ ws.volume =>
    /\ work.proposal # {} /\ work.proposal \subseteq work.report.saw
    /\ work.report.saw \ work.proposal \subseteq Ignored \cup ws.stray

(* A run is completed for an explanation, or because the reviewer approved the
   patch of that very attempt, and then its tests passed or no attempt was left
   to repair it. *)
CompletedIsEarned ==
  run.outcome = "COMPLETED" =>
    \/ work = NoWork
    \/ /\ work.decision = "APPROVE_PROPOSAL" /\ work.by = run.attempt
       /\ work.report.passed \/ LastAttempt

(* Without a docker fault or a crash no path out of the run leaves its volume
   behind: a failed import, an early decision, an error in any agent. *)
VolumeReleased == At("done") /\ faults = 0 => ~ws.volume

\* Where a run is in its patch loop, by its place, its report and its outcome.
Phase ==
  IF run.outcome # "running" THEN run.outcome
  ELSE CASE At("replan") -> "repair"
         [] At("review") -> IF work.report.applied /\ work.report.passed THEN "passed" ELSE "failed"
         [] OTHER -> "working"

(* executeWorkflow with runPatchLoop keeps the promises of a patch loop: an
   attempt changes neither its patch after the tests nor its verdict, a patch
   that failed is not reviewed while it can be repaired, an ended run stays. *)
Loop == INSTANCE PatchLoop WITH Patches <- SUBSET (Edits \ Ignored), attempt <- run.attempt,
                                proposal <- work.proposal, phase <- Phase
ImplementsLoop == Loop!Spec

(* Every run ends, whatever the model answers: the limits of the loops are
   enough. *)
ExecutionEnds == <>At("done")

(* docs/11-current-architecture.md:37: each repair attempt starts from the git
   baseline of the workspace. *)
AttemptsStartClean ==
  At("patch") /\ loop = NoLoop => ws.files = {}
=============================================================================

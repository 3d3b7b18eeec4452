-------------------------- MODULE EvaluationProofs --------------------------
(* Proofs about Evaluation, for any suite of cases, any number of workers    *)
(* and handlers that overwrite each other's counts, and any number of        *)
(* crashes: a completed batch has earned its status (CompletionIsEarned),    *)
(* the types, and the bound on the turns of the automatic review.            *)
EXTENDS Evaluation, FiniteSetTheorems, TLAPS

Earned == Cases \subseteq ended

\* CompletionIsEarned with what makes it inductive: a final status is known to
\* have been reached, and no goroutine holds a copy of the batch that says
\* more than that.
EarnedInv ==
  /\ row = [c \in Cases |-> row[c]]
  /\ sheet = [a \in Actors |-> sheet[a]]
  /\ \A c \in Cases : row[c].status \in Final => c \in ended
  /\ \A a \in Actors : sheet[a].status = "completed" => Earned
  /\ CompletionIsEarned

-----------------------------------------------------------------------------
(* The kinds of writes *)

\* What a step does to the runs: nothing, or one whole row.
KeepsRows ==
  /\ ended \subseteq ended'
  /\ row' = [c \in Cases |-> row'[c]]
  /\ \A c \in Cases : row'[c].status \in Final => row'[c] = row[c] \/ c \in ended'

\* What a step does to the copies of the batch: drop them or keep them.
KeepsSheets ==
  /\ sheet' = [a \in Actors |-> sheet'[a]]
  /\ \A a \in Actors : sheet'[a] = sheet[a] \/ sheet'[a] = NoBatch

LEMMA SameRows ==
  ASSUME EarnedInv, UNCHANGED <<row, ended>>
  PROVE  KeepsRows
  BY DEF EarnedInv, KeepsRows

LEMMA OneRow ==
  ASSUME EarnedInv, NEW c, NEW r, WriteRow(c, r)
  PROVE  KeepsRows
  BY DEF EarnedInv, KeepsRows, WriteRow

LEMMA SameSheets ==
  ASSUME EarnedInv, UNCHANGED sheet
  PROVE  KeepsSheets
  BY DEF EarnedInv, KeepsSheets

LEMMA OneSheet ==
  ASSUME EarnedInv, NEW a, sheet' = [sheet EXCEPT ![a] = NoBatch]
  PROVE  KeepsSheets
  BY DEF EarnedInv, KeepsSheets

\* A step that keeps the copies and leaves the batch alone, takes it from a
\* copy, or writes a status other than completed.
LEMMA EarnedStep ==
  ASSUME EarnedInv, KeepsRows, KeepsSheets,
         \/ UNCHANGED batch
         \/ \E a \in Actors : batch' = sheet[a]
         \/ batch'.status # "completed"
  PROVE  EarnedInv'
  <1>1. NoBatch.status # "completed"
    BY DEF NoBatch
  <1>2. Earned => Earned'
    BY DEF Earned, KeepsRows
  <1>3. \A a \in Actors : sheet'[a].status = "completed" => Earned'
    BY <1>1, <1>2 DEF EarnedInv, KeepsSheets
  <1>4. batch'.status = "completed" => Earned'
    BY <1>2 DEF EarnedInv, CompletionIsEarned, Earned
  <1>5. \A c \in Cases : row'[c].status \in Final => c \in ended'
    BY DEF EarnedInv, KeepsRows
  <1> QED BY <1>3, <1>4, <1>5 DEF EarnedInv, KeepsRows, KeepsSheets, CompletionIsEarned, Earned

LEMMA Leaving ==
  ASSUME EarnedInv, NEW a, Done(a) \/ (\E p, d, more : Proceed(a, p, d, more)) \/ Continue(a)
  PROVE  KeepsSheets
  BY OneSheet DEF Done, Proceed, Continue

-----------------------------------------------------------------------------
(* The steps *)

LEMMA SuiteEarned ==
  ASSUME EarnedInv, SuiteStep \/ SuiteFail
  PROVE  EarnedInv'
  <1>1. CASE SuiteBegin
    <2>1. UNCHANGED <<row, ended, sheet>> /\ batch'.status # "completed"
      BY <1>1 DEF SuiteBegin, NoBatch
    <2> QED BY <2>1, SameRows, SameSheets, EarnedStep
  <1>2. CASE SuiteTask
    <2>1. UNCHANGED <<row, ended, sheet, batch>>
      BY <1>2 DEF SuiteTask
    <2> QED BY <2>1, SameRows, SameSheets, EarnedStep
  <1>3. CASE SuiteRun
    <2>1. KeepsRows
      BY <1>3, OneRow DEF SuiteRun
    <2>2. KeepsSheets
      BY <1>3, Leaving, SameSheets DEF SuiteRun
    <2>3. UNCHANGED batch
      BY <1>3 DEF SuiteRun
    <2> QED BY <2>1, <2>2, <2>3, EarnedStep
  <1>4. CASE SuiteFail
    <2>1. UNCHANGED <<row, ended>> /\ batch'.status # "completed"
      BY <1>4 DEF SuiteFail, NoBatch
    <2>2. KeepsSheets
      BY <1>4, Leaving DEF SuiteFail
    <2> QED BY <2>1, <2>2, SameRows, EarnedStep
  <1> QED BY <1>1, <1>2, <1>3, <1>4 DEF SuiteStep

\* Counting: a batch is complete only when every row is final now.
LEMMA CountEarned ==
  ASSUME EarnedInv, NEW a \in Actors, sheet' = [sheet EXCEPT ![a] = Tally(@)],
         UNCHANGED <<row, ended, batch>>
  PROVE  EarnedInv'
  <1> DEFINE counted == {c \in Cases : Counts(row[c])}
             complete == Cardinality(counted) >= Cardinality(Cases)
  <1>2. /\ sheet' = [b \in Actors |-> sheet'[b]]
        /\ \A b \in Actors : b # a => sheet'[b] = sheet[b]
        /\ sheet'[a].status = IF complete THEN "completed" ELSE sheet[a].status
    BY DEF Tally, EarnedInv
  <1>3. complete => Earned
    <2> SUFFICES ASSUME complete  PROVE Earned
      OBVIOUS
    <2>1. /\ counted \subseteq Cases /\ IsFiniteSet(Cases)
      BY SuiteAssumption
    <2>2. /\ Cardinality(counted) \in Nat /\ Cardinality(Cases) \in Nat
          /\ Cardinality(counted) <= Cardinality(Cases)
          /\ Cardinality(counted) = Cardinality(Cases) => counted = Cases
      BY <2>1, FS_Subset, FS_CardinalityType
    <2>3. counted = Cases
      BY <2>2
    <2> QED BY <2>3 DEF Counts, EarnedInv, Earned
  <1> HIDE DEF complete
  <1>4. \A b \in Actors : sheet'[b].status = "completed" => Earned
    BY <1>2, <1>3 DEF EarnedInv
  <1> QED BY <1>2, <1>4 DEF EarnedInv, Earned, CompletionIsEarned

LEMMA StepEarned ==
  ASSUME EarnedInv, NEW a \in Actors, Step(a)
  PROVE  EarnedInv'
  <1> USE DEF store
  <1>1. CASE Finish(a)
    <2>1. UNCHANGED <<row, ended, sheet, batch>>
      BY <1>1 DEF Finish
    <2> QED BY <2>1, SameRows, SameSheets, EarnedStep
  <1>2. CASE Fail(a)
    <2>1. UNCHANGED <<row, ended, batch>>
      BY <1>2 DEF Fail
    <2>2. KeepsSheets
      BY <1>2, Leaving, SameSheets DEF Fail
    <2> QED BY <2>1, <2>2, SameRows, EarnedStep
  <1>3. CASE FinalizeRead(a)
    <2>1. UNCHANGED <<row, ended, batch>>
      BY <1>3 DEF FinalizeRead
    <2>2. KeepsSheets
      BY <1>3, Leaving, SameSheets DEF FinalizeRead
    <2> QED BY <2>1, <2>2, SameRows, EarnedStep
  <1>4. CASE FinalizeWrite(a)
    <2>1. UNCHANGED <<sheet, batch>>
      BY <1>4 DEF FinalizeWrite
    <2>2. KeepsRows
      BY <1>4, OneRow DEF FinalizeWrite
    <2> QED BY <2>1, <2>2, SameSheets, EarnedStep
  <1>5. CASE Refresh(a)
    <2>1. UNCHANGED <<row, ended, batch>>
      BY <1>5 DEF Refresh
    <2>2. /\ sheet' = [b \in Actors |-> sheet'[b]]
          /\ \A b \in Actors : sheet'[b] = sheet[b] \/ sheet'[b] = batch
      BY <1>5 DEF Refresh, EarnedInv
    <2> QED BY <2>1, <2>2 DEF EarnedInv, Earned, CompletionIsEarned
  <1>6. CASE Count(a)
    BY <1>6, CountEarned DEF Count
  <1>7. CASE BatchWrite(a)
    <2>1. UNCHANGED <<row, ended>> /\ batch' = sheet[a]
      BY <1>7 DEF BatchWrite
    <2>2. KeepsSheets
      BY <1>7, Leaving DEF BatchWrite
    <2> QED BY <2>1, <2>2, SameRows, EarnedStep
  <1>8. CASE AutoReview(a)
    <2>1. UNCHANGED <<row, ended, batch>>
      BY <1>8 DEF AutoReview
    <2>2. KeepsSheets
      BY <1>8, Leaving, SameSheets DEF AutoReview, Decide
    <2> QED BY <2>1, <2>2, SameRows, EarnedStep
  <1>9. CASE Note(a)
    <2>1. UNCHANGED batch /\ KeepsRows
      BY <1>9, OneRow DEF Note
    <2>2. KeepsSheets
      BY <1>9, Leaving DEF Note
    <2> QED BY <2>1, <2>2, EarnedStep
  <1>10. CASE Review(a)
    <2>1. UNCHANGED <<row, ended, batch>>
      BY <1>10 DEF Review
    <2>2. Continue(a) \/ UNCHANGED sheet
      BY <1>10 DEF Review
    <2>3. KeepsSheets
      BY <2>2, Leaving, SameSheets
    <2> QED BY <2>1, <2>3, SameRows, EarnedStep
  <1>11. CASE Rejected(a)
    <2>1. UNCHANGED <<row, ended, batch, sheet>>
      BY <1>11 DEF Rejected
    <2> QED BY <2>1, SameRows, SameSheets, EarnedStep
  <1>12. CASE RejectNote(a)
    <2>1. UNCHANGED batch /\ KeepsRows
      BY <1>12, OneRow DEF RejectNote
    <2>2. KeepsSheets
      BY <1>12, Leaving DEF RejectNote
    <2> QED BY <2>1, <2>2, EarnedStep
  <1> QED BY <1>1, <1>2, <1>3, <1>4, <1>5, <1>6, <1>7, <1>8, <1>9, <1>10, <1>11, <1>12 DEF Step

LEMMA FailEarned ==
  ASSUME EarnedInv, NEW a \in Actors, StoreFail(a)
  PROVE  EarnedInv'
  <1> USE DEF store
  <1>1. ASSUME UNCHANGED <<row, ended, batch>>, UNCHANGED sheet \/ Done(a) \/ Continue(a)
                 \/ \E p, d, more : Proceed(a, p, d, more)
        PROVE  EarnedInv'
    BY <1>1, SameRows, SameSheets, Leaving, EarnedStep
  <1>2. CASE FailUnseen(a) \/ FinalizeUnwritten(a) \/ AutoMisread(a) \/ ProposalUnread(a)
    BY <1>1, <1>2 DEF FailUnseen, FinalizeUnwritten, AutoMisread, Decide, ProposalUnread
  <1>3. CASE FinalizeUnread(a) \/ RefreshFail(a) \/ ReviewUnwritten(a) \/ FeedbackLost(a)
    BY <1>1, <1>3 DEF FinalizeUnread, RefreshFail, ReviewUnwritten, FeedbackLost
  <1>4. CASE AutoUnread(a) \/ NoteLost(a) \/ RejectNoteLost(a)
    BY <1>1, <1>4 DEF AutoUnread, NoteLost, RejectNoteLost
  <1>5. CASE FinalizeUnproven(a)
    <2>1. UNCHANGED <<sheet, batch>> /\ KeepsRows
      BY <1>5, OneRow DEF FinalizeUnproven
    <2> QED BY <2>1, SameSheets, EarnedStep
  <1>6. CASE SnapshotLost(a)
    BY <1>6, CountEarned DEF SnapshotLost
  <1> QED BY <1>2, <1>3, <1>4, <1>5, <1>6 DEF StoreFail

LEMMA EarnedNext == EarnedInv /\ [Next]_vars => EarnedInv'
  <1> SUFFICES ASSUME EarnedInv, [Next]_vars  PROVE EarnedInv'
    OBVIOUS
  <1>1. ASSUME UNCHANGED <<row, ended, sheet, batch>>  PROVE EarnedInv'
    BY <1>1, SameRows, SameSheets, EarnedStep
  <1>2. ASSUME NEW w \in Workers, Begin(w)  PROVE EarnedInv'
    BY <1>1, <1>2 DEF Begin
  <1>8. ASSUME NEW w \in Workers, BeginUnread(w)  PROVE EarnedInv'
    BY <1>1, <1>8 DEF BeginUnread, store, control
  <1>3. ASSUME NEW u \in Users, Request(u)  PROVE EarnedInv'
    BY <1>1, <1>3 DEF Request, store
  <1>4. ASSUME NEW c \in Cases, Cancel(c)  PROVE EarnedInv'
    BY <1>1, <1>4 DEF Cancel, control
  <1>5. CASE Crash
    <2>1. UNCHANGED <<row, ended, batch>> /\ sheet' = [a \in Actors |-> NoBatch]
      BY <1>5 DEF Crash
    <2>2. KeepsSheets
      BY <2>1 DEF KeepsSheets
    <2> QED BY <2>1, <2>2, SameRows, EarnedStep
  <1>6. ASSUME NEW a \in Workers \cup Users, Step(a) \/ StoreFail(a)  PROVE EarnedInv'
    BY <1>6, StepEarned, FailEarned DEF Actors
  <1>7. CASE UNCHANGED vars
    BY <1>1, <1>7 DEF vars, store, control
  <1> QED BY <1>2, <1>3, <1>4, <1>5, <1>6, <1>7, <1>8, SuiteEarned DEF Next

\* A batch is marked completed only after each of its runs has reached a final
\* status, however the refreshes, notes and crashes of any number of goroutines
\* interleave.
THEOREM CompletionsEarned == Spec => []CompletionIsEarned
  <1>1. Init => EarnedInv
    BY DEF Init, EarnedInv, NoRow, NoBatch, Final, Earned, CompletionIsEarned
  <1>2. EarnedInv /\ [Next]_vars => EarnedInv'
    BY EarnedNext
  <1>3. EarnedInv => CompletionIsEarned
    BY DEF EarnedInv
  <1> QED BY <1>1, <1>2, <1>3, PTL DEF Spec

-----------------------------------------------------------------------------
(* Types *)

\* What a goroutine holds at the points where it matters.
Shape ==
  \A a \in Actors :
    /\ pc[a] = "idle" <=> job[a] = None
    /\ pc[a] = "idle" => again[a] = "none"
    /\ pc[a] \in {"note", "review"} =>
         /\ decision[a] \in {"continue", "COMPLETED", "FAILED"}
         /\ again[a] \in {"none", "note"} /\ (again[a] = "note" => decision[a] = "FAILED")
    /\ pc[a] \in {"count", "batchWrite"} => sheet[a].status # "absent"

\* No goroutine but the suite's works on a case.
Unknown(c) ==
  row[c] = NoRow /\ c \notin queued /\ \A a \in Workers \cup Users : job[a] # c

\* The suite runs once, and nobody works on a case before its task is queued.
SuiteInv ==
  /\ batch.status = "absent" => \A c \in Cases : task[c] = "ABSENT"
  /\ pc[Suite] \in {"idle", "execute", "addRun"} /\ (pc[Suite] # "idle" => batch.status # "absent")
  /\ pc[Suite] = "execute" => task[job[Suite]] = "ABSENT"
  /\ pc[Suite] = "addRun" =>
       Unknown(job[Suite]) /\ task[job[Suite]] \in {"CREATED", "CANCELLED"}
  /\ \A c \in Cases : task[c] = "ABSENT" => Unknown(c)

TypeInv == TypeOK /\ Shape /\ SuiteInv

LEMMA NextCaseIs ==
  ASSUME NEW c \in Cases, task[c] = "ABSENT"
  PROVE  NextCase \in Cases /\ task[NextCase] = "ABSENT"
  BY DEF NextCase

LEMMA Constants ==
  /\ NoRow \in Row /\ NoBatch \in Batch
  /\ Cardinality(Cases) \in Nat
  /\ \A S \in SUBSET Cases : Cardinality(S) \in 0..Cardinality(Cases)
  <1>1. Cardinality(Cases) \in Nat
    BY SuiteAssumption, FS_CardinalityType
  <1>2. \A S \in SUBSET Cases : Cardinality(S) \in 0..Cardinality(Cases)
    BY <1>1, SuiteAssumption, FS_Subset, FS_CardinalityType
  <1> QED BY <1>1, <1>2 DEF NoRow, NoBatch, Row, Batch, RowStatus

LEMMA SuiteTypes ==
  ASSUME TypeInv, SuiteStep \/ SuiteFail
  PROVE  TypeInv'
  <1> USE ActorsAssumption, SuiteAssumption, Constants, BoundsAssumption
      DEF TypeInv, Actors, Decision, Points, TaskStatus
  <1>1. CASE SuiteBegin
    <2>1. NextCase \in Cases /\ task[NextCase] = "ABSENT"
      BY <1>1, NextCaseIs DEF SuiteBegin, SuiteInv
    <2>2. TypeOK'
      BY <1>1, <2>1 DEF TypeOK, SuiteBegin, Goto, Batch, NoBatch
    <2>3. Shape'
      BY <1>1, <2>1 DEF Shape, TypeOK, SuiteBegin, Goto
    <2>4. SuiteInv'
      BY <1>1, <2>1 DEF SuiteInv, TypeOK, SuiteBegin, Goto, NoBatch, Unknown
    <2> QED BY <2>2, <2>3, <2>4
  <1>2. CASE SuiteTask
    <2>1. job[Suite] \in Cases
      BY <1>2 DEF SuiteTask, Shape, TypeOK
    <2>2. TypeOK'
      BY <1>2, <2>1 DEF TypeOK, SuiteTask, Goto
    <2>3. Shape'
      BY <1>2, <2>1 DEF Shape, TypeOK, SuiteTask, Goto
    <2>4. Unknown(job[Suite])' /\ \A c \in Cases : Unknown(c) => Unknown(c)'
      BY <1>2, <2>1 DEF SuiteInv, SuiteTask, Unknown
    <2>5. SuiteInv'
      BY <1>2, <2>1, <2>4 DEF SuiteInv, TypeOK, SuiteTask, Goto
    <2> QED BY <2>2, <2>3, <2>5
  <1>3. CASE SuiteRun
    <2>1. job[Suite] \in Cases
      BY <1>3 DEF SuiteRun, Shape, TypeOK
    <2>2. [status |-> "queued", passed |-> FALSE] \in Row
      BY DEF Row, RowStatus
    <2>3. CASE \A c \in Cases : task[c] # "ABSENT"
      <3>1. TypeOK'
        BY <1>3, <2>1, <2>2, <2>3 DEF TypeOK, SuiteRun, Done, Goto, WriteRow
      <3>2. Shape'
        BY <1>3, <2>1, <2>3 DEF Shape, TypeOK, SuiteRun, Done, Goto
      <3>3. SuiteInv'
        BY <1>3, <2>1, <2>3 DEF SuiteInv, TypeOK, SuiteRun, Done, Goto, WriteRow, Unknown
      <3> QED BY <3>1, <3>2, <3>3
    <2>4. CASE ~\A c \in Cases : task[c] # "ABSENT"
      <3>0. NextCase \in Cases /\ task[NextCase] = "ABSENT"
        BY <2>4, NextCaseIs
      <3>1. TypeOK'
        BY <1>3, <2>1, <2>2, <2>4, <3>0 DEF TypeOK, SuiteRun, Goto, WriteRow
      <3>2. Shape'
        BY <1>3, <2>1, <2>4, <3>0 DEF Shape, TypeOK, SuiteRun, Goto
      <3>3. SuiteInv'
        BY <1>3, <2>1, <2>4, <3>0 DEF SuiteInv, TypeOK, SuiteRun, Goto, WriteRow, Unknown
      <3> QED BY <3>1, <3>2, <3>3
    <2> QED BY <2>3, <2>4
  <1>4. CASE SuiteFail
    <2>1. TypeOK'
      BY <1>4 DEF TypeOK, SuiteFail, Done, Goto, Batch, NoBatch
    <2>2. Shape'
      BY <1>4 DEF Shape, TypeOK, SuiteFail, Done, Goto
    <2>3. SuiteInv'
      BY <1>4 DEF SuiteInv, TypeOK, SuiteFail, Done, Goto, Unknown, NoBatch
    <2> QED BY <2>1, <2>2, <2>3
  <1> QED BY <1>1, <1>2, <1>3, <1>4 DEF SuiteStep

-----------------------------------------------------------------------------
(* The steps of a goroutine *)

\* What a step of goroutine a for case c, the suite's excepted, may change.
OnlyOf(a, c) ==
  /\ \A b \in Actors \ {a} : pc'[b] = pc[b] /\ job'[b] = job[b]
  /\ job'[a] \in {c, None}
  /\ \A d \in Cases \ {c} : row'[d] = row[d] /\ task'[d] = task[d] /\ (d \in queued' => d \in queued)
  /\ task'[c] # "ABSENT" /\ (batch'.status = "absent" => batch.status = "absent")

LEMMA SuiteKept ==
  ASSUME TypeInv, NEW a \in Workers \cup Users, NEW c \in Cases, task[c] # "ABSENT",
         pc[Suite] = "addRun" => job[Suite] # c, OnlyOf(a, c)
  PROVE  SuiteInv'
  <1> USE ActorsAssumption
  <1>1. \A d \in Cases \ {c} : Unknown(d) => Unknown(d)'
    BY DEF Unknown, OnlyOf, Actors
  <1>2. pc'[Suite] = pc[Suite] /\ job'[Suite] = job[Suite]
    BY DEF OnlyOf, Actors
  <1>3. pc[Suite] # "idle" => job[Suite] \in Cases \ {c}
    BY DEF TypeInv, TypeOK, Shape, SuiteInv, Actors
  <1>4. batch'.status = "absent" => FALSE
    BY DEF OnlyOf, TypeInv, SuiteInv
  <1> QED BY <1>1, <1>2, <1>3, <1>4 DEF TypeInv, SuiteInv, OnlyOf

\* A goroutine works on a case whose task exists and is not the suite's.
LEMMA Working ==
  ASSUME TypeInv, NEW a \in Workers \cup Users, pc[a] # "idle"
  PROVE  /\ job[a] \in Cases /\ task[job[a]] # "ABSENT"
         /\ pc[Suite] = "addRun" => job[Suite] # job[a]
  BY ActorsAssumption DEF TypeInv, TypeOK, Shape, SuiteInv, Unknown, Actors

\* Ending or going on with the same case keeps the types.
LEMMA ContinueTypes ==
  ASSUME TypeInv, NEW a \in Workers \cup Users, pc[a] # "idle", Continue(a)
  PROVE  /\ pc' \in [Actors -> Points] /\ job' \in [Actors -> Cases \cup {None}]
         /\ decision' \in [Actors -> Decision] /\ again' \in [Actors -> Decision \cup {"note"}]
         /\ mine' \in [Actors -> Row] /\ sheet' \in [Actors -> Batch]
         /\ Shape'
         /\ job'[a] \in {job[a], None}
         /\ \A b \in Actors \ {a} : pc'[b] = pc[b] /\ job'[b] = job[b]
  <1> USE ActorsAssumption, Constants, Working
      DEF TypeInv, TypeOK, Actors, Decision, Points, Done, Proceed, Goto
  <1>1. CASE again[a] = "note" /\ Proceed(a, "rejected", decision[a], "note")
    BY <1>1 DEF Shape
  <1>2. CASE again[a] \notin {"none", "note"} /\ Proceed(a, "finalize", again[a], "none")
    BY <1>2 DEF Shape
  <1>3. CASE Proceed(a, "auto", "none", "none")
    BY <1>3 DEF Shape
  <1>4. CASE Done(a)
    BY <1>4 DEF Shape
  <1> QED BY <1>1, <1>2, <1>3, <1>4 DEF Continue

\* Counting keeps the types, whether or not a snapshot is stored.
LEMMA CountTypes ==
  ASSUME TypeInv, NEW a \in Workers \cup Users, pc[a] = "count",
         sheet' = [sheet EXCEPT ![a] = Tally(@)],
         metrics' \subseteq metrics \cup {sheet'[a].passed}, Goto(a, "batchWrite"),
         UNCHANGED <<task, row, evidence, skip, turns, batch, queued, job, decision, again, mine, ended>>,
         disturbances' \in 0..MaxDisturbances, UNCHANGED <<touched, stranded>>
  PROVE  TypeInv'
  <1> DEFINE c == job[a]
             s == Tally(sheet[a])
  <1>0. /\ c \in Cases /\ task[c] # "ABSENT" /\ (pc[Suite] = "addRun" => job[Suite] # c)
        /\ batch.status # "absent" /\ a \in Actors
    BY Working DEF TypeInv, SuiteInv, Actors
  <1> USE Constants DEF TypeInv, Points, Goto
  <1>1. s \in Batch /\ s.passed \in 0..Cardinality(Cases) /\ (s.status = "absent" => sheet[a].status = "absent")
    <2> DEFINE counted == {d \in Cases : Counts(row[d])}
               complete == Cardinality(counted) >= Cardinality(Cases)
    <2>1. sheet[a].status \in {"absent", "running", "completed", "failed"}
      BY <1>0 DEF TypeOK, Batch
    <2>2. counted \in SUBSET Cases /\ {d \in counted : row[d].passed} \in SUBSET Cases
      OBVIOUS
    <2>3. s = [status |-> IF complete THEN "completed" ELSE sheet[a].status,
               completed |-> Cardinality(counted),
               passed |-> Cardinality({d \in counted : row[d].passed})]
      BY DEF Tally
    <2> HIDE DEF complete, s
    <2> QED BY <2>1, <2>2, <2>3 DEF Batch
  <1>2. sheet' = [sheet EXCEPT ![a] = s]
    BY <1>0 DEF TypeOK
  <1> HIDE DEF s
  <1>3. TypeOK'
    <2>1. sheet' \in [Actors -> Batch] /\ sheet'[a] = s
      BY <1>0, <1>1, <1>2 DEF TypeOK
    <2>2. metrics' \subseteq 0..Cardinality(Cases)
      BY <1>1, <2>1 DEF TypeOK
    <2>3. pc' \in [Actors -> Points]
      BY DEF TypeOK
    <2> QED BY <2>1, <2>2, <2>3 DEF TypeOK
  <1>4. Shape'
    <2>1. sheet'[a].status # "absent"
      BY <1>0, <1>1, <1>2 DEF TypeOK, Shape
    <2>2. \A b \in Actors \ {a} : sheet'[b] = sheet[b]
      BY <1>2 DEF TypeOK
    <2> QED BY <1>0, <2>1, <2>2 DEF TypeOK, Shape
  <1>5. OnlyOf(a, c)
    BY <1>0 DEF OnlyOf, TypeOK
  <1> QED BY <1>0, <1>3, <1>4, <1>5, SuiteKept

LEMMA BatchTypes ==
  ASSUME TypeInv, NEW a \in Workers \cup Users,
         FinalizeRead(a) \/ FinalizeWrite(a) \/ Refresh(a) \/ Count(a) \/ BatchWrite(a)
  PROVE  TypeInv'
  <1> DEFINE c == job[a]
  <1>0. /\ c \in Cases /\ task[c] # "ABSENT" /\ (pc[Suite] = "addRun" => job[Suite] # c)
        /\ batch.status # "absent" /\ a \in Actors
    BY Working DEF TypeInv, SuiteInv, FinalizeRead, FinalizeWrite, Refresh, Count, BatchWrite, Actors
  <1> USE Constants DEF TypeInv, Points, Goto, store, Keep
  <1>1. CASE FinalizeRead(a)
    <2>1. CASE Continue(a)
      <3>1. TypeOK' /\ Shape'
        BY <1>1, <2>1, ContinueTypes DEF TypeOK, FinalizeRead
      <3>2. OnlyOf(a, c)
        BY <1>0, <1>1, <2>1, ContinueTypes DEF OnlyOf, FinalizeRead
      <3> QED BY <1>0, <3>1, <3>2, SuiteKept
    <2>2. CASE Goto(a, "finalWrite") /\ UNCHANGED <<job, decision, again, mine, sheet>>
      <3>1. TypeOK'
        BY <1>1, <2>2 DEF TypeOK, FinalizeRead
      <3>2. Shape'
        BY <1>0, <1>1, <2>2 DEF TypeOK, Shape, FinalizeRead
      <3>3. OnlyOf(a, c)
        BY <1>0, <1>1, <2>2 DEF OnlyOf, FinalizeRead, TypeOK
      <3> QED BY <1>0, <3>1, <3>2, <3>3, SuiteKept
    <2> QED BY <1>1, <2>1, <2>2 DEF FinalizeRead
  <1>2. CASE FinalizeWrite(a)
    <2>1. [status |-> RowStatusOf(decision[a]), passed |-> Passes(a, c)] \in Row
      BY <1>0 DEF Row, RowStatus, RowStatusOf, Final, Passes, TypeOK
    <2>2. TypeOK'
      BY <1>0, <1>2, <2>1 DEF TypeOK, FinalizeWrite, WriteRow
    <2>3. Shape'
      BY <1>0, <1>2 DEF TypeOK, Shape, FinalizeWrite
    <2>4. OnlyOf(a, c)
      BY <1>0, <1>2 DEF OnlyOf, FinalizeWrite, WriteRow, TypeOK
    <2> QED BY <1>0, <2>2, <2>3, <2>4, SuiteKept
  <1>3. CASE Refresh(a)
    <2>1. TypeOK'
      BY <1>0, <1>3 DEF TypeOK, Refresh
    <2>2. Shape'
      BY <1>0, <1>3 DEF TypeOK, Shape, Refresh
    <2>3. OnlyOf(a, c)
      BY <1>0, <1>3 DEF OnlyOf, Refresh, TypeOK
    <2> QED BY <1>0, <2>1, <2>2, <2>3, SuiteKept
  <1>4. CASE Count(a)
    <2>1. /\ pc[a] = "count" /\ sheet' = [sheet EXCEPT ![a] = Tally(@)]
          /\ metrics' \subseteq metrics \cup {sheet'[a].passed}
          /\ UNCHANGED <<task, row, evidence, skip, turns, batch, queued, job, decision, again, mine, ended>>
          /\ UNCHANGED <<disturbances, touched, stranded>>
      BY <1>4 DEF Count
    <2>2. pc' = [pc EXCEPT ![a] = "batchWrite"] /\ disturbances' \in 0..MaxDisturbances
      BY <1>4, <2>1 DEF Count, TypeOK
    <2> QED BY <2>1, <2>2, CountTypes
  <1>5. CASE BatchWrite(a)
    <2>1. pc[a] # "idle" /\ Continue(a) /\ batch' = sheet[a]
      BY <1>5 DEF BatchWrite
    <2>2. TypeOK' /\ Shape'
      BY <1>0, <1>5, <2>1, ContinueTypes DEF TypeOK, BatchWrite
    <2>3. OnlyOf(a, c)
      BY <1>0, <1>5, <2>1, ContinueTypes DEF OnlyOf, BatchWrite, Shape
    <2> QED BY <1>0, <2>2, <2>3, SuiteKept
  <1> QED BY <1>1, <1>2, <1>3, <1>4, <1>5

LEMMA ReviewTypes ==
  ASSUME TypeInv, NEW a \in Workers \cup Users,
         Finish(a) \/ Fail(a) \/ AutoReview(a) \/ Note(a) \/ Review(a) \/ Rejected(a) \/ RejectNote(a)
  PROVE  TypeInv'
  <1> DEFINE c == job[a]
  <1>0. /\ c \in Cases /\ task[c] # "ABSENT" /\ (pc[Suite] = "addRun" => job[Suite] # c)
        /\ batch.status # "absent" /\ a \in Actors
    BY Working DEF TypeInv, SuiteInv, Finish, Fail, AutoReview, Note, Review, Rejected, RejectNote, Actors
  <1> USE Constants DEF TypeInv, Points, Goto, store, Keep
  <1>1. CASE Finish(a)
    <2>1. TypeOK'
      BY <1>0, <1>1 DEF TypeOK, Finish, TaskStatus, Decision
    <2>2. Shape'
      BY <1>0, <1>1 DEF TypeOK, Shape, Finish
    <2>3. OnlyOf(a, c)
      BY <1>0, <1>1 DEF OnlyOf, Finish, TypeOK
    <2> QED BY <1>0, <2>1, <2>2, <2>3, SuiteKept
  <1>2. CASE Fail(a)
    <2>1. CASE Done(a) /\ UNCHANGED task
      <3>1. TypeOK'
        BY <1>0, <1>2, <2>1 DEF TypeOK, Fail, Done, Decision
      <3>2. Shape'
        BY <1>0, <1>2, <2>1 DEF TypeOK, Shape, Fail, Done
      <3>3. OnlyOf(a, c)
        BY <1>0, <1>2, <2>1 DEF OnlyOf, Fail, Done, TypeOK
      <3> QED BY <1>0, <3>1, <3>2, <3>3, SuiteKept
    <2>2. CASE ~(Done(a) /\ UNCHANGED task)
      <3>1. TypeOK'
        BY <1>0, <1>2, <2>2 DEF TypeOK, Fail, Decision, TaskStatus
      <3>2. Shape'
        BY <1>0, <1>2, <2>2 DEF TypeOK, Shape, Fail
      <3>3. OnlyOf(a, c)
        BY <1>0, <1>2, <2>2 DEF OnlyOf, Fail, TypeOK
      <3> QED BY <1>0, <3>1, <3>2, <3>3, SuiteKept
    <2> QED BY <2>1, <2>2
  <1>3. CASE AutoReview(a)
    <2>0. AutoDecision(c) \subseteq {"continue", "COMPLETED", "FAILED"}
      BY DEF AutoDecision, Verdicts
    <2>1. CASE Done(a)
      <3>1. TypeOK'
        BY <1>0, <1>3, <2>1 DEF TypeOK, AutoReview, Done, Decision
      <3>2. Shape'
        BY <1>0, <1>3, <2>1 DEF TypeOK, Shape, AutoReview, Done
      <3>3. OnlyOf(a, c)
        BY <1>0, <1>3, <2>1 DEF OnlyOf, AutoReview, Done, TypeOK
      <3> QED BY <1>0, <3>1, <3>2, <3>3, SuiteKept
    <2>2. CASE ~Done(a)
      <3>1. TypeOK'
        BY <1>0, <1>3, <2>0, <2>2 DEF TypeOK, AutoReview, Decide, Decision
      <3>2. Shape'
        BY <1>0, <1>3, <2>0, <2>2 DEF TypeOK, Shape, AutoReview, Decide
      <3>3. OnlyOf(a, c)
        BY <1>0, <1>3, <2>2 DEF OnlyOf, AutoReview, Decide, TypeOK
      <3> QED BY <1>0, <3>1, <3>2, <3>3, SuiteKept
    <2> QED BY <2>1, <2>2
  <1>4. CASE Note(a)
    <2>1. TypeOK'
      BY <1>0, <1>4 DEF TypeOK, Note, WriteRow, Proceed
    <2>2. Shape'
      BY <1>0, <1>4 DEF TypeOK, Shape, Note, Proceed
    <2>3. OnlyOf(a, c)
      BY <1>0, <1>4 DEF OnlyOf, Note, WriteRow, Proceed, TypeOK
    <2> QED BY <1>0, <2>1, <2>2, <2>3, SuiteKept
  <1>5. CASE Review(a)
    <2>1. /\ pc[a] = "review" /\ UNCHANGED <<row, evidence, skip, batch, metrics, ended, disturbances, touched, stranded>>
          /\ \/ Continue(a) /\ UNCHANGED <<task, turns, queued>>
             \/ /\ task' = [task EXCEPT ![c] = "CREATED"] /\ Continue(a)
                /\ turns' = [turns EXCEPT ![c] = IF decision[a] = "continue" THEN @ + 1 ELSE @]
                /\ queued' = queued \cup {c}
             \/ /\ task' = [task EXCEPT ![c] = decision[a]] /\ decision[a] # "continue"
                /\ Goto(a, "finalize")
                /\ UNCHANGED <<turns, queued, job, decision, again, mine, sheet>>
      BY <1>5 DEF Review
    <2>2. ASSUME Continue(a), turns' \in [Cases -> Nat], task' \in [Cases -> TaskStatus],
                 queued' \subseteq queued \cup {c}, task'[c] # "ABSENT", \A d \in Cases \ {c} : task'[d] = task[d]
          PROVE TypeInv'
      <3>1. TypeOK' /\ Shape'
        BY <1>0, <2>1, <2>2, ContinueTypes DEF TypeOK
      <3>2. OnlyOf(a, c)
        BY <1>0, <2>1, <2>2, ContinueTypes DEF OnlyOf
      <3> QED BY <1>0, <3>1, <3>2, SuiteKept
    <2>3. CASE Continue(a) /\ UNCHANGED <<task, turns, queued>>
      BY <1>0, <2>2, <2>3 DEF TypeOK
    <2>4. CASE /\ task' = [task EXCEPT ![c] = "CREATED"] /\ Continue(a)
               /\ turns' = [turns EXCEPT ![c] = IF decision[a] = "continue" THEN @ + 1 ELSE @]
               /\ queued' = queued \cup {c}
      <3>1. turns' \in [Cases -> Nat]
        BY <1>0, <2>4 DEF TypeOK
      <3>2. task' \in [Cases -> TaskStatus] /\ task'[c] # "ABSENT" /\ \A d \in Cases \ {c} : task'[d] = task[d]
        BY <1>0, <2>4 DEF TypeOK, TaskStatus
      <3> QED BY <2>2, <2>4, <3>1, <3>2
    <2>5. CASE /\ task' = [task EXCEPT ![c] = decision[a]] /\ decision[a] # "continue"
               /\ Goto(a, "finalize")
               /\ UNCHANGED <<turns, queued, job, decision, again, mine, sheet>>
      <3>1. TypeOK'
        BY <1>0, <2>1, <2>5 DEF TypeOK, TaskStatus, Shape
      <3>2. Shape'
        BY <1>0, <2>1, <2>5 DEF TypeOK, Shape
      <3>3. OnlyOf(a, c)
        BY <1>0, <2>1, <2>5 DEF OnlyOf, TypeOK, Shape
      <3> QED BY <1>0, <3>1, <3>2, <3>3, SuiteKept
    <2> QED BY <2>1, <2>3, <2>4, <2>5
  <1>6. CASE Rejected(a)
    <2>1. TypeOK'
      BY <1>0, <1>6 DEF TypeOK, Rejected
    <2>2. Shape'
      BY <1>0, <1>6 DEF TypeOK, Shape, Rejected
    <2>3. OnlyOf(a, c)
      BY <1>0, <1>6 DEF OnlyOf, Rejected, TypeOK
    <2> QED BY <1>0, <2>1, <2>2, <2>3, SuiteKept
  <1>7. CASE RejectNote(a)
    <2>1. TypeOK'
      BY <1>0, <1>7 DEF TypeOK, RejectNote, WriteRow, Done, Decision
    <2>2. Shape'
      BY <1>0, <1>7 DEF TypeOK, Shape, RejectNote, Done
    <2>3. OnlyOf(a, c)
      BY <1>0, <1>7 DEF OnlyOf, RejectNote, WriteRow, Done, TypeOK
    <2> QED BY <1>0, <2>1, <2>2, <2>3, SuiteKept
  <1> QED BY <1>1, <1>2, <1>3, <1>4, <1>5, <1>6, <1>7

-----------------------------------------------------------------------------
(* The steps that start a goroutine or come from outside *)

LEMMA BeginTypes ==
  ASSUME TypeInv, NEW w \in Workers, Begin(w)
  PROVE  TypeInv'
  <1>0. PICK c \in queued :
          /\ queued' = queued \ {c}
          /\ IF task[c] = "CANCELLED" THEN UNCHANGED <<task, evidence, pc, job>>
             ELSE /\ task' = [task EXCEPT ![c] = "RUNNING"]
                  /\ evidence' = [evidence EXCEPT ![c] = FALSE]
                  /\ job' = [job EXCEPT ![w] = c] /\ Goto(w, "execute")
    BY DEF Begin
  <1>1. /\ c \in Cases /\ w \in Actors /\ task[c] # "ABSENT" /\ (pc[Suite] = "addRun" => job[Suite] # c)
        /\ pc[w] = "idle"
        /\ UNCHANGED <<row, skip, turns, batch, metrics, decision, again, mine, sheet,
                        ended, disturbances, touched, stranded>>
    BY <1>0 DEF TypeInv, TypeOK, SuiteInv, Unknown, Begin, Starts, Keep, Actors
  <1>2. TypeOK'
    <2>1. CASE UNCHANGED <<task, evidence, pc, job>>
      BY <1>0, <1>1, <2>1 DEF TypeInv, TypeOK
    <2>2. CASE /\ task' = [task EXCEPT ![c] = "RUNNING"] /\ evidence' = [evidence EXCEPT ![c] = FALSE]
               /\ job' = [job EXCEPT ![w] = c] /\ Goto(w, "execute")
      BY <1>0, <1>1, <2>2 DEF TypeInv, TypeOK, TaskStatus, Points, Goto
    <2> QED BY <1>0, <2>1, <2>2
  <1>3. Shape'
    <2>1. CASE UNCHANGED <<task, evidence, pc, job>>
      BY <1>1, <2>1 DEF TypeInv, Shape
    <2>2. CASE job' = [job EXCEPT ![w] = c] /\ Goto(w, "execute")
      BY <1>1, <2>2, ActorsAssumption DEF TypeInv, TypeOK, Shape, Goto
    <2> QED BY <1>0, <2>1, <2>2
  <1>4. OnlyOf(w, c)
    <2>1. CASE UNCHANGED <<task, evidence, pc, job>>
      BY <1>0, <1>1, <2>1 DEF TypeInv, Shape, OnlyOf
    <2>2. CASE /\ task' = [task EXCEPT ![c] = "RUNNING"]
               /\ job' = [job EXCEPT ![w] = c] /\ Goto(w, "execute")
      BY <1>0, <1>1, <2>2 DEF TypeInv, TypeOK, OnlyOf, Goto
    <2> QED BY <1>0, <2>1, <2>2
  <1> QED BY <1>1, <1>2, <1>3, <1>4, SuiteKept DEF TypeInv

LEMMA RequestTypes ==
  ASSUME TypeInv, NEW u \in Users, Request(u)
  PROVE  TypeInv'
  <1>0. PICK k \in Requests \ {"cancel"}, c \in Cases :
          /\ task[c] = "HUMAN_REVIEW_REQUIRED" /\ Goto(u, "review")
          /\ job' = [job EXCEPT ![u] = c]
          /\ decision' = [decision EXCEPT ![u] =
               CASE k = "approve" -> "COMPLETED" [] k = "reject" -> "FAILED" [] OTHER -> "continue"]
          /\ touched' = touched \cup {c}
    BY DEF Request
  <1>1. /\ u \in Actors /\ pc[u] = "idle" /\ (pc[Suite] = "addRun" => job[Suite] # c)
        /\ disturbances' = disturbances + 1 /\ disturbances < MaxDisturbances
        /\ UNCHANGED <<store, queued, again, mine, sheet, ended, stranded>>
    BY <1>0 DEF TypeInv, SuiteInv, Request, Starts, Actors
  <1>2. TypeOK'
    BY <1>0, <1>1, BoundsAssumption DEF TypeInv, TypeOK, Decision, Points, Goto, store
  <1>3. Shape'
    BY <1>0, <1>1, ActorsAssumption DEF TypeInv, TypeOK, Shape, Goto
  <1>4. OnlyOf(u, c)
    BY <1>0, <1>1 DEF TypeInv, TypeOK, OnlyOf, Goto, store
  <1> QED BY <1>0, <1>1, <1>2, <1>3, <1>4, SuiteKept DEF TypeInv

LEMMA OutsideTypes ==
  ASSUME TypeInv, (\E c \in Cases : Cancel(c)) \/ Crash
  PROVE  TypeInv'
  <1> USE Constants, BoundsAssumption, ActorsAssumption DEF TypeInv
  <1>1. ASSUME NEW c \in Cases, Cancel(c)  PROVE TypeInv'
    <2>1. TypeOK'
      BY <1>1 DEF TypeOK, Cancel, control, TaskStatus
    <2>2. Shape'
      BY <1>1 DEF Shape, Cancel, control
    <2>3. SuiteInv'
      BY <1>1 DEF SuiteInv, Unknown, TypeOK, Shape, Cancel, control, Actors
    <2> QED BY <2>1, <2>2, <2>3
  <1>2. CASE Crash
    <2>1. TypeOK'
      BY <1>2 DEF TypeOK, Crash, TaskStatus, Decision, Points
    <2>2. Shape'
      BY <1>2 DEF Shape, Crash
    <2>3. SuiteInv'
      BY <1>2 DEF SuiteInv, Unknown, TypeOK, Crash, Actors
    <2> QED BY <2>1, <2>2, <2>3
  <1> QED BY <1>1, <1>2

-----------------------------------------------------------------------------
(* The calls of the store that fail *)

LEMMA ErrorTypes ==
  ASSUME TypeInv, NEW c \in Cases, StoreError(c)
  PROVE  /\ disturbances' \in 0..MaxDisturbances
         /\ Spared(c) => touched' \subseteq Cases /\ stranded' \subseteq Cases
         /\ Strands(c) => touched' \subseteq Cases /\ stranded' \subseteq Cases
  BY BoundsAssumption DEF TypeInv, TypeOK, StoreError, Spared, Strands

\* Such a step is of a goroutine that works on a case, or takes one.
LEMMA FailWorks ==
  ASSUME TypeInv, NEW a \in Workers \cup Users, StoreFail(a)
  PROVE  /\ job[a] \in Cases /\ pc[a] # "idle" /\ a \in Actors
         /\ task[job[a]] # "ABSENT" /\ (pc[Suite] = "addRun" => job[Suite] # job[a])
         /\ batch.status # "absent"
         /\ disturbances' \in 0..MaxDisturbances
         /\ disturbances' = disturbances + 1 \/ (ProposalUnread(a) /\ Keep)
         /\ touched' \subseteq Cases /\ stranded' \subseteq Cases
  <1>1. pc[a] # "idle" /\ (StoreError(job[a]) \/ (ProposalUnread(a) /\ Keep))
    BY DEF StoreFail, FailUnseen, FinalizeUnread, FinalizeUnwritten, FinalizeUnproven, RefreshFail,
           SnapshotLost, AutoUnread, AutoMisread, NoteLost, ReviewUnwritten, FeedbackLost,
           ProposalUnread, RejectNoteLost, Spared, Strands
  <1>2. job[a] \in Cases /\ task[job[a]] # "ABSENT" /\ (pc[Suite] = "addRun" => job[Suite] # job[a])
    BY <1>1, Working
  <1>3. Spared(job[a]) \/ Strands(job[a]) \/ AutoMisread(a) \/ Keep
    BY DEF StoreFail, FailUnseen, FinalizeUnread, FinalizeUnwritten, FinalizeUnproven, RefreshFail,
           SnapshotLost, AutoUnread, NoteLost, ReviewUnwritten, FeedbackLost,
           ProposalUnread, RejectNoteLost
  <1>4. Keep => /\ disturbances' \in 0..MaxDisturbances
                /\ touched' \subseteq Cases /\ stranded' \subseteq Cases
    BY DEF Keep, TypeInv, TypeOK
  <1>5. AutoMisread(a) => touched' \subseteq Cases /\ stranded' \subseteq Cases
    BY <1>2 DEF AutoMisread, TypeInv, TypeOK
  <1>6. disturbances' = disturbances + 1 \/ (ProposalUnread(a) /\ Keep)
    BY <1>1 DEF StoreError
  <1>7. batch.status # "absent"
    BY <1>2 DEF TypeInv, SuiteInv
  <1> QED BY <1>1, <1>2, <1>3, <1>4, <1>5, <1>6, <1>7, ErrorTypes DEF Actors

LEMMA FailTypes ==
  ASSUME TypeInv, NEW a \in Workers \cup Users, StoreFail(a)
  PROVE  TypeInv'
  <1> DEFINE c == job[a]
  <1>0. /\ c \in Cases /\ task[c] # "ABSENT" /\ (pc[Suite] = "addRun" => job[Suite] # c)
        /\ batch.status # "absent" /\ a \in Actors /\ pc[a] # "idle"
        /\ disturbances' \in 0..MaxDisturbances /\ touched' \subseteq Cases /\ stranded' \subseteq Cases
    BY FailWorks
  <1> USE Constants DEF TypeInv, Points, Goto, store
  <1>1. ASSUME Continue(a), turns' \in [Cases -> Nat], task' \in [Cases -> TaskStatus],
               queued' \subseteq queued \cup {c}, task'[c] # "ABSENT",
               \A d \in Cases \ {c} : task'[d] = task[d],
               UNCHANGED <<row, evidence, skip, batch, metrics, ended>>
        PROVE  TypeInv'
    <2>1. TypeOK' /\ Shape'
      BY <1>0, <1>1, ContinueTypes DEF TypeOK
    <2>2. OnlyOf(a, c)
      BY <1>0, <1>1, ContinueTypes DEF OnlyOf
    <2> QED BY <1>0, <2>1, <2>2, SuiteKept
  <1>2. CASE FinalizeUnread(a) \/ RefreshFail(a)
    <2>1. Continue(a) /\ UNCHANGED <<store, queued, ended>>
      BY <1>2 DEF FinalizeUnread, RefreshFail
    <2> QED BY <1>0, <1>1, <2>1 DEF TypeOK
  <1>3. CASE ReviewUnwritten(a)
    <2>1. Continue(a) /\ UNCHANGED <<task, row, evidence, skip, batch, metrics, queued, ended>>
      BY <1>3 DEF ReviewUnwritten
    <2>2. turns' \in [Cases -> Nat]
      BY <1>0, <1>3 DEF ReviewUnwritten, TypeOK
    <2> QED BY <1>0, <1>1, <2>1, <2>2 DEF TypeOK
  <1>4. CASE FeedbackLost(a)
    <2>1. /\ Continue(a) /\ queued' = queued \cup {c} /\ task' = [task EXCEPT ![c] = "CREATED"]
          /\ UNCHANGED <<row, evidence, skip, turns, batch, metrics, ended>>
      BY <1>4 DEF FeedbackLost
    <2>2. task' \in [Cases -> TaskStatus] /\ task'[c] # "ABSENT" /\ \A d \in Cases \ {c} : task'[d] = task[d]
      BY <1>0, <2>1 DEF TypeOK, TaskStatus
    <2> QED BY <1>0, <1>1, <2>1, <2>2 DEF TypeOK
  <1>5. CASE AutoUnread(a) \/ RejectNoteLost(a)
    <2>0. Done(a) /\ UNCHANGED <<store, queued, ended>>
      BY <1>5 DEF AutoUnread, RejectNoteLost
    <2>1. TypeOK'
      BY <1>0, <2>0 DEF TypeOK, Done, Decision
    <2>2. Shape'
      BY <1>0, <2>0 DEF TypeOK, Shape, Done
    <2>3. OnlyOf(a, c)
      BY <1>0, <2>0 DEF OnlyOf, Done, TypeOK
    <2> QED BY <1>0, <2>1, <2>2, <2>3, SuiteKept
  <1>6. CASE FailUnseen(a)
    <2>1. TypeOK'
      BY <1>0, <1>6 DEF TypeOK, FailUnseen, Decision, TaskStatus
    <2>2. Shape'
      BY <1>0, <1>6 DEF TypeOK, Shape, FailUnseen
    <2>3. OnlyOf(a, c)
      BY <1>0, <1>6 DEF OnlyOf, FailUnseen, TypeOK
    <2> QED BY <1>0, <2>1, <2>2, <2>3, SuiteKept
  <1>7. CASE FinalizeUnwritten(a)
    <2>1. TypeOK'
      BY <1>0, <1>7 DEF TypeOK, FinalizeUnwritten
    <2>2. Shape'
      BY <1>0, <1>7 DEF TypeOK, Shape, FinalizeUnwritten
    <2>3. OnlyOf(a, c)
      BY <1>0, <1>7 DEF OnlyOf, FinalizeUnwritten, TypeOK
    <2> QED BY <1>0, <2>1, <2>2, <2>3, SuiteKept
  <1>8. CASE FinalizeUnproven(a)
    <2>0. [status |-> RowStatusOf(decision[a]), passed |-> FALSE] \in Row
      BY DEF Row, RowStatus, RowStatusOf, Final
    <2>1. TypeOK'
      BY <1>0, <1>8, <2>0 DEF TypeOK, FinalizeUnproven, WriteRow
    <2>2. Shape'
      BY <1>0, <1>8 DEF TypeOK, Shape, FinalizeUnproven
    <2>3. OnlyOf(a, c)
      BY <1>0, <1>8 DEF OnlyOf, FinalizeUnproven, WriteRow, TypeOK
    <2> QED BY <1>0, <2>1, <2>2, <2>3, SuiteKept
  <1>9. CASE SnapshotLost(a)
    BY <1>0, <1>9, CountTypes DEF SnapshotLost, Spared
  <1>10. CASE AutoMisread(a)
    <2>0. MisreadDecision(c) \subseteq {"continue", "COMPLETED", "FAILED"}
      BY DEF MisreadDecision, Verdicts
    <2>1. PICK d \in {"continue", "COMPLETED", "FAILED"} :
            /\ decision' = [decision EXCEPT ![a] = d]
            /\ mine' = [mine EXCEPT ![a] = row[c]]
            /\ Goto(a, IF d = "FAILED" THEN "review" ELSE "note")
            /\ again' = [again EXCEPT ![a] = IF d = "FAILED" THEN "note" ELSE "none"]
            /\ UNCHANGED <<job, sheet, store, queued, ended>>
      BY <1>10, <2>0 DEF AutoMisread, Decide
    <2>2. TypeOK'
      BY <1>0, <2>1 DEF TypeOK, Decision
    <2>3. Shape'
      BY <1>0, <2>1 DEF TypeOK, Shape
    <2>4. OnlyOf(a, c)
      BY <1>0, <2>1 DEF OnlyOf, TypeOK
    <2> QED BY <1>0, <2>2, <2>3, <2>4, SuiteKept
  <1>11. CASE NoteLost(a)
    <2>1. TypeOK'
      BY <1>0, <1>11 DEF TypeOK, NoteLost, Proceed
    <2>2. Shape'
      BY <1>0, <1>11 DEF TypeOK, Shape, NoteLost, Proceed
    <2>3. OnlyOf(a, c)
      BY <1>0, <1>11 DEF OnlyOf, NoteLost, Proceed, TypeOK
    <2> QED BY <1>0, <2>1, <2>2, <2>3, SuiteKept
  <1>12. CASE ProposalUnread(a)
    <2>1. TypeOK'
      BY <1>0, <1>12 DEF TypeOK, ProposalUnread, TaskStatus
    <2>2. Shape'
      BY <1>0, <1>12 DEF TypeOK, Shape, ProposalUnread
    <2>3. OnlyOf(a, c)
      BY <1>0, <1>12 DEF OnlyOf, ProposalUnread, TypeOK
    <2> QED BY <1>0, <2>1, <2>2, <2>3, SuiteKept
  <1> QED BY <1>2, <1>3, <1>4, <1>5, <1>6, <1>7, <1>8, <1>9, <1>10, <1>11, <1>12 DEF StoreFail

LEMMA BeginUnreadTypes ==
  ASSUME TypeInv, NEW w \in Workers, BeginUnread(w)
  PROVE  TypeInv'
  <1>0. PICK c \in queued : queued' = queued \ {c} /\ Strands(c)
    BY DEF BeginUnread
  <1>1. UNCHANGED <<store, control, ended>> /\ queued' \subseteq queued
    BY <1>0 DEF BeginUnread
  <1>2. /\ c \in Cases /\ disturbances' \in 0..MaxDisturbances
        /\ touched' \subseteq Cases /\ stranded' \subseteq Cases
    BY <1>0, ErrorTypes DEF TypeInv, TypeOK, Strands
  <1> USE DEF TypeInv, store, control
  <1>3. TypeOK'
    BY <1>1, <1>2 DEF TypeOK
  <1>4. Shape' /\ SuiteInv'
    BY <1>1 DEF Shape, SuiteInv, Unknown
  <1> QED BY <1>3, <1>4

LEMMA TypeNext == TypeInv /\ [Next]_vars => TypeInv'
  <1> SUFFICES ASSUME TypeInv, [Next]_vars  PROVE TypeInv'
    OBVIOUS
  <1>1. CASE UNCHANGED vars
    BY <1>1 DEF TypeInv, TypeOK, Shape, SuiteInv, Unknown, vars, store, control
  <1>2. ASSUME NEW a \in Workers \cup Users, Step(a)  PROVE TypeInv'
    BY <1>2, BatchTypes, ReviewTypes DEF Step
  <1> QED BY <1>1, <1>2, SuiteTypes, BeginTypes, BeginUnreadTypes, FailTypes, RequestTypes, OutsideTypes
          DEF Next

LEMMA TypeInit == Init => TypeInv
  <1> SUFFICES ASSUME Init  PROVE TypeInv
    OBVIOUS
  <1>1. TypeOK
    BY Constants, BoundsAssumption DEF Init, TypeOK, TaskStatus, Points, Decision
  <1>2. Shape
    BY ActorsAssumption DEF Init, Shape
  <1>3. SuiteInv
    BY ActorsAssumption DEF Init, SuiteInv, Unknown, Actors, NoBatch
  <1> QED BY <1>1, <1>2, <1>3 DEF TypeInv

LEMMA TypeAlways == Spec => []TypeInv
  BY TypeInit, TypeNext, PTL DEF Spec

\* Every variable keeps its type; a task that is decided has a decision that a
\* task may end in, and a case that the suite creates is one of its cases.
THEOREM Types == Spec => []TypeOK
  <1>1. TypeInv => TypeOK
    BY DEF TypeInv
  <1> QED BY <1>1, TypeAlways, PTL

-----------------------------------------------------------------------------
(* The turns of the automatic review *)

\* Goroutines that may still review a case, and those that owe it a feedback.
Live(c) ==
  {a \in Workers \cup Users : job[a] = c /\ pc[a] \notin {"idle", "rejected", "rejectNote"}}
Owes(c) ==
  {a \in Workers \cup Users : job[a] = c /\ pc[a] \in {"note", "review"} /\ decision[a] = "continue"}

\* A case is worked on once, and once more for each disturbance; the feedbacks
\* given and owed beyond MaxTurns are at most as many.
TurnsOf(c) ==
  /\ IsFiniteSet(Live(c))
  /\ Cardinality(Live(c)) + (IF c \in queued THEN 1 ELSE 0) <= 1 + disturbances
  /\ turns[c] + Cardinality(Owes(c)) <= MaxTurns + disturbances

TurnsInv == \A c \in Cases : TurnsOf(c)

LEMMA LiveSize ==
  ASSUME NEW c, IsFiniteSet(Live(c))
  PROVE  /\ Cardinality(Live(c)) \in Nat /\ Cardinality(Owes(c)) \in Nat
         /\ IsFiniteSet(Owes(c)) /\ Cardinality(Owes(c)) <= Cardinality(Live(c))
  <1>1. Owes(c) \subseteq Live(c)
    BY DEF Owes, Live
  <1> QED BY <1>1, FS_Subset, FS_CardinalityType

\* What a step of goroutine a leaves of the goroutines of a case.
LEMMA Others ==
  ASSUME TypeInv, NEW a \in Workers \cup Users, NEW c \in Cases,
         \A b \in Actors \ {a} : pc'[b] = pc[b] /\ job'[b] = job[b] /\ decision'[b] = decision[b]
  PROVE  /\ a \notin Live(c)' => Live(c)' = Live(c) \ {a}
         /\ a \in Live(c)' => Live(c)' = Live(c) \cup {a}
         /\ a \notin Owes(c)' => Owes(c)' = Owes(c) \ {a}
         /\ a \in Owes(c)' => Owes(c)' = Owes(c) \cup {a}
  BY DEF Live, Owes, Actors

\* A step of a goroutine that starts nothing and gives no feedback.
LEMMA QuietTurns ==
  ASSUME TypeInv, NEW a \in Workers \cup Users, NEW c \in Cases, TurnsOf(c),
         \A b \in Actors \ {a} : pc'[b] = pc[b] /\ job'[b] = job[b] /\ decision'[b] = decision[b],
         a \in Live(c)' => a \in Live(c), a \in Owes(c)' => a \in Owes(c),
         c \in queued' => c \in queued, turns'[c] = turns[c],
         disturbances' \in {disturbances, disturbances + 1}
  PROVE  TurnsOf(c)'
  <1>1. Live(c)' \subseteq Live(c) /\ Owes(c)' \subseteq Owes(c)
    BY Others
  <1>2. /\ IsFiniteSet(Live(c)') /\ Cardinality(Live(c)') <= Cardinality(Live(c))
        /\ Cardinality(Owes(c)') <= Cardinality(Owes(c))
        /\ Cardinality(Live(c)') \in Nat /\ Cardinality(Owes(c)') \in Nat
        /\ Cardinality(Live(c)) \in Nat /\ Cardinality(Owes(c)) \in Nat
    BY <1>1, LiveSize, FS_Subset, FS_CardinalityType DEF TurnsOf
  <1>3. disturbances \in Nat /\ turns[c] \in Nat /\ MaxTurns \in Nat
    BY BoundsAssumption DEF TypeInv, TypeOK
  <1>4. (IF c \in queued' THEN 1 ELSE 0) <= (IF c \in queued THEN 1 ELSE 0)
    OBVIOUS
  <1> QED BY <1>2, <1>3, <1>4 DEF TurnsOf

Quiet(a) ==
  /\ \A b \in Actors \ {a} : pc'[b] = pc[b] /\ job'[b] = job[b] /\ decision'[b] = decision[b]
  /\ job'[a] \in {job[a], None} /\ pc[a] \notin {"idle", "rejected", "rejectNote"}
  /\ pc'[a] \in {"note", "review"} /\ decision'[a] = "continue" =>
       pc[a] \in {"note", "review"} /\ decision[a] = "continue"
  /\ queued' \subseteq queued /\ turns' = turns /\ disturbances' \in {disturbances, disturbances + 1}

LEMMA QuietKeeps ==
  ASSUME TypeInv, NEW a \in Workers \cup Users, Quiet(a), TurnsInv
  PROVE  TurnsInv'
  <1> SUFFICES ASSUME NEW c \in Cases  PROVE TurnsOf(c)'
    BY DEF TurnsInv
  <1>1. a \in Live(c)' => a \in Live(c)
    BY ActorsAssumption DEF Quiet, Live
  <1>2. a \in Owes(c)' => a \in Owes(c)
    BY ActorsAssumption DEF Quiet, Owes
  <1> QED BY <1>1, <1>2, QuietTurns DEF Quiet, TurnsInv

LEMMA QuietContinue ==
  ASSUME TypeInv, NEW a \in Workers \cup Users, Continue(a), pc[a] \notin {"idle", "rejected", "rejectNote"},
         queued' \subseteq queued, UNCHANGED turns, disturbances' \in {disturbances, disturbances + 1}
  PROVE  Quiet(a)
  BY DEF TypeInv, TypeOK, Quiet, Continue, Proceed, Done, Goto, Actors

LEMMA BatchTurns ==
  ASSUME TypeInv, NEW a \in Workers \cup Users,
         Finish(a) \/ Fail(a) \/ FinalizeRead(a) \/ FinalizeWrite(a) \/ Refresh(a) \/ Count(a) \/ BatchWrite(a)
  PROVE  Quiet(a)
  <1> USE DEF store, Keep, Goto
  <1>0. a \in Actors
    BY DEF Actors
  <1>1. CASE Finish(a)
    BY <1>0, <1>1 DEF TypeInv, TypeOK, Quiet, Finish
  <1>2. CASE Fail(a)
    BY <1>0, <1>2 DEF TypeInv, TypeOK, Quiet, Fail, Done
  <1>3. CASE FinalizeRead(a)
    BY <1>0, <1>3, QuietContinue DEF TypeInv, TypeOK, Quiet, FinalizeRead
  <1>4. CASE FinalizeWrite(a)
    BY <1>0, <1>4 DEF TypeInv, TypeOK, Quiet, FinalizeWrite
  <1>5. CASE Refresh(a)
    BY <1>0, <1>5 DEF TypeInv, TypeOK, Quiet, Refresh
  <1>6. CASE Count(a)
    BY <1>0, <1>6 DEF TypeInv, TypeOK, Quiet, Count
  <1>7. CASE BatchWrite(a)
    BY <1>7, QuietContinue DEF BatchWrite
  <1> QED BY <1>1, <1>2, <1>3, <1>4, <1>5, <1>6, <1>7

LEMMA NoteTurns ==
  ASSUME TypeInv, TurnsInv, NEW a \in Workers \cup Users, Note(a) \/ Rejected(a) \/ RejectNote(a)
  PROVE  TurnsInv'
  <1>0. a \in Actors
    BY DEF Actors
  <1>1. CASE Note(a)
    <2>1. Quiet(a)
      BY <1>0, <1>1 DEF TypeInv, TypeOK, Quiet, Note, Proceed, Goto, Keep
    <2> QED BY <2>1, QuietKeeps
  <1>2. ASSUME NEW c \in Cases, Rejected(a) \/ RejectNote(a)
        PROVE  TurnsOf(c)'
    <2>1. /\ \A b \in Actors \ {a} : pc'[b] = pc[b] /\ job'[b] = job[b] /\ decision'[b] = decision[b]
          /\ pc'[a] \in {"idle", "rejectNote"}
          /\ UNCHANGED <<queued, turns, disturbances>>
      BY <1>0, <1>2 DEF TypeInv, TypeOK, Rejected, RejectNote, Done, Goto, Keep, store
    <2>2. a \notin Live(c)' /\ a \notin Owes(c)'
      BY <2>1 DEF Live, Owes
    <2> QED BY <2>1, <2>2, QuietTurns DEF TurnsInv
  <1> QED BY <1>1, <1>2 DEF TurnsInv

\* A worker that decides to continue has turns left, and nobody but the other
\* goroutines on the case, one for each disturbance, owes it a feedback too.
LEMMA AutoReviewTurns ==
  ASSUME TypeInv, TurnsInv, NEW a \in Workers \cup Users, AutoReview(a)
  PROVE  TurnsInv'
  <1>0. /\ a \in Actors /\ job[a] \in Cases
        /\ \A b \in Actors \ {a} : pc'[b] = pc[b] /\ job'[b] = job[b] /\ decision'[b] = decision[b]
        /\ pc[a] = "auto" /\ job'[a] \in {job[a], None} /\ UNCHANGED <<queued, turns, disturbances>>
        /\ Done(a) \/ (decision'[a] \in AutoDecision(job[a]) /\ UNCHANGED job /\ pc'[a] \in {"note", "review"})
    <2>1. a \in Actors /\ pc[a] = "auto"
      BY DEF AutoReview, Actors
    <2>2. CASE Done(a)
      BY <2>1, <2>2, Working DEF TypeInv, TypeOK, AutoReview, Done, Goto, Keep, store
    <2>3. CASE ~Done(a)
      BY <2>1, <2>3, Working DEF TypeInv, TypeOK, AutoReview, Decide, Goto, Keep, store
    <2> QED BY <2>2, <2>3
  <1>1. CASE Done(a) \/ decision'[a] # "continue"
    <2>1. Quiet(a)
      <3>1. pc'[a] \in {"note", "review"} => decision'[a] # "continue"
        BY <1>0, <1>1 DEF Done, Goto, TypeInv, TypeOK
      <3> QED BY <1>0, <3>1 DEF Quiet
    <2> QED BY <2>1, QuietKeeps
  <1>2. CASE decision'[a] = "continue" /\ ~Done(a)
    <2>0. PICK c \in Cases : c = job[a]
      BY <1>0
    <2>1. turns[c] < MaxTurns
      BY <1>0, <1>2, <2>0 DEF AutoDecision, Verdicts
    <2>2. /\ IsFiniteSet(Live(c)) /\ Cardinality(Live(c)) <= 1 + disturbances
          /\ turns[c] \in Nat /\ disturbances \in Nat /\ MaxTurns \in Nat
      BY <1>0, LiveSize, BoundsAssumption DEF TypeInv, TypeOK, TurnsInv, TurnsOf
    <2>3. a \in Live(c) /\ a \notin Owes(c) /\ Live(c)' = Live(c) \cup {a} /\ Owes(c)' = Owes(c) \cup {a}
      <3>1. a \in Live(c)' /\ a \in Owes(c)'
        BY <1>0, <1>2, <2>0 DEF Live, Owes
      <3>2. a \in Live(c) /\ a \notin Owes(c)
        BY <1>0, <2>0 DEF Live, Owes
      <3> QED BY <1>0, <3>1, <3>2, Others
    <2>4. Owes(c)' \subseteq Live(c) /\ Live(c)' = Live(c)
      BY <2>3 DEF Owes, Live
    <2>5. /\ Cardinality(Owes(c)') <= 1 + disturbances
          /\ Cardinality(Owes(c)') \in Nat /\ Cardinality(Live(c)) \in Nat
      BY <2>2, <2>4, FS_Subset, FS_CardinalityType
    <2>6. turns[c] + Cardinality(Owes(c)') <= MaxTurns + disturbances
      BY <2>1, <2>2, <2>5
    <2>7. TurnsOf(c)'
      BY <1>0, <2>2, <2>4, <2>6 DEF TurnsInv, TurnsOf
    <2>8. ASSUME NEW d \in Cases \ {c}  PROVE TurnsOf(d)'
      <3>1. a \notin Live(d)' /\ a \notin Owes(d)'
        BY <1>0, <2>0, ActorsAssumption DEF Live, Owes
      <3> QED BY <1>0, <3>1, QuietTurns DEF TurnsInv
    <2> QED BY <2>7, <2>8 DEF TurnsInv
  <1> QED BY <1>1, <1>2

\* A feedback takes a turn and gives back what was owed; a task that is
\* queued anew is no longer worked on by the goroutine that reviewed it.
LEMMA ReviewTurns ==
  ASSUME TypeInv, TurnsInv, NEW a \in Workers \cup Users, Review(a)
  PROVE  TurnsInv'
  <1>0. /\ a \in Actors /\ job[a] \in Cases /\ pc[a] = "review" /\ UNCHANGED disturbances
        /\ \/ Continue(a) /\ UNCHANGED <<turns, queued>>
           \/ /\ Continue(a) /\ queued' = queued \cup {job[a]}
              /\ turns' = [turns EXCEPT ![job[a]] = IF decision[a] = "continue" THEN @ + 1 ELSE @]
           \/ /\ decision[a] # "continue" /\ Goto(a, "finalize")
              /\ UNCHANGED <<turns, queued, job, decision>>
    BY Working DEF Review, Keep, Actors
  <1>1. CASE Continue(a) /\ UNCHANGED <<turns, queued>>
    BY <1>0, <1>1, QuietContinue, QuietKeeps
  <1>2. CASE Goto(a, "finalize") /\ UNCHANGED <<turns, queued, job, decision>>
    <2>1. Quiet(a)
      BY <1>0, <1>2 DEF Quiet, Goto, TypeInv, TypeOK
    <2> QED BY <2>1, QuietKeeps
  <1>3. CASE /\ Continue(a) /\ queued' = queued \cup {job[a]}
             /\ turns' = [turns EXCEPT ![job[a]] = IF decision[a] = "continue" THEN @ + 1 ELSE @]
    <2>1. /\ \A b \in Actors \ {a} : pc'[b] = pc[b] /\ job'[b] = job[b] /\ decision'[b] = decision[b]
          /\ pc'[a] \in {"idle", "rejected"}
      BY <1>0, <1>3 DEF Continue, Done, Proceed, Goto, TypeInv, TypeOK, Shape
    <2>2. ASSUME NEW d \in Cases  PROVE a \notin Live(d)' /\ a \notin Owes(d)'
      BY <2>1 DEF Live, Owes
    <2>3. ASSUME NEW d \in Cases \ {job[a]}  PROVE TurnsOf(d)'
      <3>1. turns'[d] = turns[d] /\ (d \in queued' => d \in queued)
        BY <1>3 DEF TypeInv, TypeOK
      <3> QED BY <1>0, <2>1, <2>2, <3>1, QuietTurns DEF TurnsInv
    <2>4. ASSUME NEW c \in Cases, c = job[a]  PROVE TurnsOf(c)'
      <3>1. Live(c)' = Live(c) \ {a} /\ Owes(c)' = Owes(c) \ {a} /\ a \in Live(c)
        <4>1. a \in Live(c)
          BY <1>0, <2>4 DEF Live
        <4> QED BY <2>1, <2>2, <4>1, Others
      <3>2. /\ IsFiniteSet(Live(c)) /\ IsFiniteSet(Owes(c)) /\ Cardinality(Live(c)) <= 1 + disturbances
            /\ turns[c] + Cardinality(Owes(c)) <= MaxTurns + disturbances
            /\ Cardinality(Live(c)) \in Nat /\ Cardinality(Owes(c)) \in Nat
            /\ turns[c] \in Nat /\ disturbances \in Nat /\ MaxTurns \in Nat
        BY LiveSize, BoundsAssumption DEF TypeInv, TypeOK, TurnsInv, TurnsOf
      <3>3. /\ IsFiniteSet(Live(c)') /\ Cardinality(Live(c)') = Cardinality(Live(c)) - 1
            /\ Cardinality(Owes(c)') = IF a \in Owes(c) THEN Cardinality(Owes(c)) - 1 ELSE Cardinality(Owes(c))
        <4>1. IsFiniteSet(Live(c)') /\ Cardinality(Live(c)') = Cardinality(Live(c)) - 1
          BY <3>1, <3>2, FS_RemoveElement
        <4>2. Cardinality(Owes(c)') = IF a \in Owes(c) THEN Cardinality(Owes(c)) - 1 ELSE Cardinality(Owes(c))
          BY <3>1, <3>2, FS_RemoveElement
        <4> QED BY <4>1, <4>2
      <3>4. turns'[c] = IF decision[a] = "continue" THEN turns[c] + 1 ELSE turns[c]
        BY <1>3, <2>4 DEF TypeInv, TypeOK
      <3>5. decision[a] = "continue" => a \in Owes(c)
        BY <1>0, <2>4 DEF Owes
      <3>6. turns'[c] + Cardinality(Owes(c)') <= MaxTurns + disturbances
        BY <3>2, <3>3, <3>4, <3>5
      <3> QED BY <1>0, <3>2, <3>3, <3>6 DEF TurnsOf
    <2> QED BY <1>0, <2>3, <2>4 DEF TurnsInv
  <1> QED BY <1>0, <1>1, <1>2, <1>3

\* A failing call is a disturbance, which allows for one more turn, given or
\* owed: of a decision that counted too few, or of a feedback without effect.
LEMMA ErrorTurns ==
  ASSUME TypeInv, TurnsInv, NEW a \in Workers \cup Users, NEW c \in Cases,
         \A b \in Actors \ {a} : pc'[b] = pc[b] /\ job'[b] = job[b] /\ decision'[b] = decision[b],
         a \in Live(c)' => a \in Live(c),
         \/ turns'[c] = turns[c]
         \/ turns'[c] = turns[c] + 1 /\ a \notin Owes(c)',
         disturbances' = disturbances + 1
  PROVE  TurnsOf(c)'
  <1>1. /\ IsFiniteSet(Live(c)) /\ IsFiniteSet(Owes(c))
        /\ Cardinality(Live(c)) \in Nat /\ Cardinality(Owes(c)) \in Nat
        /\ turns[c] \in Nat /\ disturbances \in Nat /\ MaxTurns \in Nat
        /\ Cardinality(Live(c)) <= 1 + disturbances
        /\ turns[c] + Cardinality(Owes(c)) <= MaxTurns + disturbances
    BY LiveSize, BoundsAssumption DEF TypeInv, TypeOK, TurnsInv, TurnsOf
  <1>2. Live(c)' \subseteq Live(c)
    BY Others
  <1>3. IsFiniteSet(Live(c)') /\ Cardinality(Live(c)') \in Nat /\ Cardinality(Live(c)') <= Cardinality(Live(c))
    BY <1>1, <1>2, FS_Subset, FS_CardinalityType
  <1>4. CASE a \notin Owes(c)'
    <2>1. Owes(c)' \subseteq Owes(c)
      BY <1>4, Others
    <2>2. Cardinality(Owes(c)') \in Nat /\ Cardinality(Owes(c)') <= Cardinality(Owes(c))
      BY <1>1, <2>1, FS_Subset, FS_CardinalityType
    <2> QED BY <1>1, <1>3, <2>2 DEF TurnsOf
  <1>5. CASE a \in Owes(c)'
    <2>1. Owes(c)' = Owes(c) \cup {a}
      BY <1>5, Others
    <2>2. /\ Cardinality(Owes(c)') \in {Cardinality(Owes(c)), Cardinality(Owes(c)) + 1}
      BY <1>1, <2>1, FS_AddElement
    <2> QED BY <1>1, <1>3, <1>5, <2>2 DEF TurnsOf
  <1> QED BY <1>4, <1>5

LEMMA FailTurns ==
  ASSUME TypeInv, TurnsInv, NEW a \in Workers \cup Users, StoreFail(a)
  PROVE  TurnsInv'
  <1>0. /\ a \in Actors /\ job[a] \in Cases /\ pc[a] # "idle"
        /\ disturbances' \in {disturbances, disturbances + 1}
    BY FailWorks DEF Keep
  <1> USE DEF store, Goto
  <1>1. CASE Quiet(a)
    BY <1>1, QuietKeeps
  <1>2. CASE FailUnseen(a) \/ FinalizeUnwritten(a) \/ FinalizeUnproven(a) \/ SnapshotLost(a)
    <2>1. Quiet(a)
      BY <1>0, <1>2 DEF TypeInv, TypeOK, Quiet, FailUnseen, FinalizeUnwritten, FinalizeUnproven, SnapshotLost
    <2> QED BY <2>1, <1>1
  <1>3. CASE FinalizeUnread(a) \/ RefreshFail(a)
    <2>1. /\ Continue(a) /\ queued' \subseteq queued /\ UNCHANGED turns
          /\ pc[a] \notin {"idle", "rejected", "rejectNote"}
      BY <1>3 DEF FinalizeUnread, RefreshFail
    <2> QED BY <1>0, <1>1, <2>1, QuietContinue
  <1>4. CASE AutoUnread(a) \/ NoteLost(a) \/ ProposalUnread(a)
    <2>1. Quiet(a)
      BY <1>0, <1>4 DEF TypeInv, TypeOK, Quiet, AutoUnread, NoteLost, ProposalUnread, Done, Proceed
    <2> QED BY <2>1, <1>1
  <1>5. ASSUME NEW c \in Cases, AutoMisread(a) \/ ReviewUnwritten(a) \/ FeedbackLost(a) \/ RejectNoteLost(a)
        PROVE  TurnsOf(c)'
    <2>0. disturbances' = disturbances + 1
      BY <1>5 DEF AutoMisread, ReviewUnwritten, FeedbackLost, RejectNoteLost, Spared, Strands, StoreError
    <2>1. CASE AutoMisread(a)
      <3>1. /\ \A b \in Actors \ {a} : pc'[b] = pc[b] /\ job'[b] = job[b] /\ decision'[b] = decision[b]
            /\ pc[a] = "auto" /\ UNCHANGED <<job, turns>>
        BY <1>0, <2>0, <2>1 DEF TypeInv, TypeOK, AutoMisread, Decide
      <3>2. a \in Live(c)' => a \in Live(c)
        BY <3>1 DEF Live
      <3> QED BY <1>0, <2>0, <3>1, <3>2, ErrorTurns
    <2>2. CASE ReviewUnwritten(a) \/ FeedbackLost(a)
      <3>1. /\ Continue(a) /\ pc[a] = "review"
            /\ UNCHANGED turns \/ turns' = [turns EXCEPT ![job[a]] = @ + 1]
        BY <2>2 DEF ReviewUnwritten, FeedbackLost
      <3>2. /\ \A b \in Actors \ {a} : pc'[b] = pc[b] /\ job'[b] = job[b] /\ decision'[b] = decision[b]
            /\ pc'[a] \in {"idle", "rejected"}
        BY <1>0, <2>0, <3>1 DEF Continue, Done, Proceed, TypeInv, TypeOK, Shape
      <3>3. a \notin Live(c)' /\ a \notin Owes(c)'
        BY <3>2 DEF Live, Owes
      <3>4. turns'[c] \in {turns[c], turns[c] + 1}
        BY <1>0, <2>0, <3>1 DEF TypeInv, TypeOK
      <3> QED BY <1>0, <2>0, <3>2, <3>3, <3>4, ErrorTurns
    <2>3. CASE RejectNoteLost(a)
      <3>1. /\ \A b \in Actors \ {a} : pc'[b] = pc[b] /\ job'[b] = job[b] /\ decision'[b] = decision[b]
            /\ pc'[a] = "idle" /\ UNCHANGED turns
        BY <1>0, <2>0, <2>3 DEF TypeInv, TypeOK, RejectNoteLost, Done
      <3>2. a \notin Live(c)'
        BY <3>1 DEF Live
      <3> QED BY <1>0, <2>0, <3>1, <3>2, ErrorTurns
    <2> QED BY <1>5, <2>1, <2>2, <2>3
  <1> QED BY <1>2, <1>3, <1>4, <1>5 DEF StoreFail, TurnsInv

LEMMA BeginTurns ==
  ASSUME TypeInv, TurnsInv, NEW w \in Workers, Begin(w)
  PROVE  TurnsInv'
  <1>0. PICK c \in queued :
          /\ queued' = queued \ {c}
          /\ UNCHANGED <<pc, job>> \/ (job' = [job EXCEPT ![w] = c] /\ Goto(w, "execute"))
    BY DEF Begin
  <1>1. /\ c \in Cases /\ w \in Actors /\ pc[w] = "idle" /\ UNCHANGED <<turns, decision, disturbances>>
        /\ \A b \in Actors \ {w} : pc'[b] = pc[b] /\ job'[b] = job[b] /\ decision'[b] = decision[b]
    BY <1>0 DEF TypeInv, TypeOK, Begin, Starts, Keep, Goto, Actors
  <1>2. \A d \in Cases : w \notin Live(d) /\ w \notin Owes(d) /\ w \notin Owes(d)'
    BY <1>0, <1>1 DEF Live, Owes, Goto, TypeInv, TypeOK
  <1>3. ASSUME NEW d \in Cases, w \notin Live(d)'  PROVE TurnsOf(d)'
    BY <1>0, <1>1, <1>2, <1>3, QuietTurns DEF TurnsInv
  <1>4. ASSUME w \in Live(c)'  PROVE TurnsOf(c)'
    <2>1. Live(c)' = Live(c) \cup {w} /\ Owes(c)' = Owes(c) \ {w}
      BY <1>1, <1>2, <1>4, Others
    <2>2. Owes(c)' = Owes(c)
      BY <1>1, <1>2, <2>1
    <2>3. IsFiniteSet(Live(c)') /\ Cardinality(Live(c)') = Cardinality(Live(c)) + 1
      BY <1>1, <1>2, <2>1, FS_AddElement DEF TurnsInv, TurnsOf
    <2>4. Cardinality(Live(c)) + 1 <= 1 + disturbances
      BY <1>0, <1>1 DEF TurnsInv, TurnsOf
    <2>5. Cardinality(Live(c)) \in Nat /\ disturbances \in Nat /\ c \notin queued'
      BY <1>0, <1>1, LiveSize DEF TurnsInv, TurnsOf, TypeInv, TypeOK
    <2> QED BY <1>1, <2>2, <2>3, <2>4, <2>5 DEF TurnsInv, TurnsOf
  <1>5. ASSUME NEW d \in Cases \ {c}  PROVE w \notin Live(d)'
    BY <1>0, <1>1 DEF Live, TypeInv, TypeOK
  <1> QED BY <1>1, <1>3, <1>4, <1>5 DEF TurnsInv

\* A request adds a goroutine and perhaps a feedback, and is a disturbance.
LEMMA RequestTurns ==
  ASSUME TypeInv, TurnsInv, NEW u \in Users, Request(u)
  PROVE  TurnsInv'
  <1>0. PICK c \in Cases : pc' = [pc EXCEPT ![u] = "review"] /\ job' = [job EXCEPT ![u] = c]
    BY DEF Request, Goto
  <1>1. /\ u \in Actors /\ pc[u] = "idle" /\ UNCHANGED <<turns, queued>> /\ disturbances' = disturbances + 1
        /\ \A b \in Actors \ {u} : pc'[b] = pc[b] /\ job'[b] = job[b] /\ decision'[b] = decision[b]
    BY <1>0 DEF TypeInv, TypeOK, Request, Starts, store, Actors
  <1> SUFFICES ASSUME NEW d \in Cases  PROVE TurnsOf(d)'
    BY DEF TurnsInv
  <1>2. u \notin Live(d) /\ u \notin Owes(d)
    BY <1>1 DEF Live, Owes
  <1>3. Live(d)' \in {Live(d), Live(d) \cup {u}} /\ Owes(d)' \in {Owes(d), Owes(d) \cup {u}}
    <2>1. Live(d) \ {u} = Live(d) /\ Owes(d) \ {u} = Owes(d)
      BY <1>2
    <2> QED BY <1>1, <2>1, Others
  <1>4. /\ IsFiniteSet(Live(d)) /\ IsFiniteSet(Owes(d))
        /\ Cardinality(Live(d)) \in Nat /\ Cardinality(Owes(d)) \in Nat
        /\ turns[d] \in Nat /\ disturbances \in Nat /\ MaxTurns \in Nat
        /\ Cardinality(Live(d)) + (IF d \in queued THEN 1 ELSE 0) <= 1 + disturbances
        /\ turns[d] + Cardinality(Owes(d)) <= MaxTurns + disturbances
    BY LiveSize, BoundsAssumption DEF TypeInv, TypeOK, TurnsInv, TurnsOf
  <1>5. /\ IsFiniteSet(Live(d)') /\ Cardinality(Live(d)') \in {Cardinality(Live(d)), Cardinality(Live(d)) + 1}
        /\ Cardinality(Owes(d)') \in {Cardinality(Owes(d)), Cardinality(Owes(d)) + 1}
    BY <1>2, <1>3, <1>4, FS_AddElement
  <1>6. turns'[d] = turns[d] /\ (d \in queued' <=> d \in queued)
    BY <1>1
  <1>7. Cardinality(Live(d)') + (IF d \in queued' THEN 1 ELSE 0) <= 1 + disturbances'
    BY <1>1, <1>4, <1>5, <1>6
  <1>8. turns'[d] + Cardinality(Owes(d)') <= MaxTurns + disturbances'
    BY <1>1, <1>4, <1>5, <1>6
  <1> QED BY <1>5, <1>7, <1>8 DEF TurnsOf

\* The steps of no goroutine of a task, or that start none: they may add one place in the queue for
\* a case nobody works on, or a disturbance.
LEMMA OtherTurns ==
  ASSUME TypeInv, TurnsInv,
         \/ SuiteStep \/ SuiteFail \/ Crash
         \/ \E c \in Cases : Cancel(c)
         \/ \E w \in Workers : BeginUnread(w)
  PROVE  TurnsInv'
  <1> SUFFICES ASSUME NEW d \in Cases  PROVE TurnsOf(d)'
    BY DEF TurnsInv
  <1>1. /\ IsFiniteSet(Live(d)) /\ Cardinality(Live(d)) \in Nat /\ Cardinality(Owes(d)) \in Nat
        /\ turns[d] \in Nat /\ disturbances \in Nat /\ MaxTurns \in Nat
        /\ Cardinality(Live(d)) + (IF d \in queued THEN 1 ELSE 0) <= 1 + disturbances
        /\ turns[d] + Cardinality(Owes(d)) <= MaxTurns + disturbances
    BY LiveSize, BoundsAssumption DEF TypeInv, TypeOK, TurnsInv, TurnsOf
  <1>2. ASSUME \A a \in Workers \cup Users : pc'[a] = pc[a] /\ job'[a] = job[a] /\ decision'[a] = decision[a],
               turns' = turns, disturbances' \in {disturbances, disturbances + 1},
               d \in queued' => d \in queued
        PROVE  TurnsOf(d)'
    <2>1. Live(d)' = Live(d) /\ Owes(d)' = Owes(d)
      BY <1>2 DEF Live, Owes
    <2>2. (IF d \in queued' THEN 1 ELSE 0) <= (IF d \in queued THEN 1 ELSE 0)
      BY <1>2
    <2> QED BY <1>1, <1>2, <2>1, <2>2 DEF TurnsOf
  <1> USE ActorsAssumption DEF TypeInv, TypeOK, Goto, Done, Actors
  <1>3. CASE SuiteBegin
    BY <1>2, <1>3 DEF SuiteBegin
  <1>4. CASE SuiteTask
    BY <1>2, <1>4 DEF SuiteTask
  <1>5. CASE SuiteRun
    <2>1. /\ \A a \in Workers \cup Users : pc'[a] = pc[a] /\ job'[a] = job[a] /\ decision'[a] = decision[a]
          /\ UNCHANGED <<turns, disturbances>> /\ queued' = queued \cup {job[Suite]}
      BY <1>5 DEF SuiteRun
    <2>2. CASE d # job[Suite]
      BY <1>2, <2>1, <2>2
    <2>3. CASE d = job[Suite]
      <3>1. Live(d) = {} /\ Live(d)' = {} /\ Owes(d) = Owes(d)'
        BY <1>5, <2>1, <2>3 DEF SuiteRun, SuiteInv, Unknown, Live, Owes
      <3>2. IsFiniteSet({}) /\ Cardinality({}) = 0
        BY FS_EmptySet
      <3> QED BY <1>1, <2>1, <3>1, <3>2 DEF TurnsOf
    <2> QED BY <2>2, <2>3
  <1>6. CASE SuiteFail
    BY <1>2, <1>6 DEF SuiteFail
  <1>7. ASSUME NEW c \in Cases, Cancel(c)  PROVE TurnsOf(d)'
    BY <1>2, <1>7 DEF Cancel, control
  <1>8. CASE Crash
    <2>1. Live(d)' = {} /\ Owes(d)' = {}
      BY <1>8 DEF Crash, Live, Owes
    <2>2. IsFiniteSet({}) /\ Cardinality({}) = 0
      BY FS_EmptySet
    <2>3. disturbances' = disturbances + 1 /\ turns' = turns
      BY <1>8 DEF Crash
    <2> QED BY <1>1, <2>1, <2>2, <2>3 DEF TurnsOf
  <1>9. ASSUME NEW w \in Workers, BeginUnread(w)  PROVE TurnsOf(d)'
    BY <1>2, <1>9 DEF BeginUnread, Strands, StoreError, store, control
  <1> QED BY <1>3, <1>4, <1>5, <1>6, <1>7, <1>8, <1>9 DEF SuiteStep

LEMMA TurnsNext == TypeInv /\ TurnsInv /\ [Next]_vars => TurnsInv'
  <1> SUFFICES ASSUME TypeInv, TurnsInv, [Next]_vars  PROVE TurnsInv'
    OBVIOUS
  <1>1. CASE UNCHANGED vars
    BY <1>1 DEF TurnsInv, TurnsOf, Live, Owes, vars, store, control
  <1>2. ASSUME NEW a \in Workers \cup Users, Step(a)  PROVE TurnsInv'
    BY <1>2, BatchTurns, QuietKeeps, NoteTurns, AutoReviewTurns, ReviewTurns DEF Step
  <1> QED BY <1>1, <1>2, BeginTurns, RequestTurns, OtherTurns, FailTurns DEF Next

LEMMA TurnsInit == Init => TurnsInv
  <1> SUFFICES ASSUME Init, NEW c \in Cases  PROVE TurnsOf(c)
    BY DEF TurnsInv
  <1>1. Live(c) = {} /\ Owes(c) = {}
    BY DEF Init, Live, Owes, Actors
  <1>2. IsFiniteSet({}) /\ Cardinality({}) = 0
    BY FS_EmptySet
  <1>3. c \notin queued /\ turns[c] = 0 /\ disturbances = 0
    BY DEF Init
  <1> QED BY <1>1, <1>2, <1>3, BoundsAssumption DEF TurnsOf

\* However many workers review however many cases, the automatic review of a
\* case ends: a task gets a feedback at most MaxTurns times, and once more for
\* each request, failed suite, failed call of the store or crash.
THEOREM TurnsAreBounded == Spec => []TurnsBounded
  <1>1. TypeInv /\ TurnsInv => TurnsBounded
    <2> SUFFICES ASSUME TypeInv, TurnsInv, NEW c \in Cases  PROVE turns[c] <= MaxTurns + disturbances
      BY DEF TurnsBounded
    <2>1. turns[c] \in Nat /\ disturbances \in Nat /\ MaxTurns \in Nat /\ Cardinality(Owes(c)) \in Nat
      BY LiveSize, BoundsAssumption DEF TypeInv, TypeOK, TurnsInv, TurnsOf
    <2> QED BY <2>1 DEF TurnsInv, TurnsOf
  <1> QED BY <1>1, TypeAlways, TurnsInit, TurnsNext, PTL DEF Spec

=============================================================================

----------------------- MODULE EvaluationResultProofs -----------------------
(* The results of an evaluation that no person, crash or failing suite has   *)
(* touched, whichever calls of the store fail: a pass is proven, a final     *)
(* result is never changed, and the workers that complete the batch record   *)
(* one result.  One worker at a time owns such a case, which is what the     *)
(* goroutines' unlocked reads and writes of its run rest on.                 *)
EXTENDS EvaluationProofs

\* A worker that failed a task but could not write so only finalizes its run.
Unsettled(w) ==
  /\ decision[w] = "FAILED" /\ again[w] = "none"
  /\ pc[w] \in {"finalize", "finalWrite", "refresh", "count", "batchWrite"}

\* What is known when worker w works on the untouched case c.
OwnBy(w, c) ==
  /\ pc[w] = "execute" => task[c] = "RUNNING" /\ again[w] = "none"
  /\ pc[w] # "execute" => \/ task[c] \in {"COMPLETED", "FAILED", "HUMAN_REVIEW_REQUIRED"}
                          \/ task[c] = "RUNNING" /\ Unsettled(w)
  /\ pc[w] = "finalWrite" => row[c].status \notin Final
  /\ pc[w] \in {"note", "review"} => row[c].status = "human_review_required"
  /\ pc[w] \in {"note", "rejectNote"} => mine[w] = row[c]
  /\ pc[w] \in {"note", "review"} /\ decision[w] = "FAILED" => ~skip[c]

\* What the run of a case says of its task.
Proven(c) ==
  /\ task[c] \in {"CREATED", "RUNNING"} => ~row[c].passed
  /\ row[c].passed => row[c].status = "completed" /\ evidence[c]

Own(c) ==
  /\ \A u \in Users : job[u] # c
  /\ \A w, v \in Workers : job[w] = c /\ job[v] = c => w = v
  /\ c \in queued => task[c] = "CREATED" /\ \A w \in Workers : job[w] # c
  /\ task[c] # "CANCELLED"
  /\ \A w \in Workers : job[w] = c => OwnBy(w, c)
  /\ Proven(c)

OwnInv == \A c \in Cases \ touched : Own(c)

\* What a step does to results: it keeps the final ones.
KeepsResults == \A c \in Cases \ touched' : row[c].status \in Final => row'[c] = row[c]

-----------------------------------------------------------------------------
(* The steps of a goroutine *)

\* What a step of goroutine a for case c leaves alone.
Apart(a, c) ==
  /\ \A b \in Actors \ {a} :
       /\ pc'[b] = pc[b] /\ job'[b] = job[b] /\ decision'[b] = decision[b] /\ mine'[b] = mine[b]
       /\ again'[b] = again[b]
  /\ job'[a] \in {c, None}
  /\ \A d \in Cases \ {c} :
       /\ row'[d] = row[d] /\ task'[d] = task[d] /\ evidence'[d] = evidence[d] /\ skip'[d] = skip[d]
       /\ d \in queued' <=> d \in queued
  /\ touched \subseteq touched'

\* A step for one case leaves the others as they are.
LEMMA OwnOfOthers ==
  ASSUME TypeInv, NEW a \in Actors, NEW c \in Cases, Apart(a, c),
         job[a] \in {c, None}, NEW d \in Cases \ {c}, Own(d)
  PROVE  Own(d)'
  <1>1. \A b \in Actors : job'[b] = d => b # a /\ job[b] = d
    BY ActorsAssumption DEF Apart
  <1>2. \A b \in Actors : b # a => (OwnBy(b, d) => OwnBy(b, d)')
    BY DEF Apart, OwnBy, Unsettled
  <1>3. Proven(d)'
    BY DEF Own, Proven, Apart
  <1> QED BY <1>1, <1>2, <1>3 DEF Own, Apart, Actors

\* The owner of a case goes on with it, or gives it up.
LEMMA OwnOfOwner ==
  ASSUME TypeInv, NEW w \in Workers, NEW c \in Cases, Apart(w, c), Own(c), c \notin queued,
         job[w] \in {c, None}, \A v \in Workers \ {w} : job[v] # c,
         c \in queued' => task'[c] = "CREATED" /\ job'[w] = None,
         task'[c] # "CANCELLED", job'[w] = c => OwnBy(w, c)', Proven(c)'
  PROVE  Own(c)'
  <1>1. \A b \in Actors \ {w} : job'[b] = job[b]
    BY DEF Apart
  <1>2. Workers \subseteq Actors /\ Users \subseteq Actors /\ w \notin Users
    BY ActorsAssumption DEF Actors
  <1>3. \A u \in Users : job'[u] # c
    BY <1>1, <1>2 DEF Own
  <1>4. \A v \in Workers : job'[v] = c => v = w
    BY <1>1, <1>2
  <1> QED BY <1>3, <1>4, ActorsAssumption DEF Own

\* What is to be shown of a step of the owner of an untouched case.
OwnerKeeps(a, c) ==
  /\ c \in queued' => task'[c] = "CREATED" /\ job'[a] = None
  /\ task'[c] # "CANCELLED" /\ (job'[a] = c => OwnBy(a, c)')
  /\ Proven(c)' /\ (row[c].status \in Final => row'[c] = row[c])

\* It is enough to look at the owner of an untouched case.
LEMMA OwnStep ==
  ASSUME TypeInv, OwnInv, NEW a \in Workers \cup Users, NEW c \in Cases, job[a] = c, Apart(a, c),
         ASSUME a \in Workers, c \notin touched', Own(c), OwnBy(a, c)
         PROVE  OwnerKeeps(a, c)
  PROVE  OwnInv' /\ KeepsResults
  <1>0. a \in Actors /\ Workers \subseteq Actors
    BY DEF Actors
  <1>1. ASSUME NEW d \in Cases \ touched'  PROVE Own(d)' /\ (row[d].status \in Final => row'[d] = row[d])
    <2>1. Own(d)
      BY <1>1 DEF Apart, OwnInv
    <2>2. CASE d # c
      BY <1>0, <2>1, <2>2, OwnOfOthers DEF Apart
    <2>3. CASE d = c
      <3>1. a \in Workers /\ OwnBy(a, c) /\ c \notin queued /\ \A v \in Workers \ {a} : job[v] # c
        BY <2>1, <2>3 DEF Own
      <3>2. OwnerKeeps(a, c)
        BY <1>1, <2>1, <2>3, <3>1
      <3> QED BY <2>1, <2>3, <3>1, <3>2, OwnOfOwner DEF OwnerKeeps
    <2> QED BY <2>2, <2>3
  <1> QED BY <1>1 DEF OwnInv, KeepsResults

LEMMA ApartContinue ==
  ASSUME TypeInv, NEW a \in Workers \cup Users, NEW c \in Cases, job[a] = c, Continue(a),
         UNCHANGED <<row, evidence, skip, touched>>,
         \A d \in Cases \ {c} : task'[d] = task[d] /\ (d \in queued' <=> d \in queued)
  PROVE  Apart(a, c) /\ pc'[a] \in {"rejected", "finalize", "auto", "idle"}
  BY DEF TypeInv, TypeOK, Apart, Continue, Proceed, Done, Goto, Actors

\* Going on after a finalization or a review, with nothing written.
LEMMA ContinueOwn ==
  ASSUME TypeInv, OwnInv, NEW a \in Workers \cup Users, pc[a] \notin {"idle", "execute"}, Continue(a),
         UNCHANGED <<task, row, evidence, skip, queued, touched>>
  PROVE  OwnInv' /\ KeepsResults
  <1>0. PICK c \in Cases : c = job[a]
    BY Working
  <1>1. Apart(a, c) /\ pc'[a] \in {"rejected", "finalize", "auto", "idle"}
    BY <1>0, ApartContinue
  <1>2. Unsettled(a) => job'[a] = None
    BY DEF Unsettled, Continue, Done, TypeInv, TypeOK, Actors
  <1>3. ASSUME a \in Workers, Own(c), OwnBy(a, c)
        PROVE  OwnerKeeps(a, c)
    BY <1>0, <1>1, <1>2, <1>3, ActorsAssumption DEF OwnerKeeps, Own, OwnBy, Proven
  <1> QED BY <1>0, <1>1, <1>3, OwnStep

LEMMA BatchOwn ==
  ASSUME TypeInv, OwnInv, NEW a \in Workers \cup Users,
         FinalizeRead(a) \/ FinalizeWrite(a) \/ Refresh(a) \/ Count(a) \/ BatchWrite(a)
  PROVE  OwnInv' /\ KeepsResults
  <1>0. pc[a] \in {"finalize", "finalWrite", "refresh", "count", "batchWrite"} /\ a \in Actors
    BY DEF FinalizeRead, FinalizeWrite, Refresh, Count, BatchWrite, Actors
  <1>1. PICK c \in Cases : c = job[a]
    BY <1>0, Working
  <1> USE DEF store, Keep, Goto
  <1>2. ASSUME Continue(a), UNCHANGED <<task, row, evidence, skip, queued, touched>>
        PROVE  OwnInv' /\ KeepsResults
    BY <1>0, <1>2, ContinueOwn
  <1>3. CASE FinalizeRead(a)
    <2>1. CASE Continue(a)
      BY <1>2, <1>3, <2>1 DEF FinalizeRead
    <2>2. CASE ~Continue(a)
      <3>1. Apart(a, c) /\ pc'[a] = "finalWrite" /\ row[c].status \notin Final
            /\ UNCHANGED <<task, row, evidence, queued, decision, again>> /\ pc[a] = "finalize"
        BY <1>0, <1>1, <1>3, <2>2 DEF FinalizeRead, Finalizes, Apart, TypeInv, TypeOK
      <3>2. ASSUME a \in Workers, Own(c), OwnBy(a, c)
            PROVE  OwnerKeeps(a, c)
        BY <1>0, <1>1, <3>1, <3>2 DEF OwnerKeeps, Own, OwnBy, Unsettled, Proven
      <3> QED BY <1>1, <3>1, <3>2, OwnStep
    <2> QED BY <2>1, <2>2
  <1>4. CASE FinalizeWrite(a)
    <2>1. Apart(a, c)
      BY <1>0, <1>1, <1>4 DEF FinalizeWrite, WriteRow, Apart, TypeInv, TypeOK
    <2>2. /\ row'[c] = [status |-> RowStatusOf(decision[a]), passed |-> Passes(a, c)]
          /\ pc[a] = "finalWrite" /\ pc'[a] = "refresh"
          /\ UNCHANGED <<task, evidence, queued, decision, again>>
      <3>1. row' = [row EXCEPT ![c] = [status |-> RowStatusOf(decision[a]), passed |-> Passes(a, c)]]
        BY <1>1, <1>4 DEF FinalizeWrite, WriteRow
      <3>2. pc[a] = "finalWrite" /\ pc'[a] = "refresh" /\ UNCHANGED <<task, evidence, queued, decision, again>>
        BY <1>0, <1>4 DEF FinalizeWrite, TypeInv, TypeOK
      <3>3. row'[c] = [status |-> RowStatusOf(decision[a]), passed |-> Passes(a, c)]
        BY <1>1, <3>1 DEF TypeInv, TypeOK
      <3> QED BY <3>2, <3>3
    <2>3. row'[c].passed => row'[c].status = "completed" /\ evidence[c] /\ decision[a] = "COMPLETED"
      <3>1. row'[c].passed = Passes(a, c) /\ row'[c].status = RowStatusOf(decision[a])
        BY <2>2
      <3>2. Passes(a, c) => decision[a] = "COMPLETED" /\ evidence[c]
        BY DEF Passes
      <3>3. RowStatusOf("COMPLETED") = "completed"
        BY DEF RowStatusOf
      <3> QED BY <3>1, <3>2, <3>3
    <2>4. ASSUME a \in Workers, Own(c), OwnBy(a, c)
          PROVE  OwnerKeeps(a, c)
      BY <1>1, <2>2, <2>3, <2>4 DEF OwnerKeeps, Own, OwnBy, Unsettled, Proven
    <2> QED BY <1>1, <2>1, <2>4, OwnStep
  <1>5. CASE Refresh(a) \/ Count(a)
    <2>1. /\ Apart(a, c) /\ pc[a] \in {"refresh", "count"} /\ pc'[a] \in {"count", "batchWrite"}
          /\ UNCHANGED <<task, row, evidence, queued, decision, again>>
      BY <1>0, <1>1, <1>5 DEF Refresh, Count, Apart, TypeInv, TypeOK
    <2>2. ASSUME a \in Workers, Own(c), OwnBy(a, c)
          PROVE  OwnerKeeps(a, c)
      BY <1>0, <1>1, <2>1, <2>2 DEF OwnerKeeps, Own, OwnBy, Unsettled, Proven
    <2> QED BY <1>1, <2>1, <2>2, OwnStep
  <1>6. CASE BatchWrite(a)
    BY <1>2, <1>6 DEF BatchWrite
  <1> QED BY <1>3, <1>4, <1>5, <1>6

LEMMA ExecuteOwn ==
  ASSUME TypeInv, OwnInv, NEW a \in Workers \cup Users, Finish(a) \/ Fail(a)
  PROVE  OwnInv' /\ KeepsResults
  <1>0. pc[a] = "execute" /\ a \in Actors
    BY DEF Finish, Fail, Actors
  <1>1. PICK c \in Cases : c = job[a]
    BY <1>0, Working
  <1>2. Apart(a, c) /\ UNCHANGED <<row, queued>>
    BY <1>0, <1>1 DEF Finish, Fail, Apart, Done, Goto, Keep, TypeInv, TypeOK
  <1>3. ASSUME task[c] = "RUNNING"
        PROVE  task'[c] \in {"COMPLETED", "FAILED", "HUMAN_REVIEW_REQUIRED"} /\ pc'[a] = "finalize"
    BY <1>0, <1>1, <1>3 DEF Finish, Fail, Goto, TypeInv, TypeOK
  <1>4. ASSUME a \in Workers, Own(c), OwnBy(a, c)
        PROVE  OwnerKeeps(a, c)
    BY <1>0, <1>1, <1>2, <1>3, <1>4 DEF OwnerKeeps, Own, OwnBy, Proven
  <1> QED BY <1>1, <1>2, <1>4, OwnStep

LEMMA NotesOwn ==
  ASSUME TypeInv, OwnInv, NEW a \in Workers \cup Users,
         AutoReview(a) \/ Note(a) \/ Rejected(a) \/ RejectNote(a)
  PROVE  OwnInv' /\ KeepsResults
  <1>0. pc[a] \in {"auto", "note", "rejected", "rejectNote"} /\ a \in Actors
    BY DEF AutoReview, Note, Rejected, RejectNote, Actors
  <1>1. PICK c \in Cases : c = job[a]
    BY <1>0, Working
  <1> USE DEF store, Keep, Goto, TypeInv, TypeOK
  <1>2. CASE AutoReview(a)
    <2>1. Apart(a, c) /\ UNCHANGED <<task, row, evidence, skip, queued>>
      BY <1>0, <1>1, <1>2 DEF AutoReview, Decide, Done, Apart
    <2>2. pc[a] = "auto" /\ (Done(a) \/ /\ row[c].status = "human_review_required" /\ decision'[a] \in AutoDecision(c)
                                        /\ mine'[a] = row[c] /\ pc'[a] \in {"note", "review"})
      BY <1>0, <1>1, <1>2 DEF AutoReview, Decide
    <2>3. Done(a) => job'[a] = None
      BY <1>0 DEF Done
    <2>4. decision'[a] \in AutoDecision(c) /\ decision'[a] = "FAILED" => ~skip[c]
      BY DEF AutoDecision, Verdicts
    <2>5. ASSUME a \in Workers, Own(c), OwnBy(a, c)
          PROVE  OwnerKeeps(a, c)
      BY <1>1, <2>1, <2>2, <2>3, <2>4, <2>5, ActorsAssumption DEF OwnerKeeps, Own, OwnBy, Unsettled, Proven
    <2> QED BY <1>1, <2>1, <2>5, OwnStep
  <1>3. CASE Note(a)
    <2>1. Apart(a, c) /\ UNCHANGED <<task, evidence, skip, queued>>
      BY <1>0, <1>1, <1>3 DEF Note, WriteRow, Proceed, Apart
    <2>2. pc[a] = "note" /\ pc'[a] = "review" /\ row'[c] = mine[a] /\ decision'[a] = decision[a]
      BY <1>0, <1>1, <1>3 DEF Note, WriteRow, Proceed
    <2>3. ASSUME a \in Workers, Own(c), OwnBy(a, c)
          PROVE  OwnerKeeps(a, c)
      BY <1>1, <2>1, <2>2, <2>3 DEF OwnerKeeps, Own, OwnBy, Unsettled, Proven
    <2> QED BY <1>1, <2>1, <2>3, OwnStep
  <1>4. CASE Rejected(a)
    <2>1. Apart(a, c) /\ UNCHANGED <<task, row, evidence, queued>>
      BY <1>0, <1>1, <1>4 DEF Rejected, Apart
    <2>2. pc[a] = "rejected" /\ pc'[a] = "rejectNote" /\ mine'[a] = row[c]
      BY <1>0, <1>1, <1>4 DEF Rejected
    <2>3. ASSUME a \in Workers, Own(c), OwnBy(a, c)
          PROVE  OwnerKeeps(a, c)
      BY <1>1, <2>1, <2>2, <2>3 DEF OwnerKeeps, Own, OwnBy, Unsettled, Proven
    <2> QED BY <1>1, <2>1, <2>3, OwnStep
  <1>5. CASE RejectNote(a)
    <2>1. Apart(a, c) /\ UNCHANGED <<task, evidence, queued>>
      BY <1>0, <1>1, <1>5 DEF RejectNote, WriteRow, Done, Apart
    <2>2. pc[a] = "rejectNote" /\ job'[a] = None /\ row'[c] = mine[a]
      BY <1>0, <1>1, <1>5 DEF RejectNote, WriteRow, Done
    <2>3. ASSUME a \in Workers, Own(c), OwnBy(a, c)
          PROVE  OwnerKeeps(a, c)
      BY <1>1, <2>1, <2>2, <2>3, ActorsAssumption DEF OwnerKeeps, Own, OwnBy, Unsettled, Proven
    <2> QED BY <1>1, <2>1, <2>3, OwnStep
  <1> QED BY <1>2, <1>3, <1>4, <1>5

LEMMA ReviewOwn ==
  ASSUME TypeInv, OwnInv, NEW a \in Workers \cup Users, Review(a)
  PROVE  OwnInv' /\ KeepsResults
  <1>0. /\ pc[a] = "review" /\ a \in Actors /\ UNCHANGED <<row, evidence, skip, touched>>
        /\ decision[a] \in {"continue", "COMPLETED", "FAILED"}
        /\ decision[a] = "continue" => again[a] = "none"
    BY DEF Review, Keep, Actors, TypeInv, Shape
  <1>1. PICK c \in Cases : c = job[a]
    BY <1>0, Working
  <1>2. \/ Continue(a) /\ UNCHANGED <<task, queued>> /\ task[c] # "HUMAN_REVIEW_REQUIRED"
        \/ /\ task' = [task EXCEPT ![c] = "CREATED"] /\ queued' = queued \cup {c} /\ Continue(a)
           /\ decision[a] = "continue" \/ (decision[a] = "FAILED" /\ skip[c])
        \/ /\ task' = [task EXCEPT ![c] = decision[a]] /\ Goto(a, "finalize") /\ decision[a] # "continue"
           /\ UNCHANGED <<queued, job, decision, again, mine>>
    BY <1>1 DEF Review
  <1>3. CASE Continue(a) /\ UNCHANGED <<task, queued>>
    BY <1>0, <1>3, ContinueOwn
  <1>4. CASE /\ task' = [task EXCEPT ![c] = "CREATED"] /\ queued' = queued \cup {c} /\ Continue(a)
             /\ decision[a] = "continue" \/ (decision[a] = "FAILED" /\ skip[c])
    <2>1. Apart(a, c)
      BY <1>0, <1>1, <1>4, ApartContinue DEF TypeInv, TypeOK
    <2>2. task'[c] = "CREATED"
      BY <1>4 DEF TypeInv, TypeOK
    <2>3. ASSUME a \in Workers, Own(c), OwnBy(a, c)  PROVE OwnerKeeps(a, c)
      <3>1. decision[a] = "continue" /\ ~row[c].passed
        BY <1>0, <1>4, <2>3 DEF OwnBy, Own, Proven
      <3>2. job'[a] = None
        BY <1>0, <1>4, <3>1 DEF Continue, Done, TypeInv, TypeOK
      <3> QED BY <1>0, <1>1, <2>2, <3>1, <3>2, ActorsAssumption DEF OwnerKeeps, Proven
    <2> QED BY <1>1, <2>1, <2>3, OwnStep
  <1>5. CASE /\ task' = [task EXCEPT ![c] = decision[a]] /\ Goto(a, "finalize") /\ decision[a] # "continue"
             /\ UNCHANGED <<queued, job, decision, again, mine>>
    <2>1. Apart(a, c) /\ pc'[a] = "finalize"
      BY <1>0, <1>1, <1>5 DEF Apart, Goto, TypeInv, TypeOK
    <2>2. task'[c] \in {"COMPLETED", "FAILED"}
      BY <1>0, <1>5 DEF TypeInv, TypeOK
    <2>3. ASSUME a \in Workers, Own(c), OwnBy(a, c)  PROVE OwnerKeeps(a, c)
      BY <1>0, <1>1, <1>5, <2>1, <2>2, <2>3 DEF OwnerKeeps, Own, OwnBy, Proven
    <2> QED BY <1>1, <2>1, <2>3, OwnStep
  <1> QED BY <1>2, <1>3, <1>4, <1>5

-----------------------------------------------------------------------------
(* The steps that start a goroutine or come from outside *)

\* A worker that takes an untouched case from the queue is its only one.
LEMMA BeginOwn ==
  ASSUME TypeInv, OwnInv, NEW w \in Workers, Begin(w)
  PROVE  OwnInv' /\ KeepsResults
  <1>0. PICK c \in queued :
          /\ queued' = queued \ {c}
          /\ IF task[c] = "CANCELLED" THEN UNCHANGED <<task, evidence, pc, job>>
             ELSE /\ task' = [task EXCEPT ![c] = "RUNNING"]
                  /\ evidence' = [evidence EXCEPT ![c] = FALSE]
                  /\ job' = [job EXCEPT ![w] = c] /\ Goto(w, "execute")
    BY DEF Begin
  <1>1. /\ c \in Cases /\ w \in Actors /\ pc[w] = "idle" /\ job[w] = None
        /\ UNCHANGED <<row, skip, decision, again, mine, touched>> /\ again[w] = "none"
    BY <1>0 DEF TypeInv, TypeOK, Shape, Begin, Starts, Keep, Actors
  <1>2. Apart(w, c)
    <2>1. CASE UNCHANGED <<task, evidence, pc, job>>
      BY <1>0, <1>1, <2>1 DEF Apart
    <2>2. CASE /\ task' = [task EXCEPT ![c] = "RUNNING"] /\ evidence' = [evidence EXCEPT ![c] = FALSE]
               /\ job' = [job EXCEPT ![w] = c] /\ Goto(w, "execute")
      BY <1>0, <1>1, <2>2 DEF TypeInv, TypeOK, Apart, Goto
    <2> QED BY <1>0, <2>1, <2>2
  <1>3. ASSUME NEW d \in Cases \ touched  PROVE Own(d)'
    <2>1. Own(d)
      BY DEF OwnInv
    <2>2. CASE d # c
      BY <1>1, <1>2, <2>1, <2>2, OwnOfOthers
    <2>3. CASE d = c
      <3>1. task[c] = "CREATED" /\ (\A v \in Workers : job[v] # c) /\ Proven(c)
            /\ \A u \in Users : job[u] # c
        BY <1>0, <2>1, <2>3 DEF Own
      <3>2. /\ task' = [task EXCEPT ![c] = "RUNNING"] /\ job' = [job EXCEPT ![w] = c] /\ Goto(w, "execute")
        BY <1>0, <3>1
      <3>3. task'[c] = "RUNNING" /\ pc'[w] = "execute" /\ job'[w] = c
        BY <1>1, <3>2 DEF Goto, TypeInv, TypeOK
      <3>4. OwnBy(w, c)' /\ Proven(c)'
        BY <1>1, <3>1, <3>3 DEF OwnBy, Proven
      <3>5. \A b \in (Workers \cup Users) \ {w} : job'[b] # c
        BY <1>2, <3>1 DEF Apart, Actors
      <3> QED BY <1>0, <2>3, <3>3, <3>4, <3>5, ActorsAssumption DEF Own, Actors
    <2> QED BY <2>2, <2>3
  <1> QED BY <1>1, <1>3 DEF OwnInv, KeepsResults

LEMMA SuiteOwn ==
  ASSUME TypeInv, OwnInv, SuiteStep \/ SuiteFail
  PROVE  OwnInv' /\ KeepsResults
  <1>0. Suite \in Actors /\ Suite \notin Workers \cup Users /\ (pc[Suite] # "idle" => job[Suite] \in Cases)
    BY ActorsAssumption DEF Actors, TypeInv, TypeOK, Shape
  <1>1. ASSUME \A a \in Workers \cup Users :
                 /\ pc'[a] = pc[a] /\ job'[a] = job[a] /\ decision'[a] = decision[a] /\ mine'[a] = mine[a]
                 /\ again'[a] = again[a],
               NEW c \in Cases \ touched, row'[c] = row[c], evidence'[c] = evidence[c], skip'[c] = skip[c],
               task'[c] = task[c], c \in queued' <=> c \in queued
        PROVE  Own(c)'
    <2>1. Own(c) /\ \A w \in Workers : (OwnBy(w, c) => OwnBy(w, c)')
      BY <1>1 DEF OwnInv, OwnBy, Unsettled
    <2> QED BY <1>1, <2>1 DEF Own, Proven
  <1> USE DEF Goto, Done
  <1>2. CASE SuiteBegin
    <2>1. /\ \A a \in Workers \cup Users :
               /\ pc'[a] = pc[a] /\ job'[a] = job[a] /\ decision'[a] = decision[a] /\ mine'[a] = mine[a]
               /\ again'[a] = again[a]
          /\ UNCHANGED <<task, row, evidence, skip, queued, touched>>
      BY <1>0, <1>2 DEF SuiteBegin, TypeInv, TypeOK
    <2> QED BY <1>1, <2>1 DEF OwnInv, KeepsResults
  <1>3. CASE SuiteTask
    <2>1. /\ \A a \in Workers \cup Users :
               /\ pc'[a] = pc[a] /\ job'[a] = job[a] /\ decision'[a] = decision[a] /\ mine'[a] = mine[a]
               /\ again'[a] = again[a]
          /\ UNCHANGED <<row, evidence, skip, queued, touched>>
          /\ task' = [task EXCEPT ![job[Suite]] = "CREATED"]
          /\ task[job[Suite]] = "ABSENT" /\ job[Suite] \in Cases
      BY <1>0, <1>3 DEF SuiteTask, TypeInv, TypeOK, SuiteInv
    <2>2. ASSUME NEW c \in Cases \ touched  PROVE Own(c)'
      <3>1. CASE c # job[Suite]
        BY <1>1, <2>1, <3>1 DEF TypeInv, TypeOK
      <3>2. CASE c = job[Suite]
        <4>0. Unknown(c)
          BY <2>1, <3>2 DEF TypeInv, SuiteInv
        <4>1. Unknown(c) /\ task'[c] = "CREATED" /\ ~row[c].passed
          BY <2>1, <3>2, <4>0 DEF TypeInv, TypeOK, Unknown, NoRow
        <4>2. \A a \in Workers \cup Users : job'[a] # c
          BY <2>1, <4>1 DEF Unknown
        <4> QED BY <2>1, <4>1, <4>2 DEF Own, Proven, Unknown
      <3> QED BY <3>1, <3>2
    <2> QED BY <2>1, <2>2 DEF OwnInv, KeepsResults
  <1>4. CASE SuiteRun
    <2>1. /\ \A a \in Workers \cup Users :
               /\ pc'[a] = pc[a] /\ job'[a] = job[a] /\ decision'[a] = decision[a] /\ mine'[a] = mine[a]
               /\ again'[a] = again[a]
          /\ UNCHANGED <<task, evidence, skip, touched>> /\ pc[Suite] = "addRun" /\ job[Suite] \in Cases
          /\ row' = [row EXCEPT ![job[Suite]] = [status |-> "queued", passed |-> FALSE]]
          /\ queued' = queued \cup {job[Suite]}
      <3>1. \A b \in Actors \ {Suite} :
              /\ pc'[b] = pc[b] /\ job'[b] = job[b] /\ decision'[b] = decision[b] /\ mine'[b] = mine[b]
              /\ again'[b] = again[b]
        BY <1>4 DEF SuiteRun, TypeInv, TypeOK
      <3>2. Workers \cup Users \subseteq Actors \ {Suite}
        BY <1>0 DEF Actors
      <3> QED BY <1>0, <1>4, <3>1, <3>2 DEF SuiteRun, WriteRow
    <2>2. ASSUME NEW c \in Cases \ touched  PROVE Own(c)' /\ (row[c].status \in Final => row'[c] = row[c])
      <3>1. CASE c # job[Suite]
        <4>1. row'[c] = row[c]
          BY <2>1, <3>1 DEF TypeInv, TypeOK
        <4> QED BY <1>1, <2>1, <3>1, <4>1
      <3>2. CASE c = job[Suite]
        <4>1. Unknown(c) /\ task[c] = "CREATED"
          BY <2>1, <3>2 DEF TypeInv, SuiteInv, OwnInv, Own
        <4>2. row'[c] = [status |-> "queued", passed |-> FALSE] /\ row[c].status \notin Final
          BY <2>1, <3>2, <4>1 DEF TypeInv, TypeOK, Unknown, NoRow, Final
        <4>3. \A a \in Workers \cup Users : job'[a] # c
          BY <2>1, <4>1 DEF Unknown
        <4> QED BY <2>1, <4>1, <4>2, <4>3 DEF Own, Proven
      <3> QED BY <3>1, <3>2
    <2> QED BY <2>1, <2>2 DEF OwnInv, KeepsResults
  <1>5. CASE SuiteFail
    <2>1. /\ \A a \in Workers \cup Users :
               /\ pc'[a] = pc[a] /\ job'[a] = job[a] /\ decision'[a] = decision[a] /\ mine'[a] = mine[a]
               /\ again'[a] = again[a]
          /\ UNCHANGED <<task, row, evidence, skip, queued>> /\ touched \subseteq touched'
      BY <1>0, <1>5 DEF SuiteFail, TypeInv, TypeOK
    <2> QED BY <1>1, <2>1 DEF OwnInv, KeepsResults
  <1> QED BY <1>2, <1>3, <1>4, <1>5 DEF SuiteStep

\* A person who reviews or cancels a task touches its case and no other.
LEMMA PersonOwn ==
  ASSUME TypeInv, OwnInv, (\E u \in Users : Request(u)) \/ (\E c \in Cases : Cancel(c))
  PROVE  OwnInv' /\ KeepsResults
  <1>1. PICK c \in Cases :
          /\ touched' = touched \cup {c} /\ \A d \in Cases \ {c} : task'[d] = task[d]
          /\ UNCHANGED <<row, evidence, skip, queued, mine, again>>
          /\ \/ UNCHANGED <<pc, job, decision>>
             \/ \E u \in Users : /\ job'[u] = c
                                 /\ \A b \in Actors \ {u} :
                                      pc'[b] = pc[b] /\ job'[b] = job[b] /\ decision'[b] = decision[b]
    <2>1. CASE \E u \in Users : Request(u)
      <3>1. PICK u \in Users : Request(u)
        BY <2>1
      <3>2. u \in Actors
        BY DEF Actors
      <3> QED BY <3>1, <3>2 DEF Request, Goto, store, TypeInv, TypeOK
    <2>2. CASE \E c \in Cases : Cancel(c)
      BY <2>2 DEF Cancel, control, TypeInv, TypeOK
    <2> QED BY <2>1, <2>2
  <1>2. ASSUME NEW d \in Cases \ touched'  PROVE Own(d)'
    <2>1. Own(d) /\ d # c
      BY <1>1 DEF OwnInv
    <2>2. \A b \in Workers \cup Users : job'[b] = d =>
            job[b] = d /\ (b \in Workers => pc'[b] = pc[b] /\ decision'[b] = decision[b])
      BY <1>1, <2>1, ActorsAssumption DEF Actors
    <2>3. \A w \in Workers : job'[w] = d => OwnBy(w, d)'
      BY <1>1, <2>1, <2>2 DEF Own, OwnBy, Unsettled
    <2> QED BY <1>1, <2>1, <2>2, <2>3 DEF Own, Proven
  <1> QED BY <1>1, <1>2 DEF OwnInv, KeepsResults

\* A crash leaves untouched only what is queued anew and what had ended.
LEMMA CrashOwn ==
  ASSUME TypeInv, OwnInv, Crash
  PROVE  OwnInv' /\ KeepsResults
  <1>1. ASSUME NEW c \in Cases \ touched'  PROVE Own(c)'
    <2>1. c \in Cases \ touched /\ Own(c)
      BY <1>1 DEF OwnInv, Crash
    <2>2. \A a \in Workers \cup Users : job'[a] # c
      BY ActorsAssumption DEF Crash, Actors
    <2>3. /\ task'[c] = IF task[c] \in {"CREATED", "RUNNING"} THEN "CREATED" ELSE task[c]
          /\ c \in queued' <=> task[c] \in {"CREATED", "RUNNING"}
          /\ UNCHANGED <<row, evidence>>
      BY DEF Crash
    <2> QED BY <2>1, <2>2, <2>3 DEF Own, Proven
  <1> QED BY <1>1 DEF OwnInv, KeepsResults, Crash

-----------------------------------------------------------------------------
(* The calls of the store that fail *)

\* A failing call keeps what it does not write: a run that is not written keeps
\* its status, and evidence that is not read makes no pass.
LEMMA FailBatchOwn ==
  ASSUME TypeInv, OwnInv, NEW a \in Workers \cup Users,
         FailUnseen(a) \/ FinalizeUnread(a) \/ FinalizeUnwritten(a) \/ FinalizeUnproven(a)
           \/ RefreshFail(a) \/ SnapshotLost(a)
  PROVE  OwnInv' /\ KeepsResults
  <1>0. a \in Actors /\ pc[a] # "idle"
    BY FailWorks DEF StoreFail
  <1>1. PICK c \in Cases : c = job[a]
    BY <1>0, Working
  <1> USE DEF store, Goto, Spared, Strands
  <1>2. CASE FinalizeUnread(a) \/ RefreshFail(a)
    BY <1>2, ContinueOwn DEF FinalizeUnread, RefreshFail
  <1>3. CASE FinalizeUnwritten(a) \/ SnapshotLost(a)
    <2>1. /\ Apart(a, c) /\ pc[a] \in {"finalWrite", "count"} /\ pc'[a] \in {"refresh", "batchWrite"}
          /\ UNCHANGED <<task, row, evidence, skip, queued, decision, again>>
      BY <1>0, <1>1, <1>3 DEF FinalizeUnwritten, SnapshotLost, Apart, TypeInv, TypeOK
    <2>2. ASSUME a \in Workers, Own(c), OwnBy(a, c)
          PROVE  OwnerKeeps(a, c)
      BY <1>1, <2>1, <2>2 DEF OwnerKeeps, Own, OwnBy, Unsettled, Proven
    <2> QED BY <1>1, <2>1, <2>2, OwnStep
  <1>4. CASE FinalizeUnproven(a)
    <2>1. /\ Apart(a, c) /\ pc[a] = "finalWrite" /\ pc'[a] = "refresh"
          /\ ~row'[c].passed /\ UNCHANGED <<task, evidence, skip, queued, decision, again>>
      <3>1. row' = [row EXCEPT ![c] = [status |-> RowStatusOf(decision[a]), passed |-> FALSE]]
        BY <1>1, <1>4 DEF FinalizeUnproven, WriteRow
      <3>2. row'[c] = [status |-> RowStatusOf(decision[a]), passed |-> FALSE]
        BY <1>1, <3>1 DEF TypeInv, TypeOK
      <3> QED BY <1>0, <1>1, <1>4, <3>1, <3>2 DEF FinalizeUnproven, Apart, TypeInv, TypeOK
    <2>2. ASSUME a \in Workers, Own(c), OwnBy(a, c)
          PROVE  OwnerKeeps(a, c)
      BY <1>1, <2>1, <2>2 DEF OwnerKeeps, Own, OwnBy, Unsettled, Proven
    <2> QED BY <1>1, <2>1, <2>2, OwnStep
  <1>5. CASE FailUnseen(a)
    <2>1. /\ Apart(a, c) /\ pc[a] = "execute" /\ pc'[a] = "finalize" /\ decision'[a] = "FAILED"
          /\ UNCHANGED <<row, evidence, skip, queued, again>> /\ task'[c] \in {task[c], "FAILED"}
      BY <1>0, <1>1, <1>5 DEF FailUnseen, Apart, TypeInv, TypeOK
    <2>2. ASSUME a \in Workers, Own(c), OwnBy(a, c)
          PROVE  OwnerKeeps(a, c)
      BY <1>1, <2>1, <2>2 DEF OwnerKeeps, Own, OwnBy, Unsettled, Proven
    <2> QED BY <1>1, <2>1, <2>2, OwnStep
  <1> QED BY <1>2, <1>3, <1>4, <1>5

\* A proposal to skip that is not read leads to a rejection, which touches the
\* case; feedback that is not stored is given all the same.
LEMMA FailReviewOwn ==
  ASSUME TypeInv, OwnInv, NEW a \in Workers \cup Users,
         AutoUnread(a) \/ AutoMisread(a) \/ NoteLost(a) \/ ReviewUnwritten(a) \/ FeedbackLost(a)
           \/ ProposalUnread(a) \/ RejectNoteLost(a)
  PROVE  OwnInv' /\ KeepsResults
  <1>0. a \in Actors /\ pc[a] # "idle"
    BY FailWorks DEF StoreFail
  <1>1. PICK c \in Cases : c = job[a]
    BY <1>0, Working
  <1> USE DEF store, Goto, Spared, Strands
  <1>2. CASE ReviewUnwritten(a)
    BY <1>2, ContinueOwn DEF ReviewUnwritten
  <1>3. CASE AutoUnread(a) \/ RejectNoteLost(a)
    <2>1. /\ Apart(a, c) /\ job'[a] = None /\ pc[a] \in {"auto", "rejected", "rejectNote"}
          /\ UNCHANGED <<task, row, evidence, skip, queued>>
      BY <1>0, <1>1, <1>3 DEF AutoUnread, RejectNoteLost, Done, Apart, TypeInv, TypeOK
    <2>2. ASSUME a \in Workers, Own(c), OwnBy(a, c)
          PROVE  OwnerKeeps(a, c)
      BY <1>1, <2>1, <2>2, ActorsAssumption DEF OwnerKeeps, Own, OwnBy, Unsettled, Proven
    <2> QED BY <1>1, <2>1, <2>2, OwnStep
  <1>4. CASE AutoMisread(a)
    <2>1. /\ Apart(a, c) /\ pc[a] = "auto" /\ pc'[a] \in {"note", "review"} /\ mine'[a] = row[c]
          /\ row[c].status = "human_review_required"
          /\ UNCHANGED <<task, row, evidence, skip, queued, job>>
          /\ c \notin touched' => ~(skip[c] /\ decision'[a] = "FAILED")
      BY <1>0, <1>1, <1>4 DEF AutoMisread, Decide, Apart, TypeInv, TypeOK
    <2>2. ASSUME a \in Workers, c \notin touched', Own(c), OwnBy(a, c)
          PROVE  OwnerKeeps(a, c)
      BY <1>1, <2>1, <2>2 DEF OwnerKeeps, Own, OwnBy, Unsettled, Proven
    <2> QED BY <1>1, <2>1, <2>2, OwnStep
  <1>5. CASE NoteLost(a)
    <2>1. /\ Apart(a, c) /\ pc[a] = "note" /\ pc'[a] = "review" /\ decision'[a] = decision[a]
          /\ UNCHANGED <<task, row, evidence, skip, queued>>
      BY <1>0, <1>1, <1>5 DEF NoteLost, Proceed, Apart, TypeInv, TypeOK
    <2>2. ASSUME a \in Workers, Own(c), OwnBy(a, c)
          PROVE  OwnerKeeps(a, c)
      BY <1>1, <2>1, <2>2 DEF OwnerKeeps, Own, OwnBy, Unsettled, Proven
    <2> QED BY <1>1, <2>1, <2>2, OwnStep
  <1>6. CASE FeedbackLost(a)
    <2>1. /\ Continue(a) /\ pc[a] = "review" /\ decision[a] = "continue" /\ again[a] = "none"
          /\ task' = [task EXCEPT ![c] = "CREATED"] /\ queued' = queued \cup {c}
          /\ UNCHANGED <<row, evidence, skip, touched>>
      BY <1>0, <1>1, <1>6 DEF FeedbackLost, TypeInv, Shape
    <2>2. Apart(a, c)
      BY <1>1, <2>1, ApartContinue DEF TypeInv, TypeOK
    <2>3. task'[c] = "CREATED" /\ job'[a] = None
      BY <1>0, <2>1 DEF Continue, Done, TypeInv, TypeOK
    <2>4. ASSUME a \in Workers, Own(c), OwnBy(a, c)  PROVE OwnerKeeps(a, c)
      <3>1. ~row[c].passed
        BY <2>1, <2>4 DEF OwnBy, Own, Proven
      <3> QED BY <1>1, <2>1, <2>3, <3>1, ActorsAssumption DEF OwnerKeeps, Proven
    <2> QED BY <1>1, <2>2, <2>4, OwnStep
  <1>7. CASE ProposalUnread(a)
    <2>1. /\ Apart(a, c) /\ pc[a] = "review" /\ pc'[a] = "finalize" /\ task'[c] = "FAILED"
          /\ UNCHANGED <<row, evidence, skip, queued>>
      BY <1>0, <1>1, <1>7 DEF ProposalUnread, Keep, Apart, TypeInv, TypeOK
    <2>2. ASSUME a \in Workers, Own(c), OwnBy(a, c)  PROVE OwnerKeeps(a, c)
      BY <1>1, <2>1, <2>2 DEF OwnerKeeps, Own, OwnBy, Unsettled, Proven
    <2> QED BY <1>1, <2>1, <2>2, OwnStep
  <1> QED BY <1>2, <1>3, <1>4, <1>5, <1>6, <1>7

LEMMA BeginUnreadOwn ==
  ASSUME TypeInv, OwnInv, NEW w \in Workers, BeginUnread(w)
  PROVE  OwnInv' /\ KeepsResults
  <1>1. queued' \subseteq queued /\ UNCHANGED <<store, control, touched>>
    BY DEF BeginUnread, Strands
  <1> QED BY <1>1 DEF store, control, OwnInv, Own, OwnBy, Unsettled, Proven, KeepsResults

LEMMA OwnNext == TypeInv /\ OwnInv /\ [Next]_vars => OwnInv' /\ KeepsResults
  <1> SUFFICES ASSUME TypeInv, OwnInv, [Next]_vars  PROVE OwnInv' /\ KeepsResults
    OBVIOUS
  <1>1. CASE UNCHANGED vars
    BY <1>1 DEF OwnInv, Own, OwnBy, Unsettled, Proven, KeepsResults, vars, store, control
  <1>2. ASSUME NEW a \in Workers \cup Users, Step(a)  PROVE OwnInv' /\ KeepsResults
    BY <1>2, BatchOwn, ExecuteOwn, NotesOwn, ReviewOwn DEF Step
  <1>3. ASSUME NEW a \in Workers \cup Users, StoreFail(a)  PROVE OwnInv' /\ KeepsResults
    BY <1>3, FailBatchOwn, FailReviewOwn DEF StoreFail
  <1> QED BY <1>1, <1>2, <1>3, SuiteOwn, BeginOwn, BeginUnreadOwn, PersonOwn, CrashOwn DEF Next

LEMMA OwnInit == Init => OwnInv
  BY ActorsAssumption DEF Init, OwnInv, Own, Proven, NoRow, Actors

LEMMA OwnAlways == Spec => []OwnInv
  BY TypeAlways, OwnInit, OwnNext, PTL DEF Spec

-----------------------------------------------------------------------------
(* The results *)

\* A run that nobody touched counts as passed only when it was finalized as
\* completed and its latest execution left real evidence, whatever else the
\* workers do and whichever calls of the store fail.
THEOREM PassesAreProven == Spec => []PassIsProven
  <1>1. OwnInv => PassIsProven
    BY DEF OwnInv, Own, Proven, PassIsProven
  <1> QED BY <1>1, OwnAlways, PTL

\* No second finalization, note of the automatic review, refresh, failed call of
\* the store or restart changes a final result that nobody touched.
THEOREM ResultsKept == Spec => ResultsAreFinal
  <1>1. TypeInv /\ OwnInv /\ [Next]_vars =>
          [\A c \in Cases \ touched' : row[c].status \in Final => row'[c] = row[c]]_vars
    BY OwnNext DEF KeepsResults
  <1> QED BY <1>1, TypeAlways, OwnAlways, PTL DEF Spec, ResultsAreFinal

\* The metrics recorded are those of the results, which are all final.
MetricInv ==
  touched = {} /\ metrics # {} =>
    /\ \A c \in Cases : row[c].status \in Final
    /\ metrics = {Cardinality({c \in Cases : row[c].passed})}

\* Counting adds the metrics of the results it reads, when all are final.
LEMMA CountMetrics ==
  ASSUME TypeInv, NEW a \in Actors, Count(a), metrics' # metrics
  PROVE  /\ \A c \in Cases : row[c].status \in Final
         /\ metrics' = metrics \cup {Cardinality({c \in Cases : row[c].passed})}
  <1> DEFINE counted == {c \in Cases : Counts(row[c])}
             complete == Cardinality(counted) >= Cardinality(Cases)
  <1>1. /\ complete /\ metrics' = metrics \cup {sheet'[a].passed}
        /\ sheet'[a].passed = Cardinality({c \in counted : row[c].passed})
    BY DEF Count, AllCount, Tally, TypeInv, TypeOK
  <1>2. counted = Cases
    <2>1. counted \subseteq Cases /\ IsFiniteSet(Cases)
      BY SuiteAssumption
    <2>2. /\ Cardinality(counted) \in Nat /\ Cardinality(Cases) \in Nat
          /\ Cardinality(counted) <= Cardinality(Cases)
          /\ Cardinality(counted) = Cardinality(Cases) => counted = Cases
      BY <2>1, FS_Subset, FS_CardinalityType
    <2> QED BY <1>1, <2>2
  <1>3. \A c \in Cases : row[c].status \in Final
    BY <1>2 DEF Counts
  <1> HIDE DEF counted
  <1> QED BY <1>1, <1>2, <1>3

LEMMA MetricNext == TypeInv /\ OwnInv /\ MetricInv /\ [Next]_vars => MetricInv'
  <1> SUFFICES ASSUME TypeInv, OwnInv, MetricInv, [Next]_vars, touched' = {}, metrics' # {}
               PROVE  /\ \A c \in Cases : row'[c].status \in Final
                      /\ metrics' = {Cardinality({c \in Cases : row'[c].passed})}
    BY DEF MetricInv
  <1>1. touched = {} /\ (metrics' = metrics \/ \E a \in Actors : Count(a))
    <2> USE DEF Keep, store, control, vars
    <2>1. CASE \E a \in Workers \cup Users : Step(a)
      <3>1. PICK a \in Workers \cup Users : Step(a)
        BY <2>1
      <3>2. a \in Actors /\ touched = touched'
        BY <3>1 DEF Actors, Step, Finish, Fail, FinalizeRead, FinalizeWrite, Refresh, Count, BatchWrite,
                    AutoReview, Note, Review, Rejected, RejectNote
      <3>3. Count(a) \/ metrics' = metrics
        BY <3>1 DEF Step, Finish, Fail, FinalizeRead, FinalizeWrite, Refresh, BatchWrite,
                    AutoReview, Note, Review, Rejected, RejectNote
      <3> QED BY <3>2, <3>3
    <2>2. CASE \E a \in Workers \cup Users : StoreFail(a)
      BY <2>2 DEF StoreFail, FailUnseen, FinalizeUnread, FinalizeUnwritten, FinalizeUnproven, RefreshFail,
                  SnapshotLost, AutoUnread, AutoMisread, NoteLost, ReviewUnwritten, FeedbackLost,
                  ProposalUnread, RejectNoteLost, Spared, Strands
    <2>3. CASE ~\E a \in Workers \cup Users : Step(a) \/ StoreFail(a)
      BY <2>3 DEF Next, SuiteStep, SuiteBegin, SuiteTask, SuiteRun, SuiteFail, Begin, BeginUnread, Strands,
                  Request, Cancel, Crash
    <2> QED BY <2>1, <2>2, <2>3
  <1>2. KeepsResults
    BY OwnNext
  <1>3. \A c \in Cases : row[c].status \in Final
    BY <1>1, CountMetrics DEF MetricInv
  <1>4. \A c \in Cases : row'[c] = row[c]
    BY <1>2, <1>3 DEF KeepsResults
  <1>5. {c \in Cases : row'[c].passed} = {c \in Cases : row[c].passed}
    BY <1>4
  <1>6. metrics' = {Cardinality({c \in Cases : row[c].passed})}
    BY <1>1, CountMetrics DEF MetricInv
  <1> QED BY <1>3, <1>4, <1>5, <1>6

\* Two workers that both see an untouched batch complete record the same
\* result: what they count cannot change any more.
THEOREM SnapshotsAgreeAlways == Spec => []SnapshotsAgree
  <1>1. Init => MetricInv
    BY DEF Init, MetricInv
  <1>2. MetricInv => SnapshotsAgree
    <2>1. Cardinality({}) = 0
      BY FS_EmptySet
    <2>2. \A x : Cardinality({x}) = 1
      BY FS_Singleton
    <2>3. touched = {} /\ MetricInv => Cardinality(metrics) \in {0, 1}
      BY <2>1, <2>2 DEF MetricInv
    <2> QED BY <2>3 DEF SnapshotsAgree
  <1> QED BY <1>1, <1>2, TypeAlways, OwnAlways, MetricNext, PTL DEF Spec

=============================================================================

-------------------------- MODULE MemoryRefinement --------------------------
(***************************************************************************)
(* The refinement of long-term memories.  An execution that ends stores    *)
(* its memories one by one and hands them as a batch to a bounded queue; a *)
(* memory worker refines every memory of a batch, marks near-duplicates,   *)
(* and resolves conflicts of successes and failures, with retries of the   *)
(* whole batch.  A starting process hands over what the last one left.     *)
(*                                                                         *)
(* The batches carry copies of the memories as they were stored.  All      *)
(* their marks were empty then, so a batch is a set of memories here and   *)
(* writing a memory back from it clears its marks.  Which of two memories  *)
(* is stronger depends on how often they were read and is a free choice.   *)
(* An execution's summary, which is never refined, is left out.            *)
(***************************************************************************)
EXTENDS Naturals, Sequences, FiniteSets

CONSTANTS
  Successes, Failures, \* the memories that can come up, by kind
  Similar,        \* the pairs of them, as sets, over the similarity thresholds
  Executions,     \* executions that end while the service runs
  Produces,       \* the memories each of them stores
  Workers,        \* memoryWorkers
  Recovery,       \* recoverMemoryRefinement of a starting process
  QueueCapacity,  \* memoryQueueCapacity
  MaxAttempts,    \* maxMemoryRefineAttempts
  RecoverLimit,   \* memories a recovery loads at most
  MaxFaults,      \* failing calls and crashes, a bound
  None

Memories == Successes \cup Failures
Producers == Executions \cup {Recovery}

ASSUME KindsAssumption ==
  Successes \cap Failures = {} /\ None \notin Memories \cup (Successes \X Failures)
\* Every memory that is stored has a new identifier.
ASSUME ProducesAssumption ==
  /\ Recovery \notin Executions /\ Produces \in [Executions -> SUBSET Memories]
  /\ \A x, y \in Executions : x # y => Produces[x] \cap Produces[y] = {}
ASSUME LimitsAssumption ==
  /\ {QueueCapacity, MaxAttempts, RecoverLimit} \subseteq Nat \ {0} /\ MaxFaults \in Nat

VARIABLES
  memories,  \* the stored memories and their marks
  refined,   \* memories of which a refined copy is stored
  patterns,  \* <<success, failure>> pairs of which a resolved pattern is stored
  queue,     \* memoryQueue
  pending,   \* memoryPending
  stage, batch,  \* of each producer: what it does next, and the memories it holds
  pc, job,   \* of each worker: what it does next, and its batch
  todo,      \* the memories of the batch not yet visited in this phase
  mine,      \* the memory visited, its copy, and the failure resolved with it
  found,     \* copies of the candidates not yet compared with it
  attempt, failed,
  faults,
  excused    \* memories given up until the next start

producers == <<stage, batch>>
visit == <<todo, mine, found>>
workers == <<pc, job, visit, attempt, failed>>
vars == <<memories, refined, patterns, queue, pending, producers, workers, faults, excused>>

Raw == [refined |-> FALSE, dup |-> None, group |-> None]
Entry == [refined : BOOLEAN, dup : Memories \cup {None},
          group : (Successes \X Failures) \cup {None}]
Nobody == [of |-> None, copy |-> Raw, other |-> None]
Marked(entry) == entry.dup # None \/ entry.group # None
Settled(entry) == entry.refined \/ Marked(entry)

TypeOK ==
  /\ \E S \in SUBSET Memories : memories \in [S -> Entry]
  /\ refined \subseteq Memories /\ patterns \subseteq Successes \X Failures
  /\ queue \in Seq(SUBSET Memories) /\ Len(queue) <= QueueCapacity
  /\ pending \subseteq Memories /\ excused \subseteq Memories
  /\ stage \in [Producers -> {"ready", "store", "enqueue", "push", "done"}]
  /\ batch \in [Producers -> SUBSET Memories]
  /\ pc \in [Workers -> {"idle", "refine", "mark", "dedupe", "merge", "conflict", "resolve",
                         "groupSuccess", "groupFailure", "decide"}]
  /\ job \in [Workers -> SUBSET Memories] /\ todo \in [Workers -> SUBSET Memories]
  /\ attempt \in [Workers -> 0..MaxAttempts] /\ failed \in [Workers -> BOOLEAN]
  /\ faults \in 0..MaxFaults

Idle ==
  /\ pc = [w \in Workers |-> "idle"] /\ job = [w \in Workers |-> {}]
  /\ todo = [w \in Workers |-> {}] /\ mine = [w \in Workers |-> Nobody]
  /\ found = [w \in Workers |-> <<>>]
  /\ attempt = [w \in Workers |-> 0] /\ failed = [w \in Workers |-> FALSE]

Init ==
  /\ memories = <<>> /\ refined = {} /\ patterns = {} /\ queue = <<>> /\ pending = {}
  /\ stage = [p \in Producers |-> "ready"] /\ batch = [p \in Producers |-> {}]
  /\ Idle /\ faults = 0 /\ excused = {}

Fault == faults < MaxFaults /\ faults' = faults + 1
NoFault == UNCHANGED faults

-----------------------------------------------------------------------------
(* Producers.                                                              *)

\* persistExecutionMemories and persistFailureMemory: one memory after the
\* other is stored; when that fails none of them is handed over.
Store(p) ==
  /\ stage[p] \in {"ready", "store"} /\ p \in Executions
  /\ LET left == Produces[p] \ batch[p] IN
     \/ \E m \in left :
          /\ memories' = [x \in DOMAIN memories \cup {m} |-> IF x = m THEN Raw ELSE memories[x]]
          /\ batch' = [batch EXCEPT ![p] = @ \cup {m}]
          /\ stage' = [stage EXCEPT ![p] = IF left = {m} THEN "enqueue" ELSE "store"]
          /\ NoFault /\ UNCHANGED excused
     \/ /\ Fault /\ excused' = excused \cup batch[p]
        /\ stage' = [stage EXCEPT ![p] = "done"] /\ batch' = [batch EXCEPT ![p] = {}]
        /\ UNCHANGED memories
  /\ UNCHANGED <<refined, patterns, queue, pending, workers>>

\* UnrefinedMemories
UnrefinedFailures == {m \in Failures \cap DOMAIN memories : ~Settled(memories[m])}
Unrefined == {m \in DOMAIN memories : ~Settled(memories[m])}

\* recoverMemoryRefinement: the scan, whose result is stale when it is enqueued.
Scan ==
  /\ stage[Recovery] = "ready"
  /\ \/ /\ NoFault
        /\ \E S \in SUBSET Unrefined :
             /\ S = Unrefined \/ Cardinality(S) = RecoverLimit
             /\ Cardinality(S) <= RecoverLimit
             /\ batch' = [batch EXCEPT ![Recovery] = S]
             /\ excused' = excused \cup (Unrefined \ S)
     \/ Fault /\ excused' = excused \cup Unrefined /\ UNCHANGED batch
  /\ stage' = [stage EXCEPT ![Recovery] = IF batch'[Recovery] = {} THEN "done" ELSE "enqueue"]
  /\ UNCHANGED <<memories, refined, patterns, queue, pending, workers>>

FreshAll(p) == batch[p]
Fresh(p) == batch[p] \ pending

\* enqueueMemoryRefinement, first lock: what is pending already is left out.
Enqueue(p) ==
  /\ stage[p] = "enqueue"
  /\ pending' = pending \cup Fresh(p)
  /\ batch' = [batch EXCEPT ![p] = Fresh(p)]
  /\ stage' = [stage EXCEPT ![p] = IF Fresh(p) = {} THEN "done" ELSE "push"]
  /\ UNCHANGED <<memories, refined, patterns, queue, workers, faults, excused>>

\* Then the batch is sent if the queue has room, and given up otherwise.
Push(p) ==
  /\ stage[p] = "push"
  /\ IF Len(queue) < QueueCapacity
     THEN queue' = Append(queue, batch[p]) /\ UNCHANGED <<pending, excused>>
     ELSE /\ pending' = pending \ batch[p] /\ excused' = excused \cup batch[p]
          /\ UNCHANGED queue
  /\ stage' = [stage EXCEPT ![p] = "done"] /\ batch' = [batch EXCEPT ![p] = {}]
  /\ UNCHANGED <<memories, refined, patterns, workers, faults>>

-----------------------------------------------------------------------------
(* Workers.  A phase visits the memories of the batch one by one; a fault  *)
(* in a visit is remembered and the visit abandoned.                       *)

Goto(w, p) == pc' = [pc EXCEPT ![w] = p]
Phase(w, p) ==
  /\ Goto(w, p) /\ todo' = [todo EXCEPT ![w] = job[w]]
  /\ mine' = [mine EXCEPT ![w] = Nobody] /\ found' = [found EXCEPT ![w] = <<>>]
NextVisit(w, p, m) ==
  /\ Goto(w, p) /\ todo' = [todo EXCEPT ![w] = @ \ {m}]
  /\ mine' = [mine EXCEPT ![w] = Nobody] /\ found' = [found EXCEPT ![w] = <<>>]
\* A phase visits a batch in its order, which is one and the same for all phases.
First(w) == {CHOOSE m \in todo[w] : TRUE}
NextCandidate(w, p, c) ==
  /\ Goto(w, p) /\ mine' = [mine EXCEPT ![w].other = None]
  /\ found' = [found EXCEPT ![w] = [x \in DOMAIN @ \ {c} |-> @[x]]]
  /\ UNCHANGED todo
Fails(w) == Fault /\ failed' = [failed EXCEPT ![w] = TRUE]
Works == NoFault /\ UNCHANGED failed
Write(m, entry) == memories' = [memories EXCEPT ![m] = entry]
Hold == UNCHANGED <<queue, producers, job, attempt>>

\* memoryWorker takes a batch, runMemoryRefinementWithRetry begins.
Take(w) ==
  /\ pc[w] = "idle" /\ queue # <<>>
  /\ queue' = Tail(queue)
  /\ job' = [job EXCEPT ![w] = Head(queue)] /\ todo' = [todo EXCEPT ![w] = Head(queue)]
  /\ attempt' = [attempt EXCEPT ![w] = 1] /\ Goto(w, "refine")
  /\ UNCHANGED <<memories, refined, patterns, pending, producers, mine, found, failed, faults,
                 excused>>

RefineUnstored(w) ==
  /\ pc[w] = "refine"
  /\ \/ todo[w] = {} /\ Phase(w, "dedupe") /\ Works
     \/ todo[w] # {} /\ \E m \in First(w) : /\ mine' = [mine EXCEPT ![w].of = m] /\ Goto(w, "mark")
                           /\ Works /\ UNCHANGED <<todo, found>>
  /\ UNCHANGED <<memories, refined, patterns, pending, excused>> /\ Hold

\* refineAll: the model's answer, whether for one memory or a batch of them,
\* is stored as a refined copy of the memory.
Refine(w) ==
  /\ pc[w] = "refine"
  /\ \/ todo[w] = {} /\ Phase(w, "dedupe") /\ Works /\ UNCHANGED refined
     \/ todo[w] # {} /\ \E m \in First(w) :
          \/ NextVisit(w, "refine", m) /\ Fails(w) /\ UNCHANGED refined
          \/ /\ refined' = refined \cup {m} /\ Works
             /\ mine' = [mine EXCEPT ![w].of = m] /\ Goto(w, "mark")
             /\ UNCHANGED <<todo, found>>
  /\ UNCHANGED <<memories, patterns, pending, excused>> /\ Hold

\* persistRefinedMemory then links the copy and marks the memory, writing
\* back what the batch carried.
Mark(w) ==
  LET m == mine[w].of IN
  /\ pc[w] = "mark" /\ NextVisit(w, "refine", m)
  /\ \/ Fails(w) /\ UNCHANGED memories
     \/ Works /\ Write(m, [Raw EXCEPT !.refined = TRUE])
  /\ UNCHANGED <<refined, patterns, pending, excused>> /\ Hold

\* Search scores and similarity measures, abstracted to a relation.
SimilarTo(m, c) == c # m /\ {c, m} \in Similar

\* The memories a search offers for the one that is visited.
CandidatesAny(m, kind) == {c \in kind \cap DOMAIN memories : SimilarTo(m, c)}
Candidates(m, kind) ==
  {c \in kind \cap DOMAIN memories : SimilarTo(m, c) /\ ~Marked(memories[c])}

\* The memory is read again, and visited if it has no mark.
CopyStale(m) == Raw
CopyOf(m) == memories[m]

Visit(w, from, to, next, visited, kind) ==
  /\ pc[w] = from
  /\ \/ todo[w] = {} /\ Works /\ (IF next = "decide" THEN Goto(w, next) /\ UNCHANGED visit
                                  ELSE Phase(w, next))
     \/ todo[w] # {} /\ \E m \in First(w) : NextVisit(w, from, m) /\ Fails(w)
     \/ todo[w] # {} /\ \E m \in First(w) :
          /\ Works
          /\ IF m \in visited /\ ~Marked(CopyOf(m))
             THEN /\ mine' = [mine EXCEPT ![w] = [of |-> m, copy |-> CopyOf(m), other |-> None]]
                  /\ found' = [found EXCEPT ![w] = [c \in Candidates(m, kind[m]) |-> memories[c]]]
                  /\ Goto(w, to) /\ UNCHANGED todo
             ELSE NextVisit(w, from, m)
  /\ UNCHANGED <<memories, refined, patterns, pending, excused>> /\ Hold

\* dedupeAll
SameKind == [m \in Memories |-> IF m \in Successes THEN Successes ELSE Failures]
Dedupe(w) == Visit(w, "dedupe", "merge", "conflict", Memories, SameKind)

\* Which of two memories is primary, and which its duplicate.
PickPrimary(m, c) == {[primary |-> m, secondary |-> c], [primary |-> c, secondary |-> m]}

\* The weaker of the two is marked as a duplicate of the other.  The copy of
\* the visited memory does not learn of its own mark.
Merge(w) ==
  LET m == mine[w].of IN
  /\ pc[w] = "merge"
  /\ \/ DOMAIN found[w] = {} /\ NextVisit(w, "dedupe", m) /\ Works /\ UNCHANGED memories
     \/ \E c \in DOMAIN found[w] :
          /\ NextCandidate(w, "merge", c)
          /\ \/ Works /\ \E p \in PickPrimary(m, c) :
                  Write(p.secondary, [(IF p.secondary = m THEN mine[w].copy ELSE found[w][c])
                                        EXCEPT !.dup = p.primary])
             \/ Fails(w) /\ UNCHANGED memories
  /\ UNCHANGED <<refined, patterns, pending, excused>> /\ Hold

\* resolveConflicts
Conflict(w) == Visit(w, "conflict", "resolve", "decide", Successes, [m \in Memories |-> Failures])

\* resolveConflict stores the resolved pattern before it marks its sources.
Resolve(w) ==
  LET m == mine[w].of IN
  /\ pc[w] = "resolve"
  /\ \/ DOMAIN found[w] = {} /\ NextVisit(w, "conflict", m) /\ Works /\ UNCHANGED patterns
     \/ \E f \in DOMAIN found[w] :
          \/ NextCandidate(w, "resolve", f) /\ Fails(w) /\ UNCHANGED patterns
          \/ /\ patterns' = patterns \cup {<<m, f>>} /\ Works
             /\ mine' = [mine EXCEPT ![w].other = f] /\ Goto(w, "groupSuccess")
             /\ UNCHANGED <<todo, found>>
  /\ UNCHANGED <<memories, refined, pending, excused>> /\ Hold

GroupSuccess(w) ==
  LET m == mine[w].of  f == mine[w].other IN
  /\ pc[w] = "groupSuccess"
  /\ \/ NextCandidate(w, "resolve", f) /\ Fails(w) /\ UNCHANGED memories
     \/ /\ Works /\ Write(m, [mine[w].copy EXCEPT !.group = <<m, f>>])
        /\ Goto(w, "groupFailure") /\ UNCHANGED visit
  /\ UNCHANGED <<refined, patterns, pending, excused>> /\ Hold

GroupFailure(w) ==
  LET m == mine[w].of  f == mine[w].other IN
  /\ pc[w] = "groupFailure" /\ NextCandidate(w, "resolve", f)
  /\ \/ Fails(w) /\ UNCHANGED memories
     \/ Works /\ Write(f, [found[w][f] EXCEPT !.group = <<m, f>>])
  /\ UNCHANGED <<refined, patterns, pending, excused>> /\ Hold

RetriesAgain(w) == failed[w] /\ attempt[w] <= MaxAttempts
Retries(w) == failed[w] /\ attempt[w] < MaxAttempts

\* A batch of which anything failed is tried again as a whole, MaxAttempts
\* times at most; then it is pending no more.
Decide(w) ==
  /\ pc[w] = "decide" /\ failed' = [failed EXCEPT ![w] = FALSE] /\ NoFault
  /\ IF Retries(w)
     THEN /\ attempt' = [attempt EXCEPT ![w] = @ + 1] /\ Phase(w, "refine")
          /\ UNCHANGED <<job, pending, excused>>
     ELSE /\ pending' = pending \ job[w]
          /\ excused' = IF failed[w] THEN excused \cup job[w] ELSE excused
          /\ attempt' = [attempt EXCEPT ![w] = 0] /\ job' = [job EXCEPT ![w] = {}]
          /\ Goto(w, "idle") /\ UNCHANGED visit
  /\ UNCHANGED <<memories, refined, patterns, queue, producers>>

\* The process ends and starts again; unended executions are not continued
\* here (TaskRuntime), their next run may be another member of Executions.
Crash ==
  /\ Fault
  /\ queue' = <<>> /\ pending' = {}
  /\ stage' = [p \in Producers |-> IF p = Recovery \/ stage[p] = "ready" THEN "ready" ELSE "done"]
  /\ batch' = [p \in Producers |-> {}]
  /\ pc' = [w \in Workers |-> "idle"] /\ job' = [w \in Workers |-> {}]
  /\ todo' = [w \in Workers |-> {}] /\ mine' = [w \in Workers |-> Nobody]
  /\ found' = [w \in Workers |-> <<>>]
  /\ attempt' = [w \in Workers |-> 0] /\ failed' = [w \in Workers |-> FALSE]
  /\ UNCHANGED <<memories, refined, patterns, excused>>

Produce(p) == Store(p) \/ Enqueue(p) \/ Push(p)
Work(w) ==
  \/ Take(w) \/ Refine(w) \/ Mark(w) \/ Dedupe(w) \/ Merge(w)
  \/ Conflict(w) \/ Resolve(w) \/ GroupSuccess(w) \/ GroupFailure(w) \/ Decide(w)

Next == (\E p \in Producers : Produce(p)) \/ Scan \/ (\E w \in Workers : Work(w)) \/ Crash

Spec == Init /\ [][Next]_vars
\* Goroutines that can run do run.
FairSpec ==
  /\ Spec /\ WF_vars(Scan)
  /\ \A p \in Producers : WF_vars(Enqueue(p) \/ Push(p) \/ (stage[p] = "store" /\ Store(p)))
  /\ \A w \in Workers : WF_vars(Work(w))

-----------------------------------------------------------------------------
\* A memory is in one place at a time: pushed, queued or processed, and pending
\* exactly then (the check of memoryPending in enqueueMemoryRefinement), also
\* while a recovery hands over what an execution has handed over meanwhile.
Batches ==
  {<<"queue", i, queue[i]>> : i \in 1..Len(queue)} \cup {<<"worker", w, job[w]>> : w \in Workers}
    \cup {<<"push", p, batch[p]>> : p \in {q \in Producers : stage[q] = "push"}}
QueuedOnce ==
  /\ pending = UNION {b[3] : b \in Batches}
  /\ \A b, c \in Batches : b # c => b[3] \cap c[3] = {}

\* Following duplicate_of never leads in a circle: of every set of memories one
\* is not a duplicate of another one in the set, so one of every group of
\* duplicates stays visible; holds with one memory worker.
DuplicatesAcyclic ==
  \A S \in SUBSET DOMAIN memories : S # {} => \E m \in S : memories[m].dup \notin S

\* A memory marked as refined has a refined copy, a memory of a conflict group
\* has the resolved pattern of that group, whatever call or process failed.
MarksHaveSource ==
  \A m \in DOMAIN memories :
    /\ memories[m].refined => m \in refined
    /\ memories[m].group # None => memories[m].group \in patterns

\* A refined memory stays refined, and a duplicate or a member of a conflict
\* group stays one unless its own batch refines it; with one memory worker.
MarksAreKept ==
  [][\A m \in DOMAIN memories :
       /\ memories[m].refined => memories'[m].refined
       /\ Marked(memories[m]) => Marked(memories'[m]) \/ \E w \in Workers : pc[w] = "mark" /\ mine[w].of = m]_vars

\* A mark is final: what was merged or resolved is not undone by the
\* refinement that the memory was still waiting for.
MarksStay ==
  [][\A m \in DOMAIN memories : Marked(memories[m]) => Marked(memories'[m])]_vars

\* Every stored memory is refined, merged or resolved in the end, also over a
\* crash, unless the worker gave its batch up, the queue was full, its
\* execution could not store its other memories or the scan was cut short.
MemoriesSettle ==
  \A m \in Memories : m \in DOMAIN memories ~> m \in excused \cup {x \in DOMAIN memories : Settled(memories[x])}
=============================================================================

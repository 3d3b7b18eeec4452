----------------------- MODULE MemoryRefinementProofs -----------------------
(***************************************************************************)
(* Proofs about MemoryRefinement, for any memories, any similarity, any    *)
(* number of memory workers and executions and any limits: types, marks    *)
(* with their sources, and the accounting of the refinement queue.         *)
(***************************************************************************)
EXTENDS MemoryRefinement, TLAPS

-----------------------------------------------------------------------------
(* The invariant behind MarksHaveSource: not only the stored memories but  *)
(* also every copy a worker holds name sources that are stored, since each *)
(* copy may be written back at any later time.                             *)

Visited == [of : Memories \cup {None}, copy : Entry, other : Memories \cup {None}]
Visiting == {"merge", "resolve", "groupSuccess", "groupFailure"}
Grouping == {"groupSuccess", "groupFailure"}

Sourced(m, entry) ==
  /\ entry.refined => m \in refined
  /\ entry.group # None => entry.group \in patterns

MemoryInv ==
  /\ memories = [m \in DOMAIN memories |-> memories[m]]
  /\ \A m \in DOMAIN memories :
       m \in Memories /\ memories[m] \in Entry /\ Sourced(m, memories[m])

WorkerShape ==
  /\ pc = [w \in Workers |-> pc[w]] /\ job = [w \in Workers |-> job[w]]
  /\ todo = [w \in Workers |-> todo[w]] /\ mine = [w \in Workers |-> mine[w]]
  /\ found = [w \in Workers |-> found[w]]
  /\ attempt = [w \in Workers |-> attempt[w]] /\ failed = [w \in Workers |-> failed[w]]

\* The copies one worker holds, and what it has stored at each of its points.
CopyInv(w) ==
  /\ mine[w] \in Visited /\ Sourced(mine[w].of, mine[w].copy)
  /\ pc[w] \notin Visiting => mine[w].copy = Raw
  /\ \A c \in DOMAIN found[w] :
       c \in Memories /\ found[w][c] \in Entry /\ Sourced(c, found[w][c])
  /\ pc[w] = "mark" => mine[w].of \in refined
  /\ pc[w] \in Visiting => mine[w].of \in Memories
  /\ pc[w] \in Grouping \cup {"resolve"} =>
       mine[w].of \in Successes /\ DOMAIN found[w] \subseteq Failures
  /\ pc[w] \in Grouping =>
       mine[w].other \in DOMAIN found[w] /\ <<mine[w].of, mine[w].other>> \in patterns

PointInv(w) ==
  /\ pc[w] \in {"idle", "refine", "mark", "dedupe", "merge", "conflict", "resolve",
                "groupSuccess", "groupFailure", "decide"}
  /\ job[w] \subseteq DOMAIN memories /\ todo[w] \subseteq DOMAIN memories
  /\ attempt[w] \in 0..MaxAttempts /\ failed[w] \in BOOLEAN

QueueTypes ==
  /\ queue \in Seq(SUBSET Memories) /\ Len(queue) <= QueueCapacity
  /\ pending \subseteq Memories /\ excused \subseteq Memories
  /\ stage \in [Producers -> {"ready", "store", "enqueue", "push", "done"}]
  /\ batch \in [Producers -> SUBSET Memories]

\* Only stored memories are handed over.
StoredInv ==
  /\ \A i \in 1..Len(queue) : queue[i] \subseteq DOMAIN memories
  /\ \A p \in Producers : batch[p] \subseteq DOMAIN memories

StoreTypes ==
  /\ refined \subseteq Memories /\ patterns \subseteq Successes \X Failures
  /\ faults \in 0..MaxFaults

Inv ==
  /\ StoreTypes /\ QueueTypes /\ StoredInv /\ MemoryInv /\ WorkerShape
  /\ \A w \in Workers : CopyInv(w) /\ PointInv(w)

-----------------------------------------------------------------------------
(* Steps of one worker.                                                    *)

\* Nothing that is stored is removed.
Grows ==
  /\ refined \subseteq refined' /\ patterns \subseteq patterns'
  /\ DOMAIN memories \subseteq DOMAIN memories'

\* The other workers keep their program points, batches and copies.
Others(w) ==
  /\ WorkerShape'
  /\ \A v \in Workers \ {w} :
       /\ pc'[v] = pc[v] /\ job'[v] = job[v] /\ todo'[v] = todo[v]
       /\ mine'[v] = mine[v] /\ found'[v] = found[v]
       /\ attempt'[v] = attempt[v] /\ failed'[v] = failed[v]

LEMMA SourcedGrows ==
  ASSUME NEW m, NEW entry, Grows, Sourced(m, entry)
  PROVE  /\ entry.refined => m \in refined'
         /\ entry.group # None => entry.group \in patterns'
  BY DEF Grows, Sourced

\* A worker that does nothing keeps its part of the invariant.
LEMMA Undisturbed ==
  ASSUME Inv, Grows, NEW w, Others(w), NEW v \in Workers \ {w}
  PROVE  CopyInv(v)' /\ PointInv(v)'
  <1>1. CopyInv(v) /\ PointInv(v)
    BY DEF Inv
  <1>2. /\ pc'[v] = pc[v] /\ job'[v] = job[v] /\ todo'[v] = todo[v]
        /\ mine'[v] = mine[v] /\ found'[v] = found[v]
        /\ attempt'[v] = attempt[v] /\ failed'[v] = failed[v]
    BY DEF Others
  <1>3. PointInv(v)'
    BY <1>1, <1>2 DEF PointInv, Grows
  <1>4. Sourced(mine[v].of, mine[v].copy)'
    BY <1>1, <1>2, SourcedGrows DEF CopyInv, Sourced
  <1>5. \A c \in DOMAIN found[v] : Sourced(c, found[v][c])'
    BY <1>1, <1>2, SourcedGrows DEF CopyInv, Sourced
  <1>6. CopyInv(v)'
    BY <1>1, <1>2, <1>4, <1>5 DEF CopyInv, Grows
  <1> QED BY <1>3, <1>6

\* Stored memories that nobody writes keep their sources.
LEMMA Unwritten ==
  ASSUME MemoryInv, Grows, UNCHANGED memories
  PROVE  MemoryInv'
  BY SourcedGrows DEF MemoryInv, Sourced

\* A memory that is written back from a copy with sources keeps its sources.
LEMMA Written ==
  ASSUME MemoryInv, Grows, NEW m, NEW entry \in Entry, Write(m, entry),
         entry.refined => m \in refined',
         entry.group # None => entry.group \in patterns'
  PROVE  MemoryInv'
  <1>1. /\ DOMAIN memories' = DOMAIN memories
        /\ memories' = [x \in DOMAIN memories' |-> memories'[x]]
        /\ \A x \in DOMAIN memories : memories'[x] = IF x = m THEN entry ELSE memories[x]
    BY DEF MemoryInv, Write
  <1>2. \A x \in DOMAIN memories : Sourced(x, memories[x])'
    BY <1>1, SourcedGrows DEF MemoryInv, Sourced
  <1> QED BY <1>1, <1>2 DEF MemoryInv

LEMMA WorkerStep ==
  ASSUME Inv, NEW w \in Workers, Grows, Others(w),
         StoreTypes', QueueTypes', StoredInv', MemoryInv', CopyInv(w)', PointInv(w)'
  PROVE  Inv'
  <1>1. \A v \in Workers : CopyInv(v)' /\ PointInv(v)'
    BY Undisturbed
  <1> QED BY <1>1 DEF Inv, Others

\* The moves between visits: what they leave behind needs no sources.
LEMMA NewPhase ==
  ASSUME Inv, NEW w \in Workers, NEW p \in {"refine", "dedupe", "conflict"}, Phase(w, p),
         UNCHANGED job
  PROVE  /\ CopyInv(w)'
         /\ pc'[w] = p /\ todo'[w] = job[w] /\ job'[w] = job[w]
         /\ pc' = [v \in Workers |-> pc'[v]] /\ todo' = [v \in Workers |-> todo'[v]]
         /\ mine' = [v \in Workers |-> mine'[v]] /\ found' = [v \in Workers |-> found'[v]]
         /\ \A v \in Workers \ {w} : /\ pc'[v] = pc[v] /\ todo'[v] = todo[v]
                                     /\ mine'[v] = mine[v] /\ found'[v] = found[v]
  <1>1. /\ pc'[w] = p /\ mine'[w] = Nobody /\ found'[w] = <<>> /\ todo'[w] = job[w]
    BY DEF Phase, Goto, Inv, WorkerShape
  <1>2. CopyInv(w)'
    BY <1>1 DEF CopyInv, Visited, Nobody, Raw, Entry, Sourced, Visiting, Grouping
  <1> QED BY <1>1, <1>2 DEF Phase, Goto, Inv, WorkerShape

LEMMA NewVisit ==
  ASSUME Inv, NEW w \in Workers, NEW p \in {"refine", "dedupe", "conflict"}, NEW m,
         NextVisit(w, p, m)
  PROVE  /\ CopyInv(w)'
         /\ pc'[w] = p /\ todo'[w] = todo[w] \ {m}
         /\ pc' = [v \in Workers |-> pc'[v]] /\ todo' = [v \in Workers |-> todo'[v]]
         /\ mine' = [v \in Workers |-> mine'[v]] /\ found' = [v \in Workers |-> found'[v]]
         /\ \A v \in Workers \ {w} : /\ pc'[v] = pc[v] /\ todo'[v] = todo[v]
                                     /\ mine'[v] = mine[v] /\ found'[v] = found[v]
  <1>1. /\ pc'[w] = p /\ mine'[w] = Nobody /\ found'[w] = <<>> /\ todo'[w] = todo[w] \ {m}
    BY DEF NextVisit, Goto, Inv, WorkerShape
  <1>2. CopyInv(w)'
    BY <1>1 DEF CopyInv, Visited, Nobody, Raw, Entry, Sourced, Visiting, Grouping
  <1> QED BY <1>1, <1>2 DEF NextVisit, Goto, Inv, WorkerShape

LEMMA NewCandidate ==
  ASSUME Inv, NEW w \in Workers, NEW c, Grows,
         \/ NextCandidate(w, "merge", c) /\ pc[w] = "merge"
         \/ NextCandidate(w, "resolve", c) /\ pc[w] \in Grouping \cup {"resolve"}
  PROVE  /\ CopyInv(w)'
         /\ pc'[w] \in {"merge", "resolve"} /\ todo'[w] = todo[w]
         /\ pc' = [v \in Workers |-> pc'[v]] /\ todo' = [v \in Workers |-> todo'[v]]
         /\ mine' = [v \in Workers |-> mine'[v]] /\ found' = [v \in Workers |-> found'[v]]
         /\ \A v \in Workers \ {w} : /\ pc'[v] = pc[v] /\ todo'[v] = todo[v]
                                     /\ mine'[v] = mine[v] /\ found'[v] = found[v]
  <1>1. /\ pc'[w] \in {"merge", "resolve"}
        /\ pc'[w] = "resolve" => pc[w] \in Grouping \cup {"resolve"}
        /\ pc[w] \in Visiting /\ todo' = todo
        /\ mine'[w] = [mine[w] EXCEPT !.other = None]
        /\ found'[w] = [x \in DOMAIN found[w] \ {c} |-> found[w][x]]
    BY DEF NextCandidate, Goto, Inv, WorkerShape, Visiting, Grouping
  <1>2. CopyInv(w)
    BY DEF Inv
  <1>3. mine'[w] \in Visited /\ mine'[w].of = mine[w].of /\ mine'[w].copy = mine[w].copy
    BY <1>1, <1>2 DEF CopyInv, Visited
  <1>4. Sourced(mine[w].of, mine[w].copy)'
    BY <1>2, <1>3, SourcedGrows DEF CopyInv, Sourced
  <1>5. \A x \in DOMAIN found'[w] :
          /\ x \in DOMAIN found[w] /\ found'[w][x] = found[w][x]
          /\ Sourced(x, found[w][x])'
    BY <1>1, <1>2, SourcedGrows DEF CopyInv, Sourced
  <1>6. CopyInv(w)'
    BY <1>1, <1>2, <1>3, <1>4, <1>5 DEF CopyInv, Visiting, Grouping
  <1> QED BY <1>1, <1>6 DEF NextCandidate, Goto, Inv, WorkerShape

-----------------------------------------------------------------------------
(* The actions of a worker.                                                *)

LEMMA FaultCounts ==
  ASSUME StoreTypes, Fault \/ NoFault
  PROVE  faults' \in 0..MaxFaults
  BY LimitsAssumption DEF StoreTypes, Fault, NoFault

LEMMA Remembers ==
  ASSUME Inv, NEW w \in Workers, Fails(w) \/ Works
  PROVE  /\ faults' \in 0..MaxFaults /\ failed'[w] \in BOOLEAN
         /\ failed' = [v \in Workers |-> failed'[v]]
         /\ \A v \in Workers \ {w} : failed'[v] = failed[v]
  <1>1. faults' \in 0..MaxFaults
    BY FaultCounts DEF Inv, Fails, Works
  <1>2. failed[w] \in BOOLEAN /\ failed = [v \in Workers |-> failed[v]]
    BY DEF Inv, PointInv, WorkerShape
  <1> QED BY <1>1, <1>2 DEF Fails, Works

\* A step inside a batch: it moves the worker and writes marks or copies.
LEMMA VisitStep ==
  ASSUME Inv, NEW w \in Workers, Grows, Fails(w) \/ Works, Hold, UNCHANGED <<pending, excused>>,
         refined' \subseteq Memories, patterns' \subseteq Successes \X Failures,
         MemoryInv', CopyInv(w)',
         pc'[w] \in {"refine", "mark", "dedupe", "merge", "conflict", "resolve",
                     "groupSuccess", "groupFailure", "decide"},
         todo'[w] \subseteq DOMAIN memories',
         pc' = [v \in Workers |-> pc'[v]], todo' = [v \in Workers |-> todo'[v]],
         mine' = [v \in Workers |-> mine'[v]], found' = [v \in Workers |-> found'[v]],
         \A v \in Workers \ {w} : /\ pc'[v] = pc[v] /\ todo'[v] = todo[v]
                                  /\ mine'[v] = mine[v] /\ found'[v] = found[v]
  PROVE  Inv'
  <1>1. /\ faults' \in 0..MaxFaults /\ failed'[w] \in BOOLEAN
        /\ failed' = [v \in Workers |-> failed'[v]]
        /\ \A v \in Workers \ {w} : failed'[v] = failed[v]
    BY Remembers
  <1>2. UNCHANGED <<queue, stage, batch, job, attempt>>
    BY DEF Hold, producers
  <1>3. WorkerShape'
    BY <1>1, <1>2 DEF WorkerShape, Inv
  <1>4. Others(w)
    BY <1>1, <1>2, <1>3 DEF Others
  <1>5. StoreTypes'
    BY <1>1 DEF StoreTypes
  <1>6. QueueTypes'
    BY <1>2 DEF Inv, QueueTypes
  <1>7. PointInv(w)'
    BY <1>1, <1>2 DEF Inv, PointInv, Grows
  <1>8. StoredInv'
    BY <1>2 DEF Inv, StoredInv, Grows
  <1> QED BY <1>4, <1>5, <1>6, <1>7, <1>8, WorkerStep

LEMMA TakeInv ==
  ASSUME Inv, NEW w \in Workers, Take(w)
  PROVE  Inv'
  <1>1. Grows
    BY DEF Take, Grows
  <1>2. /\ Head(queue) \subseteq DOMAIN memories
        /\ queue' \in Seq(SUBSET Memories) /\ Len(queue') <= QueueCapacity
        /\ \A i \in 1..Len(queue') : queue'[i] \subseteq DOMAIN memories
    BY LimitsAssumption DEF Take, Inv, QueueTypes, StoredInv
  <1>3. /\ pc'[w] = "refine" /\ job'[w] = Head(queue) /\ todo'[w] = Head(queue) /\ attempt'[w] = 1
        /\ pc[w] = "idle" /\ UNCHANGED <<mine, found, failed, memories, refined, patterns, faults>>
    BY DEF Take, Goto, Inv, WorkerShape
  <1>4. Others(w)
    BY <1>3 DEF Others, Inv, WorkerShape, Take, Goto
  <1>5. QueueTypes'
    BY <1>2 DEF QueueTypes, Inv, Take, producers
  <1>6. StoreTypes'
    BY <1>3 DEF StoreTypes, Inv
  <1>7. PointInv(w)'
    BY <1>2, <1>3, LimitsAssumption DEF PointInv, Inv
  <1>8. CopyInv(w)'
    BY <1>1, <1>3 DEF CopyInv, Inv, Sourced, Grouping, Visiting
  <1>9. MemoryInv'
    BY <1>1, <1>3, Unwritten DEF Inv
  <1>10. StoredInv'
    BY <1>2, <1>3 DEF StoredInv, Inv, Take, producers
  <1> QED BY <1>1, <1>4, <1>5, <1>6, <1>7, <1>8, <1>9, <1>10, WorkerStep

LEMMA FirstIsLeft ==
  ASSUME NEW w, todo[w] # {}
  PROVE  First(w) \subseteq todo[w]
  BY DEF First

LEMMA RefineInv ==
  ASSUME Inv, NEW w \in Workers, Refine(w)
  PROVE  Inv'
  <1>1. UNCHANGED <<memories, patterns, pending, excused>> /\ Hold /\ UNCHANGED job
    BY DEF Refine, Hold
  <1>2. StoreTypes /\ CopyInv(w) /\ PointInv(w) /\ MemoryInv
    BY DEF Inv
  <1>3. CASE Phase(w, "dedupe") /\ Works /\ UNCHANGED refined
    <2>1. Grows /\ MemoryInv'
      BY <1>1, <1>2, <1>3, Unwritten DEF Grows
    <2> QED BY <1>1, <1>2, <1>3, <2>1, NewPhase, VisitStep DEF StoreTypes, PointInv
  <1>4. ASSUME NEW m \in First(w), NextVisit(w, "refine", m), Fails(w), UNCHANGED refined
        PROVE  Inv'
    <2>1. Grows /\ MemoryInv'
      BY <1>1, <1>2, <1>4, Unwritten DEF Grows
    <2> QED BY <1>1, <1>2, <1>4, <2>1, NewVisit, VisitStep DEF StoreTypes, PointInv
  <1>5. ASSUME NEW m \in First(w), todo[w] # {}, refined' = refined \cup {m}, Works,
               mine' = [mine EXCEPT ![w].of = m], Goto(w, "mark"), UNCHANGED <<todo, found>>,
               pc[w] = "refine"
        PROVE  Inv'
    <2>1. m \in Memories
      BY <1>2, <1>5, FirstIsLeft DEF PointInv, MemoryInv
    <2>2. Grows /\ MemoryInv'
      BY <1>1, <1>2, <1>5, Unwritten DEF Grows
    <2>3. mine'[w] = [mine[w] EXCEPT !.of = m] /\ pc'[w] = "mark" /\ found'[w] = found[w]
      BY <1>5 DEF Goto, Inv, WorkerShape
    <2>4. mine'[w] \in Visited /\ mine'[w].of = m /\ mine'[w].copy = Raw
      BY <1>2, <1>5, <2>1, <2>3 DEF CopyInv, Visited, Visiting
    <2>5. \A c \in DOMAIN found'[w] :
            c \in Memories /\ found'[w][c] \in Entry /\ Sourced(c, found[w][c])'
      <3>1. \A c \in DOMAIN found[w] :
              c \in Memories /\ found[w][c] \in Entry /\ Sourced(c, found[w][c])
        BY <1>2 DEF CopyInv
      <3>2. ASSUME NEW c \in DOMAIN found[w]
            PROVE  Sourced(c, found[w][c])'
        BY <1>5, <2>2, <2>3, <3>1, SourcedGrows DEF Sourced, Inv, WorkerShape
      <3> QED BY <2>3, <3>1, <3>2
    <2>6. Sourced(mine[w].of, mine[w].copy)'
      BY <2>4 DEF Sourced, Raw
    <2>7. CopyInv(w)'
      BY <1>5, <2>3, <2>4, <2>5, <2>6 DEF CopyInv, Visiting, Grouping
    <2> QED
      BY <1>1, <1>2, <1>5, <2>1, <2>2, <2>3, <2>7, VisitStep
      DEF StoreTypes, PointInv, Goto, Inv, WorkerShape
  <1> QED BY <1>3, <1>4, <1>5 DEF Refine

LEMMA MarkInv ==
  ASSUME Inv, NEW w \in Workers, Mark(w)
  PROVE  Inv'
  <1>1. /\ UNCHANGED <<refined, patterns, pending, excused>> /\ Hold
        /\ NextVisit(w, "refine", mine[w].of) /\ pc[w] = "mark" /\ (Fails(w) \/ Works)
    BY DEF Mark
  <1>2. StoreTypes /\ CopyInv(w) /\ PointInv(w) /\ MemoryInv
    BY DEF Inv
  <1>3. Grows
    BY <1>1, <1>2 DEF Grows, Mark, Write, MemoryInv
  <1>4. MemoryInv'
    <2>1. CASE UNCHANGED memories
      BY <1>2, <1>3, <2>1, Unwritten
    <2>2. CASE Write(mine[w].of, [Raw EXCEPT !.refined = TRUE])
      <3>1. /\ [Raw EXCEPT !.refined = TRUE] \in Entry
            /\ [Raw EXCEPT !.refined = TRUE].group = None
        BY DEF Raw, Entry
      <3>2. mine[w].of \in refined'
        BY <1>1, <1>2 DEF CopyInv
      <3> QED
        <4> DEFINE e == [Raw EXCEPT !.refined = TRUE]
        <4>1. e \in Entry /\ e.group = None /\ Write(mine[w].of, e)
          BY <2>2, <3>1
        <4> HIDE DEF e
        <4> QED BY <1>2, <1>3, <3>2, <4>1, Written
    <2> QED BY <2>1, <2>2 DEF Mark
  <1>5. todo[w] \subseteq DOMAIN memories'
    BY <1>2, <1>3 DEF PointInv, Grows
  <1> QED BY <1>1, <1>2, <1>3, <1>4, <1>5, NewVisit, VisitStep DEF StoreTypes, PointInv

\* A visit begins with copies of stored memories, which have their sources.
LEMMA VisitInv ==
  ASSUME Inv, NEW w \in Workers, NEW from \in {"dedupe", "conflict"},
         NEW to \in {"merge", "resolve"}, NEW next \in {"conflict", "decide"},
         NEW visited \in SUBSET Memories, NEW kind, Visit(w, from, to, next, visited, kind),
         to = "resolve" => visited \subseteq Successes /\ \A m \in visited : kind[m] \subseteq Failures
  PROVE  Inv'
  <1>1. /\ UNCHANGED <<memories, refined, patterns, pending, excused>> /\ Hold
        /\ UNCHANGED job /\ pc[w] = from
    BY DEF Visit, Hold
  <1>2. StoreTypes /\ CopyInv(w) /\ PointInv(w) /\ MemoryInv /\ WorkerShape
    BY DEF Inv
  <1>3. Grows /\ MemoryInv'
    BY <1>1, <1>2, Unwritten DEF Grows
  <1>4. CASE Works /\ next = "decide" /\ Goto(w, next) /\ UNCHANGED visit
    <2>1. pc'[w] = "decide" /\ UNCHANGED <<mine, found, todo>>
      BY <1>2, <1>4 DEF Goto, visit, WorkerShape
    <2>2. CopyInv(w)'
      BY <1>1, <1>2, <2>1 DEF CopyInv, Sourced, Visiting, Grouping
    <2> QED
      BY <1>1, <1>2, <1>3, <1>4, <2>1, <2>2, VisitStep
      DEF StoreTypes, PointInv, Goto, WorkerShape
  <1>5. CASE Works /\ next = "conflict" /\ Phase(w, next)
    BY <1>1, <1>2, <1>3, <1>5, NewPhase, VisitStep DEF StoreTypes, PointInv
  <1>6. ASSUME NEW m \in First(w), NextVisit(w, from, m), Fails(w) \/ Works
        PROVE  Inv'
    BY <1>1, <1>2, <1>3, <1>6, NewVisit, VisitStep DEF StoreTypes, PointInv
  <1>7. ASSUME NEW m \in First(w), m \in visited, ~Marked(CopyOf(m)), Works,
               mine' = [mine EXCEPT ![w] = [of |-> m, copy |-> CopyOf(m), other |-> None]],
               found' = [found EXCEPT ![w] = [c \in Candidates(m, kind[m]) |-> memories[c]]],
               Goto(w, to), UNCHANGED todo, todo[w] # {}
        PROVE  Inv'
    <2>0. m \in DOMAIN memories
      BY <1>2, <1>7, FirstIsLeft DEF PointInv
    <2>1. /\ mine'[w] = [of |-> m, copy |-> memories[m], other |-> None]
          /\ found'[w] = [c \in Candidates(m, kind[m]) |-> memories[c]] /\ pc'[w] = to
      BY <1>2, <1>7 DEF Goto, WorkerShape, CopyOf
    <2>2. \A c \in DOMAIN memories :
            c \in Memories /\ memories[c] \in Entry /\ Sourced(c, memories[c])'
      BY <1>1, <1>3 DEF MemoryInv
    <2>3. mine'[w] \in Visited
      BY <2>0, <2>1, <2>2 DEF Visited
    <2>4. Candidates(m, kind[m]) \subseteq DOMAIN memories \cap kind[m]
      BY DEF Candidates
    <2>5. DOMAIN found'[w] = Candidates(m, kind[m])
          /\ \A c \in DOMAIN found'[w] : found'[w][c] = memories[c]
      BY <2>1
    <2>6. \A c \in DOMAIN found'[w] :
            c \in Memories /\ found'[w][c] \in Entry /\ Sourced(c, memories[c])'
      BY <2>2, <2>4, <2>5
    <2>7. Sourced(mine[w].of, mine[w].copy)'
      BY <1>1, <2>0, <2>1, <2>2 DEF Sourced
    <2>8. to = "resolve" => m \in Successes /\ DOMAIN found'[w] \subseteq Failures
      BY <1>7, <2>4, <2>5
    <2>9. \A c \in DOMAIN found'[w] : (Sourced(c, found[w][c]))'
      BY <1>1, <2>5, <2>6 DEF Sourced
    <2>10. CopyInv(w)'
      BY <1>7, <2>1, <2>3, <2>6, <2>7, <2>8, <2>9 DEF CopyInv, Visiting, Grouping
    <2> QED
      BY <1>1, <1>2, <1>3, <1>7, <2>1, <2>10, VisitStep
      DEF StoreTypes, PointInv, Goto, WorkerShape
  <1> QED BY <1>4, <1>5, <1>6, <1>7 DEF Visit

LEMMA DedupeInv ==
  ASSUME Inv, NEW w \in Workers, Dedupe(w)
  PROVE  Inv'
  <1>1. Visit(w, "dedupe", "merge", "conflict", Memories, SameKind)
    BY DEF Dedupe
  <1> QED BY <1>1, VisitInv

LEMMA ConflictInv ==
  ASSUME Inv, NEW w \in Workers, Conflict(w)
  PROVE  Inv'
  <1> DEFINE kind == [m \in Memories |-> Failures]
  <1>1. Visit(w, "conflict", "resolve", "decide", Successes, kind)
    BY DEF Conflict
  <1>2. Successes \in SUBSET Memories /\ \A m \in Successes : kind[m] \subseteq Failures
    BY DEF Memories
  <1> HIDE DEF kind
  <1> QED BY <1>1, <1>2, VisitInv

\* A mark is added to a copy that has the sources of its other marks.
LEMMA MergeInv ==
  ASSUME Inv, NEW w \in Workers, Merge(w)
  PROVE  Inv'
  <1>1. /\ UNCHANGED <<refined, patterns, pending, excused>> /\ Hold
        /\ pc[w] = "merge" /\ UNCHANGED job
    BY DEF Merge, Hold
  <1>2. StoreTypes /\ CopyInv(w) /\ PointInv(w) /\ MemoryInv
    BY DEF Inv
  <1>3. CASE NextVisit(w, "dedupe", mine[w].of) /\ Works /\ UNCHANGED memories
    <2>1. Grows /\ MemoryInv'
      BY <1>1, <1>2, <1>3, Unwritten DEF Grows
    <2> QED BY <1>1, <1>2, <1>3, <2>1, NewVisit, VisitStep DEF StoreTypes, PointInv
  <1>4. ASSUME NEW c \in DOMAIN found[w], NextCandidate(w, "merge", c),
               Fails(w), UNCHANGED memories
        PROVE  Inv'
    <2>1. Grows /\ MemoryInv'
      BY <1>1, <1>2, <1>4, Unwritten DEF Grows
    <2> QED BY <1>1, <1>2, <1>4, <2>1, NewCandidate, VisitStep DEF StoreTypes, PointInv
  <1>5. ASSUME NEW c \in DOMAIN found[w], NextCandidate(w, "merge", c), Works,
               NEW p \in PickPrimary(mine[w].of, c),
               Write(p.secondary, [(IF p.secondary = mine[w].of THEN mine[w].copy ELSE found[w][c])
                                     EXCEPT !.dup = p.primary])
        PROVE  Inv'
    <2> DEFINE copy == IF p.secondary = mine[w].of THEN mine[w].copy ELSE found[w][c]
               entry == [copy EXCEPT !.dup = p.primary]
    <2>1. mine[w].of \in Memories /\ c \in Memories
      BY <1>1, <1>2 DEF CopyInv, Visiting
    <2>2. p.primary \in Memories /\ p.secondary \in {mine[w].of, c}
      BY <1>5, <2>1 DEF PickPrimary
    <2>3. copy \in Entry /\ Sourced(p.secondary, copy)
      BY <1>2, <2>2 DEF CopyInv, Visited
    <2>4. Grows
      BY <1>1, <1>2, <1>5 DEF Grows, Write, MemoryInv
    <2>5. Write(p.secondary, entry)
      BY <1>5
    <2> HIDE DEF copy
    <2>6. /\ entry \in Entry /\ entry.refined = copy.refined /\ entry.group = copy.group
      BY <2>2, <2>3 DEF Entry
    <2> HIDE DEF entry
    <2>7. MemoryInv'
      BY <1>1, <1>2, <2>3, <2>4, <2>5, <2>6, Written DEF Sourced
    <2>8. todo[w] \subseteq DOMAIN memories'
      BY <1>2, <2>4 DEF PointInv, Grows
    <2> QED
      BY <1>1, <1>2, <1>5, <2>4, <2>7, <2>8, NewCandidate, VisitStep DEF StoreTypes
  <1> QED BY <1>3, <1>4, <1>5 DEF Merge

\* The resolved pattern is stored before anything names it.
LEMMA ResolveInv ==
  ASSUME Inv, NEW w \in Workers, Resolve(w)
  PROVE  Inv'
  <1>1. /\ UNCHANGED <<memories, refined, pending, excused>> /\ Hold
        /\ pc[w] = "resolve" /\ UNCHANGED job
    BY DEF Resolve, Hold
  <1>2. StoreTypes /\ CopyInv(w) /\ PointInv(w) /\ MemoryInv
    BY DEF Inv
  <1>3. CASE NextVisit(w, "conflict", mine[w].of) /\ Works /\ UNCHANGED patterns
    <2>1. Grows /\ MemoryInv'
      BY <1>1, <1>2, <1>3, Unwritten DEF Grows
    <2> QED BY <1>1, <1>2, <1>3, <2>1, NewVisit, VisitStep DEF StoreTypes, PointInv
  <1>4. ASSUME NEW f \in DOMAIN found[w], NextCandidate(w, "resolve", f),
               Fails(w), UNCHANGED patterns
        PROVE  Inv'
    <2>1. Grows /\ MemoryInv'
      BY <1>1, <1>2, <1>4, Unwritten DEF Grows
    <2>2. pc[w] \in Grouping \cup {"resolve"}
      BY <1>1
    <2> QED BY <1>1, <1>2, <1>4, <2>1, <2>2, NewCandidate, VisitStep DEF StoreTypes, PointInv
  <1>5. ASSUME NEW f \in DOMAIN found[w], patterns' = patterns \cup {<<mine[w].of, f>>}, Works,
               mine' = [mine EXCEPT ![w].other = f], Goto(w, "groupSuccess"),
               UNCHANGED <<todo, found>>
        PROVE  Inv'
    <2>1. mine[w].of \in Successes /\ f \in Failures
      BY <1>1, <1>2 DEF CopyInv
    <2>2. Grows /\ MemoryInv'
      BY <1>1, <1>2, <1>5, Unwritten DEF Grows
    <2>3. mine'[w] = [mine[w] EXCEPT !.other = f] /\ pc'[w] = "groupSuccess" /\ found'[w] = found[w]
      BY <1>5 DEF Goto, Inv, WorkerShape
    <2>4. /\ mine'[w] \in Visited /\ mine'[w].of = mine[w].of /\ mine'[w].copy = mine[w].copy
          /\ mine'[w].other = f
      BY <1>2, <2>1, <2>3 DEF CopyInv, Visited, Memories
    <2>5. \A x \in DOMAIN found'[w] :
            x \in Memories /\ found'[w][x] \in Entry /\ Sourced(x, found[w][x])'
      <3>1. \A x \in DOMAIN found[w] :
              x \in Memories /\ found[w][x] \in Entry /\ Sourced(x, found[w][x])
        BY <1>2 DEF CopyInv
      <3>2. ASSUME NEW x \in DOMAIN found[w]
            PROVE  Sourced(x, found[w][x])'
        BY <2>2, <2>3, <3>1, SourcedGrows DEF Sourced
      <3> QED BY <2>3, <3>1, <3>2
    <2>6. Sourced(mine[w].of, mine[w].copy)'
      BY <1>2, <2>2, <2>4, SourcedGrows DEF Sourced, CopyInv
    <2>7. <<mine'[w].of, mine'[w].other>> \in patterns'
      BY <1>5, <2>4
    <2>8. DOMAIN found[w] \subseteq Failures /\ mine[w].of \in Memories
      BY <1>1, <1>2 DEF CopyInv, Visiting
    <2>9. CopyInv(w)'
      BY <2>1, <2>3, <2>4, <2>5, <2>6, <2>7, <2>8 DEF CopyInv, Visiting
    <2>10. patterns' \subseteq Successes \X Failures
      BY <1>2, <1>5, <2>1 DEF StoreTypes
    <2> QED
      BY <1>1, <1>2, <1>5, <2>2, <2>3, <2>9, <2>10, VisitStep
      DEF StoreTypes, PointInv, Goto, Inv, WorkerShape
  <1> QED BY <1>3, <1>4, <1>5 DEF Resolve

LEMMA GroupSuccessInv ==
  ASSUME Inv, NEW w \in Workers, GroupSuccess(w)
  PROVE  Inv'
  <1>1. /\ UNCHANGED <<refined, patterns, pending, excused>> /\ Hold
        /\ pc[w] = "groupSuccess" /\ UNCHANGED job
    BY DEF GroupSuccess, Hold
  <1>2. StoreTypes /\ CopyInv(w) /\ PointInv(w) /\ MemoryInv
    BY DEF Inv
  <1>3. CASE NextCandidate(w, "resolve", mine[w].other) /\ Fails(w) /\ UNCHANGED memories
    <2>1. Grows /\ MemoryInv'
      BY <1>1, <1>2, <1>3, Unwritten DEF Grows
    <2>2. pc[w] \in Grouping \cup {"resolve"}
      BY <1>1 DEF Grouping
    <2> QED BY <1>1, <1>2, <1>3, <2>1, <2>2, NewCandidate, VisitStep DEF StoreTypes, PointInv
  <1>4. CASE /\ Works /\ Write(mine[w].of, [mine[w].copy EXCEPT !.group = <<mine[w].of, mine[w].other>>])
             /\ Goto(w, "groupFailure") /\ UNCHANGED visit
    <2> DEFINE copy == mine[w].copy
               pair == <<mine[w].of, mine[w].other>>
               entry == [copy EXCEPT !.group = pair]
    <2>1. pair \in patterns /\ pair \in Successes \X Failures
      BY <1>1, <1>2 DEF CopyInv, Grouping, StoreTypes
    <2>2. copy \in Entry /\ Sourced(mine[w].of, copy)
      BY <1>2 DEF CopyInv, Visited
    <2>3. Grows
      BY <1>1, <1>2, <1>4 DEF Grows, Write, MemoryInv
    <2>4. Write(mine[w].of, entry)
      BY <1>4
    <2> HIDE DEF copy, pair
    <2>5. entry \in Entry /\ entry.refined = copy.refined /\ entry.group = pair
      BY <2>1, <2>2 DEF Entry
    <2> HIDE DEF entry
    <2>6. MemoryInv'
      BY <1>1, <1>2, <2>1, <2>2, <2>3, <2>4, <2>5, Written DEF Sourced
    <2>7. todo[w] \subseteq DOMAIN memories'
      BY <1>2, <2>3 DEF PointInv, Grows
    <2>8. pc'[w] = "groupFailure" /\ UNCHANGED <<mine, found, todo>>
      BY <1>4 DEF Goto, visit, Inv, WorkerShape
    <2>9. CopyInv(w)'
      BY <1>1, <1>2, <2>8 DEF CopyInv, Sourced, Visiting, Grouping
    <2> QED
      BY <1>1, <1>2, <1>4, <2>3, <2>6, <2>7, <2>8, <2>9, VisitStep
      DEF StoreTypes, Goto, Inv, WorkerShape
  <1> QED BY <1>3, <1>4 DEF GroupSuccess

LEMMA GroupFailureInv ==
  ASSUME Inv, NEW w \in Workers, GroupFailure(w)
  PROVE  Inv'
  <1>1. /\ UNCHANGED <<refined, patterns, pending, excused>> /\ Hold
        /\ pc[w] = "groupFailure" /\ UNCHANGED job /\ (Fails(w) \/ Works)
        /\ NextCandidate(w, "resolve", mine[w].other)
    BY DEF GroupFailure, Hold
  <1>2. StoreTypes /\ CopyInv(w) /\ PointInv(w) /\ MemoryInv
    BY DEF Inv
  <1>3. Grows /\ MemoryInv'
    <2>1. CASE UNCHANGED memories
      BY <1>1, <1>2, <2>1, Unwritten DEF Grows
    <2>2. CASE Write(mine[w].other, [found[w][mine[w].other]
                                       EXCEPT !.group = <<mine[w].of, mine[w].other>>])
      <3> DEFINE copy == found[w][mine[w].other]
                 pair == <<mine[w].of, mine[w].other>>
                 entry == [copy EXCEPT !.group = pair]
      <3>1. pair \in patterns /\ pair \in Successes \X Failures
        BY <1>1, <1>2 DEF CopyInv, Grouping, StoreTypes
      <3>2. copy \in Entry /\ Sourced(mine[w].other, copy)
        BY <1>1, <1>2 DEF CopyInv, Grouping
      <3>3. Grows
        BY <1>1, <1>2, <2>2 DEF Grows, Write, MemoryInv
      <3>4. Write(mine[w].other, entry)
        BY <2>2
      <3> HIDE DEF copy, pair
      <3>5. entry \in Entry /\ entry.refined = copy.refined /\ entry.group = pair
        BY <3>1, <3>2 DEF Entry
      <3> HIDE DEF entry
      <3> QED BY <1>1, <1>2, <3>1, <3>2, <3>3, <3>4, <3>5, Written DEF Sourced
    <2> QED BY <2>1, <2>2 DEF GroupFailure
  <1>4. pc[w] \in Grouping \cup {"resolve"}
    BY <1>1 DEF Grouping
  <1>5. todo[w] \subseteq DOMAIN memories'
    BY <1>2, <1>3 DEF PointInv, Grows
  <1> QED BY <1>1, <1>2, <1>3, <1>4, <1>5, NewCandidate, VisitStep DEF StoreTypes

LEMMA DecideInv ==
  ASSUME Inv, NEW w \in Workers, Decide(w)
  PROVE  Inv'
  <1>1. /\ UNCHANGED <<memories, refined, patterns, queue, stage, batch, faults>>
        /\ failed' = [failed EXCEPT ![w] = FALSE] /\ pc[w] = "decide"
    BY DEF Decide, NoFault, producers
  <1>2. StoreTypes /\ QueueTypes /\ StoredInv /\ MemoryInv /\ WorkerShape /\ CopyInv(w) /\ PointInv(w)
    BY DEF Inv
  <1>3. Grows /\ MemoryInv' /\ StoreTypes' /\ StoredInv'
    BY <1>1, <1>2, Unwritten DEF Grows, StoreTypes, StoredInv
  <1>4. job[w] \subseteq Memories
    BY <1>2 DEF PointInv, MemoryInv
  <1>5. QueueTypes'
    BY <1>1, <1>2, <1>4 DEF QueueTypes, Decide
  <1>6. CASE Retries(w) /\ attempt' = [attempt EXCEPT ![w] = @ + 1] /\ Phase(w, "refine")
             /\ UNCHANGED job
    <2>1. attempt[w] + 1 \in 0..MaxAttempts /\ attempt'[w] = attempt[w] + 1
      BY <1>2, <1>6, LimitsAssumption DEF Retries, PointInv, WorkerShape
    <2>2. Others(w)
      BY <1>1, <1>2, <1>6, NewPhase DEF Others, WorkerShape
    <2>3. PointInv(w)'
      BY <1>1, <1>2, <1>6, <2>1, NewPhase DEF PointInv, WorkerShape
    <2>4. CopyInv(w)'
      BY <1>6, NewPhase
    <2> QED BY <1>3, <1>5, <2>2, <2>3, <2>4, WorkerStep
  <1>7. CASE /\ attempt' = [attempt EXCEPT ![w] = 0] /\ job' = [job EXCEPT ![w] = {}]
             /\ Goto(w, "idle") /\ UNCHANGED visit
    <2>1. pc'[w] = "idle" /\ job'[w] = {} /\ attempt'[w] = 0 /\ UNCHANGED <<todo, mine, found>>
      BY <1>2, <1>7 DEF WorkerShape, Goto, visit
    <2>2. Others(w)
      BY <1>1, <1>2, <1>7, <2>1 DEF Others, WorkerShape, Goto
    <2>3. PointInv(w)'
      BY <1>1, <1>2, <2>1, LimitsAssumption DEF PointInv, WorkerShape
    <2>4. CopyInv(w)'
      BY <1>1, <1>2, <2>1 DEF CopyInv, Sourced, Visiting, Grouping
    <2> QED BY <1>3, <1>5, <2>2, <2>3, <2>4, WorkerStep
  <1> QED BY <1>6, <1>7 DEF Decide

-----------------------------------------------------------------------------
(* Producers, crashes, the theorems.                                       *)

\* A step that no worker takes.
LEMMA WorkersRest ==
  ASSUME Inv, Grows, UNCHANGED workers, StoreTypes', QueueTypes', StoredInv', MemoryInv'
  PROVE  Inv'
  <1>1. WorkerShape'
    BY DEF Inv, workers, visit, WorkerShape
  <1>2. ASSUME NEW v \in Workers
        PROVE  CopyInv(v)' /\ PointInv(v)'
    <2>1. CopyInv(v) /\ PointInv(v)
      BY DEF Inv
    <2>2. UNCHANGED <<pc, job, todo, mine, found, attempt, failed>>
      BY DEF workers, visit
    <2>3. PointInv(v)'
      BY <2>1, <2>2 DEF PointInv, Grows
    <2>4. Sourced(mine[v].of, mine[v].copy)'
      BY <2>1, <2>2, SourcedGrows DEF CopyInv, Sourced
    <2>5. \A c \in DOMAIN found[v] : Sourced(c, found[v][c])'
      BY <2>1, <2>2, SourcedGrows DEF CopyInv, Sourced
    <2>6. CopyInv(v)'
      BY <2>1, <2>2, <2>4, <2>5 DEF CopyInv, Grows
    <2> QED BY <2>3, <2>6
  <1> QED BY <1>1, <1>2 DEF Inv

LEMMA StoreInv ==
  ASSUME Inv, NEW p \in Producers, Store(p)
  PROVE  Inv'
  <1>1. UNCHANGED <<refined, patterns, queue, pending, workers>> /\ p \in Executions
    BY DEF Store
  <1>2. StoreTypes /\ QueueTypes /\ StoredInv /\ MemoryInv
    BY DEF Inv
  <1>3. Produces[p] \subseteq Memories /\ batch[p] \subseteq Memories
    BY <1>1, <1>2, ProducesAssumption DEF QueueTypes
  <1>4. ASSUME NEW m \in Produces[p] \ batch[p],
               memories' = [x \in DOMAIN memories \cup {m} |-> IF x = m THEN Raw ELSE memories[x]],
               batch' = [batch EXCEPT ![p] = @ \cup {m}],
               stage' = [stage EXCEPT ![p] = IF Produces[p] \ batch[p] = {m} THEN "enqueue" ELSE "store"],
               NoFault, UNCHANGED excused
        PROVE  Inv'
    <2>1. Grows
      BY <1>1, <1>4 DEF Grows
    <2>2. Raw \in Entry /\ Raw.refined = FALSE /\ Raw.group = None
      BY DEF Raw, Entry
    <2>3. \A x \in DOMAIN memories' : memories'[x] = IF x = m THEN Raw ELSE memories[x]
      BY <1>4
    <2>4. ASSUME NEW x \in DOMAIN memories'
          PROVE  x \in Memories /\ memories'[x] \in Entry /\ Sourced(x, memories[x])'
      BY <1>2, <1>3, <1>4, <2>1, <2>2, <2>3, SourcedGrows DEF MemoryInv, Sourced
    <2>5. MemoryInv'
      BY <1>4, <2>4 DEF MemoryInv
    <2>6. QueueTypes'
      BY <1>1, <1>2, <1>3, <1>4 DEF QueueTypes
    <2>7. StoredInv'
      BY <1>1, <1>2, <1>4 DEF StoredInv, QueueTypes
    <2>8. StoreTypes'
      BY <1>1, <1>2, <1>4 DEF StoreTypes, NoFault
    <2> QED BY <1>1, <2>1, <2>5, <2>6, <2>7, <2>8, WorkersRest
  <1>5. CASE /\ Fault /\ excused' = excused \cup batch[p]
             /\ stage' = [stage EXCEPT ![p] = "done"] /\ batch' = [batch EXCEPT ![p] = {}]
             /\ UNCHANGED memories
    <2>1. Grows /\ MemoryInv'
      BY <1>1, <1>2, <1>5, Unwritten DEF Grows
    <2>2. QueueTypes'
      BY <1>1, <1>2, <1>3, <1>5 DEF QueueTypes
    <2>3. StoredInv'
      BY <1>1, <1>2, <1>5 DEF StoredInv, QueueTypes
    <2>4. StoreTypes'
      BY <1>1, <1>2, <1>5, FaultCounts DEF StoreTypes
    <2> QED BY <1>1, <2>1, <2>2, <2>3, <2>4, WorkersRest
  <1> QED BY <1>4, <1>5 DEF Store

LEMMA ScanInv ==
  ASSUME Inv, Scan
  PROVE  Inv'
  <1>1. UNCHANGED <<memories, refined, patterns, queue, pending, workers>>
    BY DEF Scan
  <1>2. StoreTypes /\ QueueTypes /\ StoredInv /\ MemoryInv /\ Recovery \in Producers
    BY DEF Inv, Producers
  <1>3. Grows /\ MemoryInv'
    BY <1>1, <1>2, Unwritten DEF Grows
  <1>4. Unrefined \subseteq DOMAIN memories /\ DOMAIN memories \subseteq Memories
    BY <1>2 DEF Unrefined, MemoryInv
  <1>5. /\ excused' \subseteq Memories
        /\ batch' \in [Producers -> SUBSET Memories]
        /\ \A p \in Producers : batch'[p] \subseteq DOMAIN memories
    <2>1. ASSUME NEW S \in SUBSET Unrefined, batch' = [batch EXCEPT ![Recovery] = S]
          PROVE  /\ batch' \in [Producers -> SUBSET Memories]
                 /\ \A p \in Producers : batch'[p] \subseteq DOMAIN memories
      BY <1>2, <1>4, <2>1 DEF QueueTypes, StoredInv
    <2> QED BY <1>2, <1>4, <2>1 DEF Scan, QueueTypes, StoredInv
  <1>6. stage' \in [Producers -> {"ready", "store", "enqueue", "push", "done"}]
    BY <1>2 DEF Scan, QueueTypes
  <1>7. QueueTypes' /\ StoredInv'
    BY <1>1, <1>2, <1>5, <1>6 DEF QueueTypes, StoredInv
  <1>8. Fault \/ NoFault
    BY DEF Scan
  <1>9. StoreTypes'
    BY <1>1, <1>2, <1>8, FaultCounts DEF StoreTypes
  <1> QED BY <1>1, <1>3, <1>7, <1>9, WorkersRest

LEMMA EnqueueInv ==
  ASSUME Inv, NEW p \in Producers, Enqueue(p)
  PROVE  Inv'
  <1>1. UNCHANGED <<memories, refined, patterns, queue, workers, faults, excused>>
    BY DEF Enqueue
  <1>2. StoreTypes /\ QueueTypes /\ StoredInv /\ MemoryInv
    BY DEF Inv
  <1>3. Grows /\ MemoryInv' /\ StoreTypes'
    BY <1>1, <1>2, Unwritten DEF Grows, StoreTypes
  <1>4. Fresh(p) \subseteq batch[p] /\ batch[p] \subseteq Memories
    BY <1>2 DEF Fresh, QueueTypes
  <1>5. QueueTypes'
    BY <1>1, <1>2, <1>4 DEF QueueTypes, Enqueue
  <1>6. StoredInv'
    BY <1>1, <1>2, <1>4 DEF QueueTypes, StoredInv, Enqueue
  <1> QED BY <1>1, <1>3, <1>5, <1>6, WorkersRest

LEMMA PushInv ==
  ASSUME Inv, NEW p \in Producers, Push(p)
  PROVE  Inv'
  <1>1. UNCHANGED <<memories, refined, patterns, workers, faults>>
    BY DEF Push
  <1>2. StoreTypes /\ QueueTypes /\ StoredInv /\ MemoryInv
    BY DEF Inv
  <1>3. Grows /\ MemoryInv' /\ StoreTypes'
    BY <1>1, <1>2, Unwritten DEF Grows, StoreTypes
  <1>4. batch[p] \subseteq Memories /\ batch[p] \subseteq DOMAIN memories
    BY <1>2 DEF StoredInv, QueueTypes
  <1>5. /\ queue' \in Seq(SUBSET Memories) /\ Len(queue') <= QueueCapacity
        /\ \A i \in 1..Len(queue') : queue'[i] \subseteq DOMAIN memories
    <2>1. CASE Len(queue) < QueueCapacity /\ queue' = Append(queue, batch[p])
      BY <1>2, <1>4, <2>1, LimitsAssumption DEF QueueTypes, StoredInv
    <2> QED BY <1>2, <2>1 DEF QueueTypes, StoredInv, Push
  <1>6. /\ stage' \in [Producers -> {"ready", "store", "enqueue", "push", "done"}]
        /\ batch' \in [Producers -> SUBSET Memories]
        /\ \A q \in Producers : batch'[q] \subseteq DOMAIN memories
    BY <1>2, <1>4 DEF QueueTypes, StoredInv, Push
  <1>7. pending' \subseteq Memories /\ excused' \subseteq Memories
    BY <1>2, <1>4 DEF QueueTypes, Push
  <1>8. QueueTypes' /\ StoredInv'
    BY <1>1, <1>5, <1>6, <1>7 DEF QueueTypes, StoredInv
  <1> QED BY <1>1, <1>3, <1>8, WorkersRest

Resting == WorkerShape /\ \A w \in Workers : CopyInv(w) /\ PointInv(w)

\* The workers at rest, as they are at every start.
LEMMA IdleRests == Idle => Resting
  <1> SUFFICES ASSUME Idle
               PROVE  Resting
    OBVIOUS
  <1>1. ASSUME NEW w \in Workers
        PROVE  CopyInv(w) /\ PointInv(w)
    <2>1. /\ pc[w] = "idle" /\ job[w] = {} /\ todo[w] = {} /\ mine[w] = Nobody
          /\ found[w] = <<>> /\ attempt[w] = 0
      BY DEF Idle
    <2>2. failed[w] = FALSE
      BY DEF Idle
    <2>3. CopyInv(w)
      BY <2>1 DEF CopyInv, Visited, Nobody, Raw, Entry, Sourced, Visiting, Grouping
    <2>4. 0 \in 0..MaxAttempts
      BY LimitsAssumption
    <2>5. failed[w] \in BOOLEAN
      BY <2>2, Zenon
    <2>6. PointInv(w)
      BY <2>1, <2>4, <2>5 DEF PointInv
    <2> QED BY <2>3, <2>6
  <1>2. WorkerShape
    BY DEF Idle, WorkerShape
  <1> QED BY <1>1, <1>2 DEF Resting

LEMMA CrashInv ==
  ASSUME Inv, Crash
  PROVE  Inv'
  <1>1. Idle' /\ Fault /\ UNCHANGED <<memories, refined, patterns, excused>>
    BY DEF Crash, Idle
  <1>2. StoreTypes /\ QueueTypes /\ StoredInv /\ MemoryInv
    BY DEF Inv
  <1>3. Grows /\ MemoryInv'
    BY <1>1, <1>2, Unwritten DEF Grows
  <1>4. StoreTypes'
    BY <1>1, <1>2, FaultCounts DEF StoreTypes
  <1>5. queue' \in Seq(SUBSET Memories) /\ Len(queue') <= QueueCapacity /\ Len(queue') = 0
    BY LimitsAssumption DEF Crash
  <1>6. QueueTypes' /\ StoredInv'
    BY <1>1, <1>2, <1>5 DEF Crash, QueueTypes, StoredInv
  <1>7. Resting'
    BY <1>1, IdleRests, PTL
  <1> QED BY <1>3, <1>4, <1>6, <1>7 DEF Inv, Resting

LEMMA InvInit == Init => Inv
  <1> SUFFICES ASSUME Init
               PROVE  Inv
    OBVIOUS
  <1>1. StoreTypes
    BY LimitsAssumption DEF Init, StoreTypes
  <1>2. queue \in Seq(SUBSET Memories) /\ Len(queue) <= QueueCapacity /\ Len(queue) = 0
    BY LimitsAssumption DEF Init
  <1>3. QueueTypes /\ StoredInv
    BY <1>2 DEF Init, QueueTypes, StoredInv
  <1>4. DOMAIN memories = {}
    BY DEF Init
  <1>5. memories = [m \in DOMAIN memories |-> memories[m]]
    BY DEF Init
  <1>6. MemoryInv
    BY <1>4, <1>5 DEF MemoryInv
  <1> QED BY <1>1, <1>3, <1>6, IdleRests DEF Inv, Init, Resting

LEMMA InvNext == Inv /\ [Next]_vars => Inv'
  <1> SUFFICES ASSUME Inv, [Next]_vars
               PROVE  Inv'
    OBVIOUS
  <1>1. ASSUME NEW p \in Producers, Produce(p)
        PROVE  Inv'
    BY <1>1, StoreInv, EnqueueInv, PushInv DEF Produce
  <1>2. ASSUME NEW w \in Workers, Work(w)
        PROVE  Inv'
    BY <1>2, TakeInv, RefineInv, MarkInv, DedupeInv, MergeInv, ConflictInv, ResolveInv,
       GroupSuccessInv, GroupFailureInv, DecideInv DEF Work
  <1>3. CASE UNCHANGED vars
    <2>1. UNCHANGED <<memories, refined, patterns, queue, pending, stage, batch, workers, faults, excused>>
      BY <1>3 DEF vars, producers
    <2>2. Grows /\ MemoryInv' /\ StoreTypes' /\ QueueTypes' /\ StoredInv'
      BY <2>1, Unwritten DEF Inv, Grows, StoreTypes, QueueTypes, StoredInv
    <2> QED BY <2>1, <2>2, WorkersRest
  <1> QED BY <1>1, <1>2, <1>3, ScanInv, CrashInv DEF Next

LEMMA InvHolds == Spec => []Inv
  BY InvInit, InvNext, PTL DEF Spec

\* Every variable keeps its type: marks name memories and pairs of a success
\* and a failure, the queue keeps its capacity and no batch is tried more than
\* maxMemoryRefineAttempts times.
THEOREM RefinementTypes == Spec => []TypeOK
  <1>1. ASSUME Inv
        PROVE  TypeOK
    <2>1. memories \in [DOMAIN memories -> Entry] /\ DOMAIN memories \in SUBSET Memories
      BY <1>1 DEF Inv, MemoryInv
    <2>2. \E S \in SUBSET Memories : memories \in [S -> Entry]
      BY <2>1
    <2>3. /\ job \in [Workers -> SUBSET Memories] /\ todo \in [Workers -> SUBSET Memories]
          /\ attempt \in [Workers -> 0..MaxAttempts] /\ failed \in [Workers -> BOOLEAN]
      BY <1>1, <2>1 DEF Inv, PointInv, WorkerShape
    <2>4. pc \in [Workers -> {"idle", "refine", "mark", "dedupe", "merge", "conflict", "resolve",
                              "groupSuccess", "groupFailure", "decide"}]
      BY <1>1 DEF Inv, PointInv, WorkerShape
    <2> QED BY <1>1, <2>2, <2>3, <2>4 DEF TypeOK, Inv, StoreTypes, QueueTypes
  <1> QED BY <1>1, InvHolds, PTL

\* A memory marked as refined has a refined copy in the store and a memory of a
\* conflict group the resolved pattern of that group, for any number of memory
\* workers that write back copies read at any earlier time, and whatever call or
\* process fails between the writes.
THEOREM MarksHaveSources == Spec => []MarksHaveSource
  <1>1. Inv => MarksHaveSource
    BY DEF Inv, MemoryInv, Sourced, MarksHaveSource
  <1> QED BY <1>1, InvHolds, PTL

-----------------------------------------------------------------------------
(* The accounting of the queue.  QueuedOnce is about the set of batches    *)
(* under way; the invariant names the three places a batch can be in, and  *)
(* adds that a worker without work holds none.                             *)

InQueue(m) == \E i \in 1..Len(queue) : m \in queue[i]
InWork(m) == \E w \in Workers : m \in job[w]
Pushed(p, m) == stage[p] = "push" /\ m \in batch[p]
InPush(m) == \E p \in Producers : Pushed(p, m)

PendingInv == \A m \in Memories : m \in pending <=> InQueue(m) \/ InWork(m) \/ InPush(m)

OnceInv ==
  /\ \A i, j \in 1..Len(queue) : i # j => queue[i] \cap queue[j] = {}
  /\ \A w, v \in Workers : w # v => job[w] \cap job[v] = {}
  /\ \A p, q \in Producers : \A m \in Memories : p # q => ~(Pushed(p, m) /\ Pushed(q, m))
  /\ \A m \in Memories : /\ ~(InQueue(m) /\ InWork(m)) /\ ~(InQueue(m) /\ InPush(m))
                         /\ ~(InWork(m) /\ InPush(m))

RestInv == \A w \in Workers : pc[w] = "idle" => job[w] = {}

QueueInv == PendingInv /\ OnceInv /\ RestInv

\* Most steps move no batch.
LEMMA BatchesStay ==
  ASSUME QueueInv, UNCHANGED <<queue, pending, job>>,
         \A p \in Producers : /\ stage'[p] = "push" <=> stage[p] = "push"
                              /\ stage'[p] = "push" => batch'[p] = batch[p],
         \A w \in Workers : pc'[w] = "idle" => pc[w] = "idle"
  PROVE  QueueInv'
  <1>1. \A m : /\ InQueue(m)' <=> InQueue(m)
               /\ InWork(m)' <=> InWork(m)
    BY DEF InQueue, InWork
  <1>2. \A p \in Producers : \A m : Pushed(p, m)' <=> Pushed(p, m)
    BY DEF Pushed
  <1>3. \A m : InPush(m)' <=> InPush(m)
    BY <1>2 DEF InPush
  <1>4. PendingInv'
    BY <1>1, <1>3 DEF QueueInv, PendingInv
  <1>5. OnceInv'
    BY <1>1, <1>2, <1>3 DEF QueueInv, OnceInv
  <1>6. RestInv'
    BY DEF QueueInv, RestInv
  <1> QED BY <1>4, <1>5, <1>6 DEF QueueInv

LEMMA TakeOnce ==
  ASSUME Inv, QueueInv, NEW w \in Workers, Take(w)
  PROVE  QueueInv'
  <1>1. /\ UNCHANGED <<pending, stage, batch>> /\ queue # <<>> /\ queue' = Tail(queue)
        /\ job' = [job EXCEPT ![w] = Head(queue)] /\ pc' = [pc EXCEPT ![w] = "refine"]
        /\ pc[w] = "idle"
    BY DEF Take, Goto, producers
  <1>2. /\ queue \in Seq(SUBSET Memories) /\ WorkerShape
    BY DEF Inv, QueueTypes
  <1>3. /\ Len(queue') = Len(queue) - 1 /\ Len(queue) \in Nat \ {0} /\ Head(queue) = queue[1]
        /\ \A i \in 1..Len(queue') : queue'[i] = queue[i + 1] /\ i + 1 \in 1..Len(queue)
    BY <1>1, <1>2
  <1>4. \A m : InQueue(m) <=> m \in queue[1] \/ InQueue(m)'
    <2>1. ASSUME NEW m, NEW i \in 1..Len(queue), m \in queue[i], m \notin queue[1]
          PROVE  InQueue(m)'
      <3>1. i - 1 \in 1..Len(queue') /\ queue'[i - 1] = queue[i]
        BY <1>3, <2>1
      <3> QED BY <2>1, <3>1 DEF InQueue
    <2>2. ASSUME NEW m, InQueue(m)'
          PROVE  InQueue(m)
      BY <1>3, <2>2 DEF InQueue
    <2>3. ASSUME NEW m, m \in queue[1]
          PROVE  InQueue(m)
      BY <1>3, <2>3 DEF InQueue
    <2> QED BY <2>1, <2>2, <2>3 DEF InQueue
  <1>5. /\ job[w] = {} /\ job'[w] = queue[1]
        /\ \A v \in Workers \ {w} : job'[v] = job[v]
    BY <1>1, <1>2, <1>3 DEF QueueInv, RestInv, WorkerShape
  <1>6. \A m : InWork(m)' <=> m \in queue[1] \/ InWork(m)
    BY <1>5 DEF InWork
  <1>7. \A m : InPush(m)' <=> InPush(m)
    BY <1>1 DEF InPush, Pushed
  <1>8. \A p, m : Pushed(p, m)' <=> Pushed(p, m)
    BY <1>1 DEF Pushed
  <1>9. PendingInv'
    BY <1>1, <1>4, <1>6, <1>7 DEF QueueInv, PendingInv
  <1>10. ASSUME NEW i \in 1..Len(queue'), NEW j \in 1..Len(queue'), i # j
         PROVE  queue'[i] \cap queue'[j] = {}
    <2>1. i + 1 # j + 1 /\ i + 1 \in 1..Len(queue) /\ j + 1 \in 1..Len(queue)
      BY <1>3, <1>10
    <2>2. queue[i + 1] \cap queue[j + 1] = {}
      BY <2>1 DEF QueueInv, OnceInv
    <2> QED BY <1>3, <2>2
  <1>11. \A m \in Memories : InQueue(m)' => m \notin queue[1]
    <2>1. ASSUME NEW m \in Memories, NEW i \in 1..Len(queue'), m \in queue'[i], m \in queue[1]
          PROVE  FALSE
      <3>1. i + 1 # 1 /\ i + 1 \in 1..Len(queue) /\ m \in queue[i + 1] /\ 1 \in 1..Len(queue)
        BY <1>3, <2>1
      <3> QED BY <2>1, <3>1 DEF QueueInv, OnceInv
    <2> QED BY <2>1 DEF InQueue
  <1>12. \A u, v \in Workers : u # v => job'[u] \cap job'[v] = {}
    <2>1. \A v \in Workers \ {w} : job'[w] \cap job'[v] = {}
      <3>1. ASSUME NEW v \in Workers \ {w}, NEW m \in job'[w] \cap job'[v]
            PROVE  FALSE
        <4>1. InQueue(m) /\ InWork(m) /\ m \in Memories
          BY <1>2, <1>3, <1>4, <1>5, <3>1 DEF InWork
        <4> QED BY <4>1 DEF QueueInv, OnceInv
      <3> QED BY <3>1
    <2> QED BY <1>5, <2>1 DEF QueueInv, OnceInv
  <1>13. \A m \in Memories : /\ ~(InQueue(m)' /\ InWork(m)') /\ ~(InQueue(m)' /\ InPush(m)')
                             /\ ~(InWork(m)' /\ InPush(m)')
    BY <1>4, <1>6, <1>7, <1>11 DEF QueueInv, OnceInv
  <1>14. OnceInv'
    BY <1>8, <1>10, <1>12, <1>13 DEF QueueInv, OnceInv
  <1>15. RestInv'
    BY <1>1, <1>2, <1>5 DEF QueueInv, RestInv, WorkerShape
  <1> QED BY <1>9, <1>14, <1>15 DEF QueueInv

LEMMA DecideOnce ==
  ASSUME Inv, QueueInv, NEW w \in Workers, Decide(w)
  PROVE  QueueInv'
  <1>1. UNCHANGED <<queue, stage, batch>> /\ WorkerShape
    BY DEF Decide, producers, Inv
  <1>2. CASE Phase(w, "refine") /\ UNCHANGED <<job, pending>>
    BY <1>1, <1>2, NewPhase, BatchesStay
  <1>3. CASE /\ pending' = pending \ job[w] /\ job' = [job EXCEPT ![w] = {}]
             /\ pc' = [pc EXCEPT ![w] = "idle"]
    <2>1. job'[w] = {} /\ \A v \in Workers \ {w} : job'[v] = job[v]
      BY <1>1, <1>3 DEF WorkerShape
    <2>2. \A m \in Memories : InWork(m)' <=> InWork(m) /\ m \notin job[w]
      BY <2>1 DEF InWork, QueueInv, OnceInv
    <2>3. \A m : (InQueue(m)' <=> InQueue(m)) /\ (InPush(m)' <=> InPush(m))
      BY <1>1 DEF InQueue, InPush, Pushed
    <2>4. \A p, m : Pushed(p, m)' <=> Pushed(p, m)
      BY <1>1 DEF Pushed
    <2>5. \A m \in Memories : m \in job[w] => InWork(m) /\ ~InQueue(m) /\ ~InPush(m)
      BY DEF InWork, QueueInv, OnceInv
    <2>6. PendingInv'
      BY <1>3, <2>2, <2>3, <2>5 DEF QueueInv, PendingInv
    <2>7. OnceInv'
      BY <1>1, <2>1, <2>2, <2>3, <2>4 DEF QueueInv, OnceInv
    <2>8. RestInv'
      BY <1>1, <1>3, <2>1 DEF QueueInv, RestInv, WorkerShape
    <2> QED BY <2>6, <2>7, <2>8 DEF QueueInv
  <1> QED BY <1>2, <1>3 DEF Decide, Goto

\* Only what is not pending is marked, so a new batch meets no other.
LEMMA EnqueueOnce ==
  ASSUME Inv, QueueInv, NEW p \in Producers, Enqueue(p)
  PROVE  QueueInv'
  <1>1. /\ UNCHANGED <<queue, job, pc>> /\ stage[p] = "enqueue"
        /\ pending' = pending \cup Fresh(p) /\ batch' = [batch EXCEPT ![p] = Fresh(p)]
        /\ stage' = [stage EXCEPT ![p] = IF Fresh(p) = {} THEN "done" ELSE "push"]
    BY DEF Enqueue, workers
  <1>2. /\ batch \in [Producers -> SUBSET Memories]
        /\ stage \in [Producers -> {"ready", "store", "enqueue", "push", "done"}]
    BY DEF Inv, QueueTypes
  <1>3. \A m : (InQueue(m)' <=> InQueue(m)) /\ (InWork(m)' <=> InWork(m))
    BY <1>1 DEF InQueue, InWork
  <1>4. Fresh(p) \subseteq Memories /\ \A m \in Fresh(p) : m \notin pending
    BY <1>2 DEF Fresh
  <1>5. \A m : Pushed(p, m)' <=> m \in Fresh(p)
    BY <1>1, <1>2 DEF Pushed
  <1>6. \A q \in Producers \ {p} : \A m : Pushed(q, m)' <=> Pushed(q, m)
    BY <1>1, <1>2 DEF Pushed
  <1>7. \A m : ~Pushed(p, m)
    BY <1>1 DEF Pushed
  <1>8. \A m : InPush(m)' <=> m \in Fresh(p) \/ InPush(m)
    BY <1>5, <1>6, <1>7 DEF InPush
  <1>9. PendingInv'
    BY <1>1, <1>3, <1>8 DEF QueueInv, PendingInv
  <1>10. \A m \in Fresh(p) : ~InQueue(m) /\ ~InWork(m) /\ ~InPush(m)
    BY <1>4 DEF QueueInv, PendingInv
  <1>11. \A q \in Producers : \A m \in Fresh(p) : ~Pushed(q, m)
    BY <1>10 DEF InPush
  <1>12. \A q, r \in Producers : \A m \in Memories : q # r => ~(Pushed(q, m)' /\ Pushed(r, m)')
    BY <1>5, <1>6, <1>11 DEF QueueInv, OnceInv
  <1>13. \A m \in Memories : /\ ~(InQueue(m)' /\ InWork(m)') /\ ~(InQueue(m)' /\ InPush(m)')
                             /\ ~(InWork(m)' /\ InPush(m)')
    BY <1>3, <1>8, <1>10 DEF QueueInv, OnceInv
  <1>14. OnceInv'
    BY <1>1, <1>12, <1>13 DEF QueueInv, OnceInv
  <1>15. RestInv'
    BY <1>1 DEF QueueInv, RestInv
  <1> QED BY <1>9, <1>14, <1>15 DEF QueueInv

\* A batch moves into the queue whole, or is pending no more.
LEMMA PushOnce ==
  ASSUME Inv, QueueInv, NEW p \in Producers, Push(p)
  PROVE  QueueInv'
  <1>1. /\ UNCHANGED <<job, pc>> /\ stage[p] = "push"
        /\ stage' = [stage EXCEPT ![p] = "done"] /\ batch' = [batch EXCEPT ![p] = {}]
    BY DEF Push, workers
  <1>2. /\ queue \in Seq(SUBSET Memories) /\ batch \in [Producers -> SUBSET Memories]
        /\ stage \in [Producers -> {"ready", "store", "enqueue", "push", "done"}]
    BY DEF Inv, QueueTypes
  <1>3. \A m : Pushed(p, m) <=> m \in batch[p]
    BY <1>1 DEF Pushed
  <1>4. \A m : ~Pushed(p, m)'
    BY <1>1, <1>2 DEF Pushed
  <1>5. \A q \in Producers \ {p} : \A m : Pushed(q, m)' <=> Pushed(q, m)
    BY <1>1, <1>2 DEF Pushed
  <1>6. \A m \in Memories : InPush(m)' <=> InPush(m) /\ m \notin batch[p]
    BY <1>3, <1>4, <1>5 DEF InPush, QueueInv, OnceInv
  <1>7. \A m : InWork(m)' <=> InWork(m)
    BY <1>1 DEF InWork
  <1>8. \A m \in Memories : m \in batch[p] => InPush(m) /\ ~InQueue(m) /\ ~InWork(m)
    BY <1>3 DEF InPush, QueueInv, OnceInv
  <1>9. \A q, r \in Producers : \A m \in Memories : q # r => ~(Pushed(q, m)' /\ Pushed(r, m)')
    BY <1>4, <1>5 DEF QueueInv, OnceInv
  <1>10. RestInv'
    BY <1>1 DEF QueueInv, RestInv
  <1>11. CASE queue' = Append(queue, batch[p]) /\ UNCHANGED pending
    <2>1. /\ Len(queue') = Len(queue) + 1 /\ Len(queue) \in Nat /\ queue'[Len(queue')] = batch[p]
          /\ \A i \in 1..Len(queue) : queue'[i] = queue[i]
      BY <1>2, <1>11
    <2>2. \A m : InQueue(m)' <=> m \in batch[p] \/ InQueue(m)
      <3>1. ASSUME NEW m, NEW i \in 1..Len(queue'), m \in queue'[i], m \notin batch[p]
            PROVE  InQueue(m)
        <4>1. i \in 1..Len(queue)
          BY <2>1, <3>1
        <4> QED BY <2>1, <3>1, <4>1 DEF InQueue
      <3>2. ASSUME NEW m, InQueue(m)
            PROVE  InQueue(m)'
        BY <2>1, <3>2 DEF InQueue
      <3>3. ASSUME NEW m, m \in batch[p]
            PROVE  InQueue(m)'
        <4>1. Len(queue') \in 1..Len(queue')
          BY <2>1
        <4> QED BY <2>1, <3>3, <4>1 DEF InQueue
      <3> QED BY <3>1, <3>2, <3>3 DEF InQueue
    <2>3. PendingInv'
      BY <1>6, <1>7, <1>8, <1>11, <2>2 DEF QueueInv, PendingInv
    <2>4. \A i, j \in 1..Len(queue') : i # j => queue'[i] \cap queue'[j] = {}
      <3>1. \A i \in 1..Len(queue) : queue[i] \cap batch[p] = {}
        BY <1>2, <1>8 DEF InQueue
      <3>2. \A i \in 1..Len(queue') : i \in 1..Len(queue) \/ i = Len(queue')
        BY <2>1
      <3> QED BY <2>1, <3>1, <3>2 DEF QueueInv, OnceInv
    <2>5. \A m \in Memories : /\ ~(InQueue(m)' /\ InWork(m)') /\ ~(InQueue(m)' /\ InPush(m)')
                              /\ ~(InWork(m)' /\ InPush(m)')
      BY <1>6, <1>7, <1>8, <2>2 DEF QueueInv, OnceInv
    <2>6. OnceInv'
      BY <1>1, <1>9, <2>4, <2>5 DEF QueueInv, OnceInv
    <2> QED BY <1>10, <2>3, <2>6 DEF QueueInv
  <1>12. CASE pending' = pending \ batch[p] /\ UNCHANGED queue
    <2>1. \A m : InQueue(m)' <=> InQueue(m)
      BY <1>12 DEF InQueue
    <2>2. PendingInv'
      BY <1>6, <1>7, <1>8, <1>12, <2>1 DEF QueueInv, PendingInv
    <2>3. OnceInv'
      BY <1>1, <1>6, <1>7, <1>9, <1>12, <2>1 DEF QueueInv, OnceInv
    <2> QED BY <1>10, <2>2, <2>3 DEF QueueInv
  <1> QED BY <1>11, <1>12 DEF Push

LEMMA CrashOnce ==
  ASSUME QueueInv, Crash
  PROVE  QueueInv'
  <1>1. /\ Len(queue') = 0 /\ pending' = {} /\ \A w \in Workers : job'[w] = {}
        /\ \A p \in Producers : batch'[p] = {}
    BY DEF Crash
  <1>2. \A m : ~InQueue(m)' /\ ~InWork(m)' /\ ~InPush(m)'
    BY <1>1 DEF InQueue, InWork, InPush, Pushed
  <1>3. \A p \in Producers : \A m : ~Pushed(p, m)'
    BY <1>1 DEF Pushed
  <1>4. PendingInv' /\ RestInv'
    BY <1>1, <1>2 DEF PendingInv, RestInv
  <1>5. OnceInv'
    BY <1>1, <1>2, <1>3 DEF OnceInv
  <1> QED BY <1>4, <1>5 DEF QueueInv

LEMMA QueueInit == Init => QueueInv
  <1> SUFFICES ASSUME Init
               PROVE  QueueInv
    OBVIOUS
  <1>1. /\ Len(queue) = 0 /\ pending = {} /\ \A w \in Workers : job[w] = {}
        /\ \A p \in Producers : batch[p] = {}
    BY DEF Init, Idle
  <1>2. \A m : ~InQueue(m) /\ ~InWork(m) /\ ~InPush(m)
    BY <1>1 DEF InQueue, InWork, InPush, Pushed
  <1>3. \A p \in Producers : \A m : ~Pushed(p, m)
    BY <1>1 DEF Pushed
  <1>4. PendingInv /\ RestInv
    BY <1>1, <1>2 DEF PendingInv, RestInv
  <1>5. OnceInv
    BY <1>1, <1>2, <1>3 DEF OnceInv
  <1> QED BY <1>4, <1>5 DEF QueueInv

\* A worker inside a batch keeps it; it goes idle only by deciding.
LEMMA VisitOnce ==
  ASSUME Inv, QueueInv, NEW w \in Workers,
         \/ Refine(w) \/ Mark(w) \/ Dedupe(w) \/ Merge(w)
         \/ Conflict(w) \/ Resolve(w) \/ GroupSuccess(w) \/ GroupFailure(w)
  PROVE  QueueInv'
  <1>1. pending' = pending /\ Hold
    BY DEF Refine, Mark, Dedupe, Merge, Conflict, Visit, Resolve, GroupSuccess, GroupFailure
  <1>2. WorkerShape
    BY DEF Inv
  <1>3. \E p \in {"refine", "mark", "dedupe", "merge", "conflict", "resolve",
                  "groupSuccess", "groupFailure", "decide"} : Goto(w, p)
    BY DEF Refine, Mark, Dedupe, Merge, Conflict, Visit, Resolve, GroupSuccess, GroupFailure,
           NextVisit, Phase, NextCandidate
  <1>4. \A v \in Workers : pc'[v] = "idle" => pc[v] = "idle"
    BY <1>2, <1>3 DEF Goto, WorkerShape
  <1>5. UNCHANGED <<queue, stage, batch, job>>
    BY <1>1 DEF Hold, producers
  <1> QED BY <1>1, <1>4, <1>5, BatchesStay

LEMMA QueueNext == Inv /\ QueueInv /\ [Next]_vars => QueueInv'
  <1> SUFFICES ASSUME Inv, QueueInv, [Next]_vars
               PROVE  QueueInv'
    OBVIOUS
  <1>1. /\ stage \in [Producers -> {"ready", "store", "enqueue", "push", "done"}]
        /\ batch \in [Producers -> SUBSET Memories] /\ Recovery \in Producers
    BY DEF Inv, QueueTypes, Producers
  <1>2. ASSUME NEW p \in Producers, Store(p)
        PROVE  QueueInv'
    <2>1. UNCHANGED <<queue, pending, job, pc>> /\ stage[p] # "push" /\ stage'[p] # "push"
      BY <1>1, <1>2 DEF Store, workers
    <2>2. \A q \in Producers \ {p} : stage'[q] = stage[q] /\ batch'[q] = batch[q]
      BY <1>1, <1>2 DEF Store
    <2> QED BY <2>1, <2>2, BatchesStay
  <1>3. CASE Scan
    <2>1. /\ UNCHANGED <<queue, pending, job, pc>>
          /\ stage[Recovery] # "push" /\ stage'[Recovery] # "push"
      BY <1>1, <1>3 DEF Scan, workers
    <2>2. \A q \in Producers \ {Recovery} : stage'[q] = stage[q] /\ batch'[q] = batch[q]
      BY <1>1, <1>3 DEF Scan
    <2> QED BY <2>1, <2>2, BatchesStay
  <1>4. CASE UNCHANGED vars
    BY <1>4, BatchesStay DEF vars, producers, workers
  <1>5. ASSUME NEW w \in Workers, Work(w)
        PROVE  QueueInv'
    BY <1>5, TakeOnce, VisitOnce, DecideOnce DEF Work
  <1>6. ASSUME NEW p \in Producers, Produce(p)
        PROVE  QueueInv'
    BY <1>2, <1>6, EnqueueOnce, PushOnce DEF Produce
  <1> QED BY <1>3, <1>4, <1>5, <1>6, CrashOnce DEF Next

\* The named places are the batches of QueuedOnce.
LEMMA QueueInvMeans ==
  ASSUME Inv, QueueInv
  PROVE  QueuedOnce
  <1>1. /\ queue \in Seq(SUBSET Memories) /\ batch \in [Producers -> SUBSET Memories]
        /\ pending \subseteq Memories /\ \A w \in Workers : job[w] \subseteq Memories
    BY DEF Inv, QueueTypes, PointInv, MemoryInv
  <1>2. \A b \in Batches :
          \/ \E i \in 1..Len(queue) : b = <<"queue", i, queue[i]>>
          \/ \E w \in Workers : b = <<"worker", w, job[w]>>
          \/ \E p \in Producers : stage[p] = "push" /\ b = <<"push", p, batch[p]>>
    BY DEF Batches
  <1>3. /\ \A i \in 1..Len(queue) : <<"queue", i, queue[i]>> \in Batches
        /\ \A w \in Workers : <<"worker", w, job[w]>> \in Batches
        /\ \A p \in Producers : stage[p] = "push" => <<"push", p, batch[p]>> \in Batches
    BY DEF Batches
  <1>4. \A b \in Batches : \A m \in b[3] : m \in Memories
    BY <1>1, <1>2
  <1>5. pending = UNION {b[3] : b \in Batches}
    <2>1. ASSUME NEW m \in pending
          PROVE  \E b \in Batches : m \in b[3]
      <3>1. InQueue(m) \/ InWork(m) \/ InPush(m)
        BY <1>1, <2>1 DEF QueueInv, PendingInv
      <3> QED BY <1>3, <3>1 DEF InQueue, InWork, InPush, Pushed
    <2>2. ASSUME NEW b \in Batches, NEW m \in b[3]
          PROVE  m \in pending
      <3>1. InQueue(m) \/ InWork(m) \/ InPush(m)
        BY <1>2 DEF InQueue, InWork, InPush, Pushed
      <3> QED BY <1>4, <3>1 DEF QueueInv, PendingInv
    <2> QED BY <2>1, <2>2
  <1>6. ASSUME NEW b \in Batches, NEW c \in Batches, b # c, NEW m \in b[3] \cap c[3]
        PROVE  FALSE
    <2>1. m \in Memories
      BY <1>4
    <2>2. ASSUME NEW i \in 1..Len(queue), b = <<"queue", i, queue[i]>>
          PROVE  FALSE
      <3>1. InQueue(m)
        BY <2>2 DEF InQueue
      <3>2. ~InWork(m) /\ ~InPush(m)
        BY <2>1, <3>1 DEF QueueInv, OnceInv
      <3>3. PICK j \in 1..Len(queue) : c = <<"queue", j, queue[j]>>
        BY <1>2, <3>2 DEF InWork, InPush, Pushed
      <3>4. i # j /\ m \in queue[i] \cap queue[j]
        BY <1>6, <2>2, <3>3
      <3> QED BY <3>4 DEF QueueInv, OnceInv
    <2>3. ASSUME NEW w \in Workers, b = <<"worker", w, job[w]>>
          PROVE  FALSE
      <3>1. InWork(m)
        BY <2>3 DEF InWork
      <3>2. ~InQueue(m) /\ ~InPush(m)
        BY <2>1, <3>1 DEF QueueInv, OnceInv
      <3>3. PICK v \in Workers : c = <<"worker", v, job[v]>>
        BY <1>2, <3>2 DEF InQueue, InPush, Pushed
      <3>4. w # v /\ m \in job[w] \cap job[v]
        BY <1>6, <2>3, <3>3
      <3> QED BY <3>4 DEF QueueInv, OnceInv
    <2>4. ASSUME NEW p \in Producers, stage[p] = "push", b = <<"push", p, batch[p]>>
          PROVE  FALSE
      <3>1. Pushed(p, m) /\ InPush(m)
        BY <2>4 DEF InPush, Pushed
      <3>2. ~InQueue(m) /\ ~InWork(m)
        BY <2>1, <3>1 DEF QueueInv, OnceInv
      <3>3. PICK q \in Producers : stage[q] = "push" /\ c = <<"push", q, batch[q]>>
        BY <1>2, <3>2 DEF InQueue, InWork
      <3>4. p # q /\ Pushed(q, m)
        BY <1>6, <2>4, <3>3 DEF Pushed
      <3> QED BY <2>1, <3>1, <3>4 DEF QueueInv, OnceInv
    <2> QED BY <1>2, <2>2, <2>3, <2>4
  <1> QED BY <1>5, <1>6 DEF QueuedOnce

\* A memory is pushed, queued or processed in one place at a time and pending
\* exactly then, for any number of executions, memory workers and recoveries that
\* race for it, any capacity of the queue and any crashes.
THEOREM MemoriesQueuedOnce == Spec => []QueuedOnce
  <1>1. Inv /\ QueueInv => QueuedOnce
    BY QueueInvMeans
  <1> QED BY <1>1, InvInit, InvNext, QueueInit, QueueNext, PTL DEF Spec

-----------------------------------------------------------------------------
(* The marks, with one memory worker: what a worker has copied is what is  *)
(* stored, up to the marks it has written itself since.  With two workers  *)
(* this fails, and both properties with it.                                *)

OneWorker == \A v, w \in Workers : v = w

\* An execution stores memories that are new.
FreshInv ==
  \A p \in Executions :
    /\ stage[p] = "ready" => batch[p] = {} /\ Produces[p] \cap DOMAIN memories = {}
    /\ stage[p] = "store" => (Produces[p] \ batch[p]) \cap DOMAIN memories = {}

\* A copy of m that may be written back.
Faithful(m, copy) ==
  m \in DOMAIN memories /\ copy.refined = memories[m].refined /\ copy.dup = None

\* While a memory is merged, those it is still to be compared with are no
\* duplicates, and it is a duplicate of none but a visible one.
VisitedInv(w) ==
  /\ pc[w] \in Visiting =>
       /\ Faithful(mine[w].of, mine[w].copy) /\ mine[w].of \notin DOMAIN found[w]
       /\ \A c \in DOMAIN found[w] : Faithful(c, found[w][c])
  /\ pc[w] = "merge" =>
       /\ \A c \in DOMAIN found[w] : memories[c].dup = None
       /\ \/ memories[mine[w].of].dup = None
          \/ /\ memories[mine[w].of].dup \in DOMAIN memories \ DOMAIN found[w]
             /\ memories[memories[mine[w].of].dup].dup = None

MarksInv == FreshInv /\ DuplicatesAcyclic /\ \A w \in Workers : VisitedInv(w)

\* What MarksAreKept says of a step.
KeepsMarks ==
  \A m \in DOMAIN memories :
    /\ memories[m].refined => memories'[m].refined
    /\ Marked(memories[m]) => Marked(memories'[m]) \/ \E w \in Workers : pc[w] = "mark" /\ mine[w].of = m

\* Marks of duplicates that are removed or left make no circle.
LEMMA FewerLinks ==
  ASSUME MemoryInv, DuplicatesAcyclic, DOMAIN memories' \subseteq Memories,
         \A m \in DOMAIN memories' :
           memories'[m].dup = None \/ (m \in DOMAIN memories /\ memories'[m].dup = memories[m].dup)
  PROVE  DuplicatesAcyclic'
  <1> SUFFICES ASSUME NEW S \in SUBSET DOMAIN memories', S # {}
               PROVE  \E m \in S : memories'[m].dup \notin S
    BY DEF DuplicatesAcyclic
  <1>1. None \notin S
    BY KindsAssumption
  <1>2. CASE \E m \in S : memories'[m].dup = None
    BY <1>1, <1>2
  <1>3. CASE \A m \in S : memories'[m].dup # None
    <2>1. S \in SUBSET DOMAIN memories /\ \A m \in S : memories'[m].dup = memories[m].dup
      BY <1>3
    <2> QED BY <2>1 DEF DuplicatesAcyclic
  <1> QED BY <1>2, <1>3

\* A mark that points to a visible memory, or to a duplicate of another visible
\* memory, makes no circle.
LEMMA OneLink ==
  ASSUME MemoryInv, DuplicatesAcyclic, NEW s \in DOMAIN memories, NEW p, p # s,
         DOMAIN memories' = DOMAIN memories, memories'[s].dup = p,
         \A m \in DOMAIN memories : m # s => memories'[m].dup = memories[m].dup,
         \/ memories[p].dup = None
         \/ memories[p].dup # s /\ memories[memories[p].dup].dup = None
  PROVE  DuplicatesAcyclic'
  <1> SUFFICES ASSUME NEW S \in SUBSET DOMAIN memories', S # {}
               PROVE  \E m \in S : memories'[m].dup \notin S
    BY DEF DuplicatesAcyclic
  <1>1. None \notin S
    BY KindsAssumption DEF MemoryInv
  <1>2. CASE s \notin S
    BY <1>2 DEF DuplicatesAcyclic
  <1>3. CASE s \in S /\ p \notin S
    BY <1>3
  <1>4. CASE s \in S /\ p \in S
    <2>1. memories'[p].dup = memories[p].dup
      BY <1>4
    <2>2. CASE memories[p].dup \notin S
      BY <1>4, <2>1, <2>2
    <2>3. CASE memories[p].dup \in S
      <3>1. memories'[memories[p].dup].dup = None
        BY <1>1, <2>3
      <3> QED BY <1>1, <2>3, <3>1
    <2> QED BY <2>2, <2>3
  <1> QED BY <1>2, <1>3, <1>4

LEMMA WriteIs ==
  ASSUME MemoryInv, NEW m \in DOMAIN memories, NEW entry, Write(m, entry)
  PROVE  /\ DOMAIN memories' = DOMAIN memories /\ memories'[m] = entry
         /\ \A x \in DOMAIN memories : x # m => memories'[x] = memories[x]
  BY DEF Write, MemoryInv

\* A write of the only worker: what has to be shown of it.
LEMMA WriterStep ==
  ASSUME Inv, MarksInv, OneWorker, NEW w \in Workers, Hold, VisitedInv(w)', DuplicatesAcyclic',
         DOMAIN memories' = DOMAIN memories
  PROVE  MarksInv'
  <1>1. UNCHANGED <<stage, batch>>
    BY DEF Hold, producers
  <1>2. FreshInv'
    BY <1>1 DEF MarksInv, FreshInv
  <1>3. \A v \in Workers : VisitedInv(v)'
    BY DEF OneWorker
  <1> QED BY <1>2, <1>3 DEF MarksInv

LEMMA WriteKeeps ==
  ASSUME MemoryInv, NEW m \in DOMAIN memories, NEW entry, Write(m, entry),
         memories[m].refined => entry.refined,
         Marked(entry) \/ \E w \in Workers : pc[w] = "mark" /\ mine[w].of = m
  PROVE  KeepsMarks
  BY WriteIs DEF KeepsMarks

LEMMA NoWriteKeeps ==
  ASSUME UNCHANGED memories
  PROVE  KeepsMarks /\ (DuplicatesAcyclic => DuplicatesAcyclic')
  BY DEF KeepsMarks, DuplicatesAcyclic

-----------------------------------------------------------------------------
(* The steps of the only worker.                                           *)

\* Steps that store nothing and end no visit in the middle.
LEMMA RestingMarks ==
  ASSUME Inv, MarksInv, OneWorker, NEW w \in Workers, UNCHANGED memories, pc'[w] \notin Visiting,
         Hold \/ UNCHANGED producers
  PROVE  MarksInv' /\ KeepsMarks
  <1>1. UNCHANGED <<stage, batch>>
    BY DEF Hold, producers
  <1>2. VisitedInv(w)'
    BY DEF VisitedInv, Visiting
  <1>3. \A v \in Workers : VisitedInv(v)'
    BY <1>2 DEF OneWorker
  <1>4. FreshInv'
    BY <1>1 DEF MarksInv, FreshInv
  <1> QED BY <1>3, <1>4, NoWriteKeeps DEF MarksInv

LEMMA TakeMarks ==
  ASSUME Inv, MarksInv, OneWorker, NEW w \in Workers, Take(w) \/ Refine(w) \/ Decide(w)
  PROVE  MarksInv' /\ KeepsMarks
  <1>1. UNCHANGED memories /\ (Hold \/ UNCHANGED producers)
    BY DEF Take, Refine, Decide
  <1>2. pc'[w] \in {"idle", "refine", "dedupe", "mark"}
    BY DEF Take, Refine, Decide, Phase, NextVisit, Goto, Inv, WorkerShape
  <1> QED BY <1>1, <1>2, RestingMarks DEF Visiting

LEMMA MarkMarks ==
  ASSUME Inv, MarksInv, OneWorker, NEW w \in Workers, Mark(w)
  PROVE  MarksInv' /\ KeepsMarks
  <1>1. /\ Hold /\ pc[w] = "mark" /\ pc'[w] = "refine"
    BY DEF Mark, NextVisit, Goto, Inv, WorkerShape
  <1>2. CASE UNCHANGED memories
    BY <1>1, <1>2, RestingMarks DEF Visiting
  <1>3. CASE Write(mine[w].of, [Raw EXCEPT !.refined = TRUE])
    <2> DEFINE e == [Raw EXCEPT !.refined = TRUE]
    <2>1. e.refined = TRUE /\ e.dup = None
      BY DEF Raw
    <2> HIDE DEF e
    <2>2. DOMAIN memories' = DOMAIN memories
      BY <1>3 DEF Write
    <2>3. CASE mine[w].of \in DOMAIN memories
      <3>1. Write(mine[w].of, e)
        BY <1>3 DEF e
      <3>2. KeepsMarks
        BY <1>1, <2>1, <2>3, <3>1, WriteKeeps DEF Inv
      <3>3. /\ memories'[mine[w].of] = e
            /\ \A x \in DOMAIN memories : x # mine[w].of => memories'[x] = memories[x]
        BY <2>3, <3>1, WriteIs DEF Inv
      <3>4. DuplicatesAcyclic'
        BY <2>1, <2>2, <3>3, FewerLinks DEF Inv, MemoryInv, MarksInv
      <3>5. VisitedInv(w)'
        BY <1>1 DEF VisitedInv, Visiting
      <3> QED BY <1>1, <2>2, <3>2, <3>4, <3>5, WriterStep
    <2>4. CASE mine[w].of \notin DOMAIN memories
      <3>1. UNCHANGED memories
        BY <1>3, <2>4 DEF Write, Inv, MemoryInv
      <3> QED BY <1>2, <3>1
    <2> QED BY <2>3, <2>4
  <1> QED BY <1>2, <1>3 DEF Mark

\* A visit begins with copies of memories that have no mark.
LEMMA VisitMarks ==
  ASSUME Inv, MarksInv, OneWorker, NEW w \in Workers, NEW from \in {"dedupe", "conflict"},
         NEW to \in {"merge", "resolve"}, NEW next \in {"conflict", "decide"},
         NEW visited, NEW kind, Visit(w, from, to, next, visited, kind)
  PROVE  MarksInv' /\ KeepsMarks
  <1>1. Hold /\ UNCHANGED memories
    BY DEF Visit
  <1>2. CASE pc'[w] \notin Visiting
    BY <1>1, <1>2, RestingMarks
  <1>3. CASE pc'[w] \in Visiting
    <2>1. PICK m \in First(w) :
            /\ todo[w] # {} /\ ~Marked(CopyOf(m)) /\ Goto(w, to)
            /\ mine' = [mine EXCEPT ![w] = [of |-> m, copy |-> CopyOf(m), other |-> None]]
            /\ found' = [found EXCEPT ![w] = [c \in Candidates(m, kind[m]) |-> memories[c]]]
      BY <1>3 DEF Visit, Phase, NextVisit, Goto, Inv, WorkerShape, Visiting
    <2>2. m \in DOMAIN memories
      BY <2>1, FirstIsLeft DEF Inv, PointInv
    <2>3. /\ mine'[w].of = m /\ mine'[w].copy = memories[m] /\ DOMAIN found'[w] = Candidates(m, kind[m])
          /\ \A c \in Candidates(m, kind[m]) : found'[w][c] = memories[c]
      BY <2>1 DEF Inv, WorkerShape, CopyOf
    <2>4. memories[m].dup = None
      BY <2>1 DEF CopyOf, Marked
    <2>5. \A c \in Candidates(m, kind[m]) : c \in DOMAIN memories /\ c # m /\ memories[c].dup = None
      BY DEF Candidates, SimilarTo, Marked
    <2>6. VisitedInv(w)'
      BY <1>1, <2>2, <2>3, <2>4, <2>5 DEF VisitedInv, Faithful
    <2> QED BY <1>1, <2>6, WriterStep, NoWriteKeeps DEF MarksInv
  <1> QED BY <1>2, <1>3

\* Going on with the next candidate drops its copy.
LEMMA NextCandidateIs ==
  ASSUME Inv, NEW w \in Workers, NEW c, NEW q, NextCandidate(w, q, c)
  PROVE  /\ pc'[w] = q /\ mine'[w].of = mine[w].of /\ mine'[w].copy = mine[w].copy
         /\ DOMAIN found'[w] = DOMAIN found[w] \ {c}
         /\ \A x \in DOMAIN found'[w] : found'[w][x] = found[w][x]
  <1>1. mine[w] \in Visited
    BY DEF Inv, CopyInv
  <1> QED BY <1>1 DEF NextCandidate, Goto, Inv, WorkerShape, Visited

\* The weaker memory is written from its copy, with a mark that points to the
\* stronger one: that one is visible, or a duplicate of a visible one that is
\* not compared any more.
LEMMA MergeMarks ==
  ASSUME Inv, MarksInv, OneWorker, NEW w \in Workers, Merge(w)
  PROVE  MarksInv' /\ KeepsMarks
  <1> DEFINE m == mine[w].of
  <1>1. Hold /\ pc[w] = "merge" /\ VisitedInv(w) /\ CopyInv(w)
    BY DEF Merge, MarksInv, Inv
  <1>2. CASE NextVisit(w, "dedupe", mine[w].of) /\ UNCHANGED memories
    <2>1. pc'[w] = "dedupe"
      BY <1>2 DEF NextVisit, Goto, Inv, WorkerShape
    <2> QED BY <1>1, <1>2, <2>1, RestingMarks DEF Visiting
  <1>3. ASSUME NEW c \in DOMAIN found[w], NextCandidate(w, "merge", c), UNCHANGED memories
        PROVE  MarksInv' /\ KeepsMarks
    <2>1. VisitedInv(w)'
      BY <1>1, <1>3, NextCandidateIs DEF VisitedInv, Faithful, Visiting
    <2> QED BY <1>1, <1>3, <2>1, WriterStep, NoWriteKeeps DEF MarksInv
  <1>4. ASSUME NEW c \in DOMAIN found[w], NextCandidate(w, "merge", c),
               NEW p \in PickPrimary(mine[w].of, c),
               Write(p.secondary, [(IF p.secondary = mine[w].of THEN mine[w].copy ELSE found[w][c])
                                     EXCEPT !.dup = p.primary])
        PROVE  MarksInv' /\ KeepsMarks
    <2> DEFINE copy == IF p.secondary = m THEN mine[w].copy ELSE found[w][c]
               entry == [copy EXCEPT !.dup = p.primary]
    <2>0. PICK s, r : s = p.secondary /\ r = p.primary
      OBVIOUS
    <2>1. /\ m \in DOMAIN memories /\ c \in DOMAIN memories /\ m # c /\ m \notin DOMAIN found[w]
          /\ Faithful(m, mine[w].copy) /\ Faithful(c, found[w][c]) /\ memories[c].dup = None
          /\ \/ memories[m].dup = None
             \/ memories[m].dup \in DOMAIN memories \ DOMAIN found[w] /\ memories[memories[m].dup].dup = None
      BY <1>1, <1>4 DEF VisitedInv, Faithful, Visiting
    <2>2. (s = m /\ r = c) \/ (s = c /\ r = m)
      BY <2>0 DEF PickPrimary
    <2>3. copy \in Entry /\ copy.refined = memories[s].refined
      BY <1>1, <1>4, <2>0, <2>1, <2>2 DEF CopyInv, Visited, Faithful
    <2>4. Write(s, entry)
      BY <1>4, <2>0
    <2> HIDE DEF copy
    <2>5. entry.dup = r /\ entry.refined = memories[s].refined
      BY <2>0, <2>3 DEF Entry
    <2> HIDE DEF entry
    <2>6. s \in DOMAIN memories /\ r \in DOMAIN memories /\ s # r /\ r # None
      BY <2>1, <2>2, KindsAssumption DEF Inv, MemoryInv
    <2>7. KeepsMarks
      BY <2>4, <2>5, <2>6, WriteKeeps DEF Marked, Inv
    <2>8. /\ DOMAIN memories' = DOMAIN memories /\ memories'[s] = entry
          /\ \A x \in DOMAIN memories : x # s => memories'[x] = memories[x]
      BY <2>4, <2>6, WriteIs DEF Inv
    <2>9. \/ memories[r].dup = None
          \/ memories[r].dup # s /\ memories[memories[r].dup].dup = None
      BY <1>4, <2>1, <2>2
    <2>10. DuplicatesAcyclic'
      BY <2>5, <2>6, <2>8, <2>9, OneLink DEF Inv, MarksInv
    <2>11. /\ pc'[w] = "merge" /\ mine'[w].of = mine[w].of /\ mine'[w].copy = mine[w].copy
           /\ DOMAIN found'[w] = DOMAIN found[w] \ {c}
           /\ \A x \in DOMAIN found'[w] : found'[w][x] = found[w][x]
      BY <1>4, NextCandidateIs
    <2>12. Faithful(mine[w].of, mine[w].copy)' /\ \A x \in DOMAIN found'[w] : Faithful(x, found[w][x])'
      BY <1>1, <1>4, <2>1, <2>5, <2>8, <2>11 DEF VisitedInv, Faithful, Visiting
    <2>13. \A x \in DOMAIN found'[w] : memories'[x].dup = None
      BY <1>1, <2>1, <2>2, <2>8, <2>11 DEF VisitedInv, Faithful, Visiting
    <2>14. \/ memories'[m].dup = None
           \/ /\ memories'[m].dup \in DOMAIN memories' \ DOMAIN found'[w]
              /\ memories'[memories'[m].dup].dup = None
      <3>1. CASE s = m /\ r = c
        BY <2>1, <2>5, <2>8, <2>11, <3>1
      <3>2. CASE s = c /\ r = m
        BY <1>4, <2>1, <2>8, <2>11, <3>2
      <3> QED BY <2>2, <3>1, <3>2
    <2>15. VisitedInv(w)'
      BY <2>1, <2>11, <2>12, <2>13, <2>14 DEF VisitedInv
    <2> QED BY <1>1, <2>7, <2>8, <2>10, <2>15, WriterStep
  <1> QED BY <1>2, <1>3, <1>4 DEF Merge

LEMMA ResolveMarks ==
  ASSUME Inv, MarksInv, OneWorker, NEW w \in Workers, Resolve(w)
  PROVE  MarksInv' /\ KeepsMarks
  <1>1. Hold /\ pc[w] = "resolve" /\ VisitedInv(w) /\ CopyInv(w) /\ UNCHANGED memories
    BY DEF Resolve, MarksInv, Inv
  <1>2. CASE NextVisit(w, "conflict", mine[w].of)
    <2>1. pc'[w] = "conflict"
      BY <1>2 DEF NextVisit, Goto, Inv, WorkerShape
    <2> QED BY <1>1, <2>1, RestingMarks DEF Visiting
  <1>3. CASE \E f \in DOMAIN found[w] : NextCandidate(w, "resolve", f)
    <2>1. VisitedInv(w)'
      BY <1>1, <1>3, NextCandidateIs DEF VisitedInv, Faithful, Visiting
    <2> QED BY <1>1, <2>1, WriterStep, NoWriteKeeps DEF MarksInv
  <1>4. CASE \E f \in DOMAIN found[w] :
               mine' = [mine EXCEPT ![w].other = f] /\ Goto(w, "groupSuccess") /\ UNCHANGED <<todo, found>>
    <2>1. /\ mine'[w].of = mine[w].of /\ mine'[w].copy = mine[w].copy /\ found'[w] = found[w]
          /\ pc'[w] = "groupSuccess"
      BY <1>1, <1>4 DEF CopyInv, Visited, Goto, Inv, WorkerShape
    <2>2. VisitedInv(w)'
      BY <1>1, <2>1 DEF VisitedInv, Faithful, Visiting
    <2> QED BY <1>1, <2>2, WriterStep, NoWriteKeeps DEF MarksInv
  <1> QED BY <1>2, <1>3, <1>4 DEF Resolve

\* A conflict group is written to a memory that is no duplicate, from its copy.
LEMMA GroupWrite ==
  ASSUME Inv, MarksInv, OneWorker, NEW w \in Workers, Hold, pc[w] \in Grouping, pc'[w] \in Visiting \ {"merge"},
         NEW x \in DOMAIN memories, NEW copy \in Entry, Faithful(x, copy), NEW g, g # None,
         Write(x, [copy EXCEPT !.group = g]),
         mine'[w].of = mine[w].of, mine'[w].copy = mine[w].copy, DOMAIN found'[w] \subseteq DOMAIN found[w],
         \A c \in DOMAIN found'[w] : found'[w][c] = found[w][c]
  PROVE  MarksInv' /\ KeepsMarks
  <1> DEFINE entry == [copy EXCEPT !.group = g]
  <1>1. /\ entry.group = g /\ entry.refined = memories[x].refined /\ entry.dup = None
        /\ Write(x, entry)
    BY DEF Faithful, Entry
  <1> HIDE DEF entry
  <1>2. KeepsMarks
    BY <1>1, WriteKeeps DEF Marked, Inv
  <1>3. /\ DOMAIN memories' = DOMAIN memories /\ memories'[x] = entry
        /\ \A y \in DOMAIN memories : y # x => memories'[y] = memories[y]
    BY <1>1, WriteIs DEF Inv
  <1>4. DuplicatesAcyclic'
    BY <1>1, <1>3, FewerLinks DEF Inv, MemoryInv, MarksInv
  <1>5. VisitedInv(w) /\ pc[w] \in Visiting
    BY DEF MarksInv, Visiting, Grouping
  <1>6. VisitedInv(w)'
    BY <1>1, <1>3, <1>5 DEF VisitedInv, Faithful
  <1> QED BY <1>2, <1>3, <1>4, <1>6, WriterStep

LEMMA GroupMarks ==
  ASSUME Inv, MarksInv, OneWorker, NEW w \in Workers, GroupSuccess(w) \/ GroupFailure(w)
  PROVE  MarksInv' /\ KeepsMarks
  <1> DEFINE m == mine[w].of  f == mine[w].other
  <1>1. Hold /\ pc[w] \in Grouping /\ VisitedInv(w) /\ CopyInv(w)
    BY DEF GroupSuccess, GroupFailure, Grouping, MarksInv, Inv
  <1>2. /\ Faithful(m, mine[w].copy) /\ Faithful(f, found[w][f]) /\ <<m, f>> # None
        /\ m \in DOMAIN memories /\ f \in DOMAIN memories /\ mine[w].copy \in Entry /\ found[w][f] \in Entry
    <2>1. <<m, f>> # None
      BY <1>1, KindsAssumption DEF Grouping, CopyInv
    <2> QED BY <1>1, <2>1 DEF VisitedInv, CopyInv, Faithful, Visited, Visiting, Grouping
  <1>3. CASE NextCandidate(w, "resolve", f) /\ UNCHANGED memories
    <2>1. VisitedInv(w)'
      BY <1>1, <1>3, NextCandidateIs DEF VisitedInv, Faithful, Visiting, Grouping
    <2> QED BY <1>1, <1>3, <2>1, WriterStep, NoWriteKeeps DEF MarksInv
  <1>4. CASE Write(m, [mine[w].copy EXCEPT !.group = <<m, f>>]) /\ Goto(w, "groupFailure") /\ UNCHANGED visit
    <2>1. pc'[w] = "groupFailure" /\ UNCHANGED <<mine, found>>
      BY <1>4 DEF Goto, visit, Inv, WorkerShape
    <2> QED BY <1>1, <1>2, <1>4, <2>1, GroupWrite DEF Visiting
  <1>5. CASE Write(f, [found[w][f] EXCEPT !.group = <<m, f>>]) /\ NextCandidate(w, "resolve", f)
    <2>1. /\ pc'[w] = "resolve" /\ mine'[w].of = mine[w].of /\ mine'[w].copy = mine[w].copy
          /\ DOMAIN found'[w] \subseteq DOMAIN found[w] /\ \A x \in DOMAIN found'[w] : found'[w][x] = found[w][x]
      BY <1>5, NextCandidateIs
    <2> QED BY <1>1, <1>2, <1>5, <2>1, GroupWrite DEF Visiting
  <1> QED BY <1>3, <1>4, <1>5 DEF GroupSuccess, GroupFailure

-----------------------------------------------------------------------------
(* The other steps.                                                        *)

\* A step of no worker that leaves the stored memories alone.
LEMMA ProducerMarks ==
  ASSUME Inv, MarksInv, UNCHANGED <<memories, workers>>, FreshInv'
  PROVE  MarksInv' /\ KeepsMarks
  <1>1. \A w \in Workers : VisitedInv(w)'
    BY DEF MarksInv, VisitedInv, Faithful, workers, visit
  <1> QED BY <1>1, NoWriteKeeps DEF MarksInv

\* What is stored is new, so no copy and no mark is about it.
LEMMA StoreMarks ==
  ASSUME Inv, MarksInv, NEW p \in Producers, Store(p)
  PROVE  MarksInv' /\ KeepsMarks
  <1>1. /\ p \in Executions /\ stage[p] \in {"ready", "store"} /\ UNCHANGED workers
        /\ stage \in [Producers -> {"ready", "store", "enqueue", "push", "done"}]
        /\ batch \in [Producers -> SUBSET Memories] /\ Executions \subseteq Producers
    BY DEF Store, Inv, QueueTypes, Producers
  <1>2. CASE /\ UNCHANGED memories /\ stage' = [stage EXCEPT ![p] = "done"]
             /\ batch' = [batch EXCEPT ![p] = {}]
    <2>1. FreshInv'
      BY <1>1, <1>2 DEF MarksInv, FreshInv
    <2> QED BY <1>1, <1>2, <2>1, ProducerMarks
  <1>3. ASSUME NEW m \in Produces[p] \ batch[p],
               memories' = [x \in DOMAIN memories \cup {m} |-> IF x = m THEN Raw ELSE memories[x]],
               batch' = [batch EXCEPT ![p] = @ \cup {m}],
               stage' = [stage EXCEPT ![p] = IF Produces[p] \ batch[p] = {m} THEN "enqueue" ELSE "store"]
        PROVE  MarksInv' /\ KeepsMarks
    <2>1. m \in Memories /\ m \notin DOMAIN memories
      BY <1>1, <1>3, ProducesAssumption DEF MarksInv, FreshInv
    <2>2. /\ DOMAIN memories' = DOMAIN memories \cup {m} /\ memories'[m].dup = None
          /\ \A x \in DOMAIN memories : memories'[x] = memories[x]
      BY <1>3, <2>1 DEF Raw
    <2>3. KeepsMarks
      BY <2>2 DEF KeepsMarks
    <2>4. DuplicatesAcyclic'
      BY <2>1, <2>2, FewerLinks DEF Inv, MemoryInv, MarksInv
    <2>5. FreshInv'
      <3>1. ASSUME NEW q \in Executions \ {p}  PROVE m \notin Produces[q] /\ stage'[q] = stage[q] /\ batch'[q] = batch[q]
        BY <1>1, <1>3, ProducesAssumption
      <3>2. stage'[p] # "ready" /\ batch'[p] = batch[p] \cup {m} /\ (Produces[p] \ batch[p]) \cap DOMAIN memories = {}
        BY <1>1, <1>3 DEF MarksInv, FreshInv
      <3> QED BY <2>2, <3>1, <3>2 DEF MarksInv, FreshInv
    <2>6. ASSUME NEW w \in Workers  PROVE VisitedInv(w)'
      <3>1. UNCHANGED <<pc, mine, found>> /\ VisitedInv(w)
        BY <1>1 DEF workers, visit, MarksInv
      <3> QED BY <2>2, <3>1 DEF VisitedInv, Faithful, Visiting
    <2> QED BY <2>3, <2>4, <2>5, <2>6 DEF MarksInv
  <1> QED BY <1>2, <1>3 DEF Store

LEMMA OtherMarks ==
  ASSUME Inv, MarksInv, Scan \/ (\E p \in Producers : Enqueue(p) \/ Push(p)) \/ Crash
  PROVE  MarksInv' /\ KeepsMarks
  <1>1. /\ stage \in [Producers -> {"ready", "store", "enqueue", "push", "done"}]
        /\ batch \in [Producers -> SUBSET Memories] /\ Executions \subseteq Producers
        /\ Recovery \notin Executions
    BY ProducesAssumption DEF Inv, QueueTypes, Producers
  <1>2. CASE Scan
    <2>1. UNCHANGED <<memories, workers>> /\ \A q \in Executions : stage'[q] = stage[q] /\ batch'[q] = batch[q]
      BY <1>1, <1>2 DEF Scan
    <2>2. FreshInv'
      BY <2>1 DEF MarksInv, FreshInv
    <2> QED BY <2>1, <2>2, ProducerMarks
  <1>3. ASSUME NEW p \in Producers, Enqueue(p) \/ Push(p)
        PROVE  MarksInv' /\ KeepsMarks
    <2>1. /\ UNCHANGED <<memories, workers>> /\ stage'[p] \in {"done", "push"}
          /\ \A q \in Producers \ {p} : stage'[q] = stage[q] /\ batch'[q] = batch[q]
      BY <1>1, <1>3 DEF Enqueue, Push
    <2>2. FreshInv'
      BY <1>1, <2>1 DEF MarksInv, FreshInv
    <2> QED BY <2>1, <2>2, ProducerMarks
  <1>4. CASE Crash
    <2>1. FreshInv'
      BY <1>1, <1>4 DEF Crash, MarksInv, FreshInv
    <2>2. \A w \in Workers : VisitedInv(w)'
      BY <1>4 DEF Crash, VisitedInv, Visiting
    <2> QED BY <1>4, <2>1, <2>2, NoWriteKeeps DEF Crash, MarksInv
  <1> QED BY <1>2, <1>3, <1>4

LEMMA MarksNext ==
  ASSUME OneWorker
  PROVE  Inv /\ MarksInv /\ [Next]_vars => MarksInv' /\ KeepsMarks
  <1> SUFFICES ASSUME Inv, MarksInv, [Next]_vars  PROVE MarksInv' /\ KeepsMarks
    OBVIOUS
  <1>1. CASE UNCHANGED vars
    <2>1. FreshInv'
      BY <1>1 DEF vars, producers, MarksInv, FreshInv
    <2> QED BY <1>1, <2>1, ProducerMarks DEF vars
  <1>2. ASSUME NEW w \in Workers, Work(w)  PROVE MarksInv' /\ KeepsMarks
    <2>1. CASE Dedupe(w)
      <3>1. Visit(w, "dedupe", "merge", "conflict", Memories, SameKind)
        BY <2>1 DEF Dedupe
      <3> QED BY <3>1, VisitMarks
    <2>2. CASE Conflict(w)
      <3>1. Visit(w, "conflict", "resolve", "decide", Successes, [m \in Memories |-> Failures])
        BY <2>2 DEF Conflict
      <3> QED BY <3>1, VisitMarks
    <2> QED BY <1>2, <2>1, <2>2, TakeMarks, MarkMarks, MergeMarks, ResolveMarks, GroupMarks DEF Work
  <1> QED BY <1>1, <1>2, StoreMarks, OtherMarks DEF Next, Produce

LEMMA MarksInit == Init => MarksInv
  <1> SUFFICES ASSUME Init  PROVE MarksInv
    OBVIOUS
  <1>1. FreshInv
    BY DEF Init, FreshInv, Producers
  <1>2. DOMAIN memories = {}
    BY DEF Init
  <1>3. DuplicatesAcyclic
    BY <1>2 DEF DuplicatesAcyclic
  <1>4. \A w \in Workers : VisitedInv(w)
    BY DEF Init, Idle, VisitedInv, Visiting
  <1> QED BY <1>1, <1>3, <1>4 DEF MarksInv

\* With one memory worker the duplicates never point in a circle, though marks
\* are written from copies while memories of the same batch are marked.
THEOREM NoDuplicateCircle ==
  ASSUME OneWorker
  PROVE  Spec => []DuplicatesAcyclic
  <1>1. Inv /\ MarksInv /\ [Next]_vars => MarksInv'
    BY MarksNext
  <1>2. MarksInv => DuplicatesAcyclic
    BY DEF MarksInv
  <1> QED BY <1>1, <1>2, InvHolds, MarksInit, PTL DEF Spec

\* With one memory worker no write from a copy takes a mark away: a refined
\* memory stays refined, a duplicate or a member of a conflict group stays one
\* unless its own batch refines it.
THEOREM MarksKept ==
  ASSUME OneWorker
  PROVE  Spec => MarksAreKept
  <1>1. Inv /\ MarksInv /\ [Next]_vars => MarksInv'
    BY MarksNext
  <1>2. Inv /\ MarksInv /\ [Next]_vars =>
          [\A m \in DOMAIN memories :
             /\ memories[m].refined => memories'[m].refined
             /\ Marked(memories[m]) => Marked(memories'[m]) \/ \E w \in Workers : pc[w] = "mark" /\ mine[w].of = m]_vars
    BY MarksNext DEF KeepsMarks
  <1> QED BY <1>1, <1>2, InvHolds, MarksInit, PTL DEF Spec, MarksAreKept

=============================================================================

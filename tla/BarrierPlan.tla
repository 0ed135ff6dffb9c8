------------------------------ MODULE BarrierPlan ------------------------------
(***************************************************************************)
(* build_arena_barrier_plan of barrier_v2.py: which resource barriers go   *)
(* before which dispatch.  A page is a GPU buffer in one state at a time;  *)
(* dispatches between two barriers on a page may run in any order there,   *)
(* so every two dispatches that touch the same bytes, one of them writing, *)
(* need a barrier on their page between them.                              *)
(*                                                                         *)
(* A job is the stream of dispatches 1 .. Len(reads) with the arena values *)
(* each reads and writes, and where each value lives; fork is the dispatch *)
(* before a dual-queue window (0: no window) and hoist the pages the second*)
(* queue reads, each with the value the record names.                      *)
(***************************************************************************)
EXTENDS Integers, Sequences, FiniteSets

CONSTANT Jobs      \* the dispatch streams considered

IsJob(j) ==
  /\ j.reads \in Seq(SUBSET DOMAIN j.where) /\ j.writes \in Seq(SUBSET DOMAIN j.where)
  /\ Len(j.writes) = Len(j.reads)
  /\ \A v \in DOMAIN j.where : /\ v \in Nat
                               /\ j.where[v].page \in Nat
                               /\ j.where[v].lo \in Nat /\ j.where[v].hi \in Nat
                               /\ j.where[v].lo < j.where[v].hi

ASSUME BarrierAssumption == \A j \in Jobs : IsJob(j)

VARIABLES
  job,       \* the stream being planned
  next,      \* the dispatch to plan next
  state,     \* page_states: "COMMON", "SRV", "UAV"
  pending,   \* per page, <<dispatch, value>> written since the last barrier
  records,   \* the plan so far
  verdict    \* "planning", "planned", or the ValueError raised

barrierVars == <<job, next, state, pending, records, verdict>>

Count     == Len(job.reads)
ValuesOn(p) == {v \in DOMAIN job.where : job.where[v].page = p}
Pages     == {job.where[v].page : v \in DOMAIN job.where}
Reads(d, p)  == job.reads[d] \cap ValuesOn(p)
Writes(d, p) == job.writes[d] \cap ValuesOn(p)

Overlap(v, w) ==
  /\ job.where[v].page = job.where[w].page
  /\ job.where[v].lo < job.where[w].hi /\ job.where[w].lo < job.where[v].hi

NoValue == -1    \* before_value_id of a transition

\* A record; step tells the barriers of the dispatch's own accesses from the
\* hoist at the fork.  The plan is a set: its order in the engine is by
\* (dispatch, page), with "access" before "fork".
Record(d, p, kind, before, after, step) ==
  [dispatch |-> d, page |-> p, kind |-> kind, before |-> before, after |-> after, step |-> step]

Begin(j) ==
  /\ next = 1
  /\ state = [p \in {j.where[v].page : v \in DOMAIN j.where} |-> "COMMON"]
  /\ pending = [p \in {j.where[v].page : v \in DOMAIN j.where} |-> {}]
  /\ records = {} /\ verdict = "planning"

Init == job \in Jobs /\ Begin(job)

------------------------------------------------------------------------------
(* One dispatch                                                              *)

\* Writes of earlier dispatches, not yet followed by a barrier, whose bytes
\* the dispatch writes again.
Hazards(d, p) == {h \in pending[p] \X Writes(d, p) : Overlap(h[1][2], h[2])}

\* The hazard a record names: lowest current value, prior dispatch, prior value.
NamedBefore(h, g) ==
  \/ h[2] < g[2]
  \/ h[2] = g[2] /\ h[1][1] < g[1][1]
  \/ h[2] = g[2] /\ h[1][1] = g[1][1] /\ h[1][2] <= g[1][2]

NamedHazard(d, p) ==
  CHOOSE h \in Hazards(d, p) : \A g \in Hazards(d, p) : NamedBefore(h, g)

LeastId(S) == CHOOSE v \in S : \A w \in S : v <= w
Lowest(S)  == CHOOSE v \in S : \A w \in S : job.where[v].lo <= job.where[w].lo

\* (mutant of AccessRecords: an overwrite on a page that stays UAV has no barrier)
AccessRecordsNoReuse(d, p) ==
  CASE Reads(d, p) # {} /\ state[p] # "SRV" ->
         {Record(d, p, "SRV", NoValue, LeastId(Reads(d, p)), "access")}
    [] Reads(d, p) = {} /\ Writes(d, p) # {} /\ state[p] # "UAV" ->
         {Record(d, p, "UAV", NoValue, Lowest(Writes(d, p)), "access")}
    [] OTHER -> {}

\* The barrier a dispatch's own accesses need on a page; inputs and outputs
\* are on different pages.
AccessRecords(d, p) ==
  CASE Reads(d, p) # {} /\ state[p] # "SRV" ->
         {Record(d, p, "SRV", NoValue, LeastId(Reads(d, p)), "access")}
    [] Reads(d, p) = {} /\ Writes(d, p) # {} /\ state[p] # "UAV" ->
         {Record(d, p, "UAV", NoValue, Lowest(Writes(d, p)), "access")}
    [] Reads(d, p) = {} /\ state[p] = "UAV" /\ Hazards(d, p) # {} ->
         {Record(d, p, "REUSE", NamedHazard(d, p)[1][2], NamedHazard(d, p)[2], "access")}
    [] OTHER -> {}

\* (mutant of StateFor: a write leaves the state of its page alone)
StateForReadsOnly(d, p) == IF Reads(d, p) # {} THEN "SRV" ELSE state[p]

\* The state of the page while the dispatch runs.
StateFor(d, p) ==
  IF Reads(d, p) # {} THEN "SRV" ELSE IF Writes(d, p) # {} THEN "UAV" ELSE state[p]

\* The pages of the window's second side that the fork dispatch leaves in
\* another state than SRV.
Hoisted(d, p) == d = job.fork /\ p \in DOMAIN job.hoist /\ StateFor(d, p) # "SRV"

ForkRecords(d, p) ==
  IF Hoisted(d, p) THEN {Record(d, p, "SRV", NoValue, job.hoist[p], "fork")} ELSE {}

\* (mutant of PendingFor: a barrier forgets the writes of its own dispatch)
PendingForForgets(d, p) ==
  IF Hoisted(d, p) \/ AccessRecords(d, p) # {} THEN {}
  ELSE pending[p] \cup ({d} \X Writes(d, p))

\* Every barrier clears what was pending; the dispatch's own writes come after
\* its own barrier and before the hoist.
PendingFor(d, p) ==
  IF Hoisted(d, p) THEN {}
  ELSE (IF AccessRecords(d, p) = {} THEN pending[p] ELSE {}) \cup ({d} \X Writes(d, p))

\* The errors: one page in two states, two outputs on the same bytes.
Simultaneous(d) == \E p \in Pages : Reads(d, p) # {} /\ Writes(d, p) # {}
SelfOverlap(d)  == \E v, w \in job.writes[d] : v # w /\ Overlap(v, w)

RejectDispatch ==
  /\ verdict = "planning" /\ next <= Count
  /\ \/ Simultaneous(next) /\ verdict' = "simultaneous"
     \/ ~Simultaneous(next) /\ SelfOverlap(next) /\ verdict' = "overlapping"
  /\ UNCHANGED <<job, next, state, pending, records>>

PlanDispatch ==
  /\ verdict = "planning" /\ next <= Count
  /\ ~Simultaneous(next) /\ ~SelfOverlap(next)
  /\ records' = records \cup UNION {AccessRecords(next, p) \cup ForkRecords(next, p) : p \in Pages}
  /\ state' = [p \in Pages |-> IF Hoisted(next, p) THEN "SRV" ELSE StateFor(next, p)]
  /\ pending' = [p \in Pages |-> PendingFor(next, p)]
  /\ next' = next + 1
  /\ UNCHANGED <<job, verdict>>

PlanDone ==
  /\ verdict = "planning" /\ next = Count + 1
  /\ verdict' = "planned"
  /\ UNCHANGED <<job, next, state, pending, records>>

Next == RejectDispatch \/ PlanDispatch \/ PlanDone

Spec == Init /\ [][Next]_barrierVars

------------------------------------------------------------------------------
(* What the plan promises                                                    *)

TypeOK ==
  /\ IsJob(job)
  /\ next \in 1 .. Count + 1
  /\ state \in [Pages -> {"COMMON", "SRV", "UAV"}]
  /\ DOMAIN pending = Pages
  /\ \A p \in Pages : pending[p] \subseteq (1 .. next - 1) \X ValuesOn(p)
  /\ \A r \in records : /\ r.dispatch \in 1 .. next - 1
                        /\ r.page \in Pages
                        /\ r.kind \in {"SRV", "UAV", "REUSE"}
                        /\ r.step \in {"access", "fork"}
  /\ verdict \in {"planning", "planned", "simultaneous", "overlapping"}

\* A record is executed between the kernels of dispatches i and j: a fork
\* record comes after the kernel of its dispatch, any other before it.
Between(r, i, j) ==
  \/ i < r.dispatch /\ r.dispatch < j
  \/ r.dispatch = j /\ i < j /\ r.step = "access"
  \/ r.dispatch = i /\ i < j /\ r.step = "fork"

\* i and j touch the same bytes of page p, one of them writing.
ConflictOn(i, j, p) ==
  \/ \E v \in Writes(i, p), w \in Writes(j, p) \cup Reads(j, p) : Overlap(v, w)
  \/ \E v \in Reads(i, p), w \in Writes(j, p) : Overlap(v, w)

\* Between any two dispatches that touch the same bytes, one of them writing,
\* there is a barrier on their page: a dispatch never sees half of what another
\* writes (barrier_v2.py:30-40, 144-215).
ConflictsAreOrdered ==
  \A i, j \in 1 .. next - 1 : \A p \in Pages :
     i < j /\ ConflictOn(i, j, p) => \E r \in records : r.page = p /\ Between(r, i, j)

IsTransition(r) == r.kind \in {"SRV", "UAV"}

\* Before the kernel of dispatch d.
Before(r, d) == r.dispatch < d \/ (r.dispatch = d /\ r.step = "access")

Later(q, r) ==
  \/ q.dispatch > r.dispatch
  \/ q.dispatch = r.dispatch /\ q.step = "fork" /\ r.step = "access"

\* The last transition of page p before the kernel of d is to state s.
InState(p, s, d) ==
  \E r \in records :
     /\ r.page = p /\ r.kind = s /\ Before(r, d)
     /\ \A q \in records : q.page = p /\ IsTransition(q) /\ Before(q, d) => ~Later(q, r)

\* The transitions recorded leave each page in the state the kernel of every
\* dispatch accesses it in (aexrt_d3d12_runtime.cpp:20842-20871 fails the
\* recording otherwise).
KernelsFindTheirState ==
  \A d \in 1 .. next - 1 : \A p \in Pages :
     /\ Reads(d, p) # {} => InState(p, "SRV", d)
     /\ Writes(d, p) # {} => InState(p, "UAV", d)

================================================================================

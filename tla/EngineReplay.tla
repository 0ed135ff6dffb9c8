------------------------------ MODULE EngineReplay ------------------------------
(***************************************************************************)
(* From a program to frames on the GPU: build_aexrt_engine lays out the    *)
(* arena and plans the barriers, the loader checks the engine, the first   *)
(* run records the command lists, and every run executes them, on one      *)
(* queue or, over the engine's window, on two.                             *)
(*                                                                         *)
(* The GPU starts the commands of a queue in order and may run kernels of  *)
(* one queue together: a barrier on a page waits for the queue's kernels   *)
(* that use the page, a fence signal for all of the queue's kernels.       *)
(***************************************************************************)
EXTENDS DualWindow

CONSTANTS
  Programs,       \* the programs compiled
  Alignment, ReuseSlots, ReuseGap, ReuseExact,    \* arena options
  EnableBranch,   \* AEXRT_NATIVE_D3D12_ENABLE_PARALLEL_BRANCH
  MaxCalls,       \* bound: calls of aexrt_yolo_run
  MaxFaults       \* bound: kernels whose recording fails (descriptors, pipelines)

ASSUME ReplayAssumption ==
  /\ \A p \in Programs : WellFormed(p)
  /\ Alignment \in Nat \ {0} /\ ReuseGap \in Nat
  /\ ReuseSlots \in BOOLEAN /\ ReuseExact \in BOOLEAN /\ EnableBranch \in BOOLEAN
  /\ MaxCalls \in Nat /\ MaxFaults \in Nat

VARIABLES
  task, phase, color, remap, page, here, slots, cursor, offset,    \* of PageArena
  job, next, state, pending, records, verdict,                     \* of BarrierPlan
  prog,       \* the program
  window,     \* its dual-queue window
  stage,      \* "arena", "barriers", "load", "refused", "idle", "record",
              \* "submit", "run"
  calls,      \* runs asked for
  faults,     \* recordings of kernels that failed
  ready,      \* prepared_replay_ready
  dual,       \* parallel_branch_recorded
  tracked,    \* the state each page has after what is recorded
  deferred,   \* parallel_deferred_hoists
  todo,       \* dispatches left to record, each with its command list
  lists,      \* the command lists
  broken,     \* the recorder refused a plan without a fault
  frame,      \* submissions so far; stands for parallel_fence_value
  queue,      \* commands each queue has not started
  running,    \* kernels each queue runs
  fence,      \* parallel_fork_fence, parallel_join_fence
  gpu,        \* the state each page is in
  intact,     \* values whose bytes hold this frame's result
  finished    \* kernels that ended in this frame

arenaVars  == <<task, phase, color, remap, page, here, slots, cursor, offset>>
planVars   == <<job, next, state, pending, records, verdict>>
recordVars == <<ready, dual, tracked, deferred, todo, lists, broken, faults>>
gpuVars    == <<frame, queue, running, fence, gpu, intact, finished>>
vars == <<arenaVars, planVars, prog, window, stage, calls, recordVars, gpuVars>>

Arena == INSTANCE PageArena WITH Tasks <- {}
Plan  == INSTANCE BarrierPlan WITH Jobs <- {}
Replay == INSTANCE ReplaySemantics WITH program <- prog, ran <- finished

InputCopy  == Replay!InputCopy
HeadKernel == Replay!HeadOf(prog)
Lists      == {"main", "pre", "second", "mid", "post"}
Queues     == {"q0", "q1"}
Pages      == {page[v] : v \in DOMAIN page}
InOrder(S) == [i \in 1 .. Cardinality(S) |-> CHOOSE n \in S : Cardinality({m \in S : m < n}) = i - 1]

Init ==
  /\ prog \in Programs
  /\ window = IF prog.parallel THEN Window(prog) ELSE NoWindow
  /\ task = ArenaTask(prog, Hub(prog, window)) /\ Arena!Start(task)
  /\ job = << >> /\ next = 1 /\ state = << >> /\ pending = << >>
  /\ records = {} /\ verdict = "planning"
  /\ stage = "arena" /\ calls = 0 /\ faults = 0
  /\ ready = FALSE /\ dual = FALSE /\ tracked = << >> /\ deferred = {}
  /\ todo = << >> /\ lists = [l \in Lists |-> << >>] /\ broken = FALSE
  /\ frame = 0 /\ queue = [q \in Queues |-> << >>] /\ running = [q \in Queues |-> {}]
  /\ fence = [f \in {"fork", "join"} |-> 0] /\ gpu = << >> /\ intact = {} /\ finished = {}

------------------------------------------------------------------------------
(* Building the engine                                                       *)

PlaceValues ==
  /\ stage = "arena" /\ Arena!Next
  /\ UNCHANGED <<planVars, prog, window, stage, calls, recordVars, gpuVars>>

StartPlan ==
  /\ stage = "arena" /\ phase = "done"
  /\ stage' = "barriers"
  /\ job' = BarrierJob(prog, window, page, offset)
  /\ state' = [g \in Pages |-> "COMMON"] /\ pending' = [g \in Pages |-> {}]
  /\ UNCHANGED <<arenaVars, next, records, verdict, prog, window, calls, recordVars, gpuVars>>

PlanBarriers ==
  /\ stage = "barriers" /\ Plan!Next
  /\ UNCHANGED <<arenaVars, prog, window, stage, calls, recordVars, gpuVars>>

PlanOver ==
  /\ stage = "barriers" /\ verdict # "planning"
  /\ stage' = IF verdict = "planned" THEN "load" ELSE "refused"
  /\ UNCHANGED <<arenaVars, planVars, prog, window, calls, recordVars, gpuVars>>

\* Section 12 is written without the sides when there is no window, and read
\* with one side per dispatch.
SectionFits == ~prog.parallel \/ window # NoWindow

\* The loader plans the barriers again and compares; only the value a hoist
\* names is chosen in another way.
PlanMatches ==
  \A r \in records : r.step = "fork" => r.after = LoaderHoist(prog, window, page)[r.page]

Load ==
  /\ stage = "load"
  /\ stage' = IF SectionFits /\ PlanMatches THEN "idle" ELSE "refused"
  /\ tracked' = [g \in Pages |-> "COMMON"] /\ gpu' = [g \in Pages |-> "COMMON"]
  /\ deferred' = {}
  /\ UNCHANGED <<arenaVars, planVars, prog, window, calls, faults, ready, dual, todo, lists,
                 broken, frame, queue, running, fence, intact, finished>>

------------------------------------------------------------------------------
(* Recording                                                                 *)

To(g, from, to) == [op |-> "to", page |-> g, from |-> from, to |-> to]
Flush(g)        == [op |-> "uav", page |-> g]
Run(k)          == [op |-> "kernel", kernel |-> k]
Signal(f)       == [op |-> "signal", fence |-> f, value |-> frame + 1]
\* (mutant of Await: the value of the frame before)
AwaitPrevious(f) == [op |-> "wait", fence |-> f, value |-> frame]
Await(f)        == [op |-> "wait", fence |-> f, value |-> frame + 1]

\* No page has barriers of both sides of the window.
PlanUsable ==
  \A r, s \in records :
     r.page = s.page /\ {r.dispatch, s.dispatch} \subseteq window.first .. window.last
       => ((r.dispatch \in window.second) <=> (s.dispatch \in window.second))

WantsDual == EnableBranch /\ window # NoWindow /\ PlanUsable

\* What is recorded into which list, in the order of recording.
Agenda(two) ==
  LET part(l, S) == [i \in 1 .. Cardinality(S) |-> [list |-> l, at |-> InOrder(S)[i]]]
      inside == window.first .. window.last
  IN  IF two
      THEN part("pre", 1 .. window.fork) \o part("second", inside \cap window.second)
           \o part("mid", inside \ window.second)
           \o part("post", window.last + 1 .. Len(prog.plan))
      ELSE part("main", Dispatches(prog))

\* A run of a model whose lists are recorded goes straight to the GPU.
StartCall ==
  /\ stage = "idle" /\ calls < MaxCalls
  /\ calls' = calls + 1
  /\ stage' = IF ready THEN "submit" ELSE "record"
  /\ IF ready THEN UNCHANGED <<dual, todo, lists>>
     ELSE /\ dual' = WantsDual /\ todo' = Agenda(WantsDual)
          /\ lists' = [l \in Lists |-> << >>]
  /\ UNCHANGED <<arenaVars, planVars, prog, window, faults, ready, tracked, deferred, broken,
                 gpuVars>>

RecordsAt(d) == {r \in records : r.dispatch = d}

\* The second record of a dispatch on a page waits for the kernel.
LateAt(d) ==
  {r \in RecordsAt(d) : r.step = "fork" /\ \E s \in RecordsAt(d) : s.page = r.page /\ s.step = "access"}

\* A transition to the state the page is in, a UAV barrier on a page that is
\* not UAV.
Refused(r) ==
  \/ r.kind # "REUSE" /\ tracked[r.page] = r.kind
  \/ r.kind = "REUSE" /\ tracked[r.page] # "UAV"

Ahead(d)   == RecordsAt(d) \ LateAt(d)
Kinds(S, g) == {r.kind : r \in {s \in S : s.page = g}} \ {"REUSE"}

\* States after the barriers of S; the pages of S differ.
After(S, was) == [g \in Pages |-> IF Kinds(S, g) = {} THEN was[g] ELSE CHOOSE k \in Kinds(S, g) : TRUE]

Commands(S, was) ==
  LET of(g) == CHOOSE r \in S : r.page = g
      pages == InOrder({r.page : r \in S})
  IN  [i \in DOMAIN pages |->
         IF of(pages[i]).kind = "REUSE" THEN Flush(pages[i])
         ELSE To(pages[i], was[pages[i]], of(pages[i]).kind)]

\* The kernel's inputs are SRV and its outputs UAV, or the plan does not match.
Mismatch(d, now) ==
  \/ \E v \in KernelReads(prog, d) : now[page[v]] # "SRV"
  \/ \E v \in KernelWrites(prog, d) : now[page[v]] # "UAV"

HoistsDue(now) == {r \in deferred \cup LateAt(Head(todo).at) : now[r.page] # "SRV"}

\* (mutant of RollBack: the states stay as recorded)
KeepStates == tracked' = tracked

\* A recording begins and ends with every page COMMON, and so does one that
\* fails; the deferred hoists are left as they are.
RollBack == tracked' = [g \in Pages |-> "COMMON"]

\* (mutant of GiveUp: a dual recording is tried again as it was)
GiveUpTriesAgain(left) ==
  /\ RollBack
  /\ deferred' = left
  /\ lists' = [l \in Lists |-> << >>]
  /\ IF dual THEN dual' = dual /\ todo' = Agenda(TRUE) /\ stage' = stage
     ELSE dual' = dual /\ todo' = << >> /\ stage' = "idle"

\* A dual recording is done again on one list, any other fails the call.
GiveUp(left) ==
  /\ RollBack
  /\ deferred' = left
  /\ lists' = [l \in Lists |-> << >>]
  /\ IF dual THEN dual' = FALSE /\ todo' = Agenda(FALSE) /\ stage' = stage
     ELSE dual' = dual /\ todo' = << >> /\ stage' = "idle"

RefuseBarrier ==
  /\ stage = "record" /\ todo # << >>
  /\ LET d   == Head(todo).at
         bad == {r \in Ahead(d) : Refused(r)}
     IN  /\ bad # {}
         /\ GiveUp(deferred \cup {r \in LateAt(d) : r.page < Min({s.page : s \in bad})})
  /\ broken' = TRUE
  /\ UNCHANGED <<arenaVars, planVars, prog, window, calls, ready, faults, gpuVars>>

KernelFails ==
  /\ stage = "record" /\ todo # << >> /\ faults < MaxFaults
  /\ LET d == Head(todo).at
     IN  /\ \A r \in Ahead(d) : ~Refused(r)
         /\ Material(prog, d) # {}
         /\ GiveUp(deferred \cup LateAt(d))
  /\ faults' = faults + 1
  /\ UNCHANGED <<arenaVars, planVars, prog, window, calls, ready, broken, gpuVars>>

PlanMismatch ==
  /\ stage = "record" /\ todo # << >>
  /\ LET d == Head(todo).at
     IN  /\ \A r \in Ahead(d) : ~Refused(r)
         /\ Mismatch(d, After(Ahead(d), tracked))
  /\ GiveUp({})
  /\ broken' = TRUE
  /\ UNCHANGED <<arenaVars, planVars, prog, window, calls, ready, faults, gpuVars>>

RecordDispatch ==
  /\ stage = "record" /\ todo # << >>
  /\ LET d    == Head(todo).at
         now  == After(Ahead(d), tracked)
         due  == HoistsDue(now)
         l    == Head(todo).list
     IN  /\ \A r \in Ahead(d) : ~Refused(r)
         /\ ~Mismatch(d, now)
         /\ lists' = [lists EXCEPT ![l] = @ \o Commands(Ahead(d), tracked)
                                            \o (IF Material(prog, d) = {} THEN << >> ELSE <<Run(d)>>)
                                            \o Commands(due, now)]
         /\ tracked' = After(due, now)
  /\ deferred' = {} /\ todo' = Tail(todo)
  /\ UNCHANGED <<arenaVars, planVars, prog, window, stage, calls, ready, dual, broken, faults, gpuVars>>

\* (mutant of FinishRecording: the pages stay as the last dispatch left them)
FinishRecordingNoReset ==
  /\ stage = "record" /\ todo = << >>
  /\ ready' = TRUE /\ stage' = "submit"
  /\ UNCHANGED <<arenaVars, planVars, prog, window, calls, tracked, dual, deferred, todo, lists,
                 broken, faults, gpuVars>>

\* The head reads the output, unless a dispatch has done so, and every page
\* goes back to COMMON.
FinishRecording ==
  /\ stage = "record" /\ todo = << >>
  /\ LET out  == page[Canonical(prog)[prog.output]]
         seen == IF Replay!FusedHead(prog) THEN tracked ELSE [tracked EXCEPT ![out] = "SRV"]
         head == IF Replay!FusedHead(prog) THEN << >>
                 ELSE (IF tracked[out] = "SRV" THEN << >> ELSE <<To(out, tracked[out], "SRV")>>)
                      \o <<Run(HeadKernel)>>
         used == InOrder({g \in Pages : seen[g] # "COMMON"})
     IN  lists' = [lists EXCEPT ![IF dual THEN "post" ELSE "main"] =
                     @ \o head \o [i \in DOMAIN used |-> To(used[i], seen[used[i]], "COMMON")]]
  /\ tracked' = [g \in Pages |-> "COMMON"]
  /\ ready' = TRUE /\ stage' = "submit"
  /\ UNCHANGED <<arenaVars, planVars, prog, window, calls, dual, deferred, todo, broken, faults, gpuVars>>

------------------------------------------------------------------------------
(* Execution                                                                 *)

\* (mutant of Submit: the second queue does not signal)
SubmitNoJoin ==
  /\ stage = "submit"
  /\ LET in   == page[prog.input]
         copy == <<To(in, "COMMON", "COPY_DEST"), Run(InputCopy), To(in, "COPY_DEST", "COMMON")>>
     IN  queue' = IF dual
                  THEN [q0 |-> copy \o lists["pre"] \o <<Signal("fork")>> \o lists["mid"]
                                \o <<Await("join")>> \o lists["post"],
                        q1 |-> <<Await("fork")>> \o lists["second"]]
                  ELSE [q0 |-> copy \o lists["main"], q1 |-> << >>]
  /\ stage' = "run" /\ frame' = frame + 1 /\ intact' = {} /\ finished' = {}
  /\ UNCHANGED <<arenaVars, planVars, prog, window, calls, recordVars, running, fence, gpu>>

\* The input is copied to its page, COMMON before and after, then the lists run.
Submit ==
  /\ stage = "submit"
  /\ LET in   == page[prog.input]
         copy == <<To(in, "COMMON", "COPY_DEST"), Run(InputCopy), To(in, "COPY_DEST", "COMMON")>>
     IN  queue' = IF dual
                  THEN [q0 |-> copy \o lists["pre"] \o <<Signal("fork")>> \o lists["mid"]
                                \o <<Await("join")>> \o lists["post"],
                        q1 |-> <<Await("fork")>> \o lists["second"] \o <<Signal("join")>>]
                  ELSE [q0 |-> copy \o lists["main"], q1 |-> << >>]
  /\ stage' = "run" /\ frame' = frame + 1 /\ intact' = {} /\ finished' = {}
  /\ UNCHANGED <<arenaVars, planVars, prog, window, calls, recordVars, running, fence, gpu>>

\* What a kernel reads and writes, and the state each needs.
ReadsOf(k) ==
  CASE k = InputCopy -> {} [] k = HeadKernel -> {Canonical(prog)[prog.output]} [] OTHER -> KernelReads(prog, k)
WritesOf(k) ==
  CASE k = InputCopy -> {prog.input} [] k = HeadKernel -> {} [] OTHER -> KernelWrites(prog, k)
WriteState(k) == IF k = InputCopy THEN "COPY_DEST" ELSE "UAV"
PagesOf(k)    == {page[v] : v \in ReadsOf(k) \cup WritesOf(k)}

Clobbered(k) == {v \in intact : \E w \in WritesOf(k) : v # w /\ page[v] = page[w] /\ Arena!Overlap(v, w)}

StartKernel(q) ==
  /\ queue[q] # << >> /\ Head(queue[q]).op = "kernel"
  /\ running' = [running EXCEPT ![q] = @ \cup {Head(queue[q]).kernel}]
  /\ intact' = intact \ Clobbered(Head(queue[q]).kernel)
  /\ queue' = [queue EXCEPT ![q] = Tail(@)]
  /\ UNCHANGED <<frame, fence, gpu, finished>>

EndKernel(q) ==
  /\ \E k \in running[q] :
       /\ running' = [running EXCEPT ![q] = @ \ {k}]
       /\ intact' = (intact \ Clobbered(k)) \cup WritesOf(k)
       /\ finished' = finished \cup {k}
  /\ UNCHANGED <<frame, queue, fence, gpu>>

Barrier(q) ==
  /\ queue[q] # << >> /\ Head(queue[q]).op \in {"to", "uav"}
  /\ \A k \in running[q] : Head(queue[q]).page \notin PagesOf(k)
  /\ gpu' = IF Head(queue[q]).op = "uav" THEN gpu
            ELSE [gpu EXCEPT ![Head(queue[q]).page] = Head(queue[q]).to]
  /\ queue' = [queue EXCEPT ![q] = Tail(@)]
  /\ UNCHANGED <<frame, running, fence, intact, finished>>

SignalFence(q) ==
  /\ queue[q] # << >> /\ Head(queue[q]).op = "signal" /\ running[q] = {}
  /\ fence' = [fence EXCEPT ![Head(queue[q]).fence] = Head(queue[q]).value]
  /\ queue' = [queue EXCEPT ![q] = Tail(@)]
  /\ UNCHANGED <<frame, running, gpu, intact, finished>>

WaitFence(q) ==
  /\ queue[q] # << >> /\ Head(queue[q]).op = "wait"
  /\ fence[Head(queue[q]).fence] >= Head(queue[q]).value
  /\ queue' = [queue EXCEPT ![q] = Tail(@)]
  /\ UNCHANGED <<frame, running, fence, gpu, intact, finished>>

GpuStep(q) ==
  /\ StartKernel(q) \/ EndKernel(q) \/ Barrier(q) \/ SignalFence(q) \/ WaitFence(q)
  /\ UNCHANGED <<arenaVars, planVars, prog, window, stage, calls, recordVars>>

\* signal_and_wait: the call returns when the main queue is drained.
FrameDone ==
  /\ stage = "run" /\ queue["q0"] = << >> /\ running["q0"] = {}
  /\ stage' = "idle"
  /\ UNCHANGED <<arenaVars, planVars, prog, window, calls, recordVars, gpuVars>>

Host ==
  \/ PlaceValues \/ StartPlan \/ PlanBarriers \/ PlanOver \/ Load
  \/ StartCall \/ RefuseBarrier \/ KernelFails \/ PlanMismatch \/ RecordDispatch
  \/ FinishRecording \/ Submit \/ FrameDone

Next == Host \/ \E q \in Queues : GpuStep(q)

Spec == Init /\ [][Next]_vars

\* The host's calls run to their end and the GPU works on what it is given.
FairSpec == Spec /\ WF_vars(Host) /\ \A q \in Queues : WF_vars(GpuStep(q))

------------------------------------------------------------------------------
(* What replaying promises                                                   *)

TypeOK ==
  /\ stage \in {"arena", "barriers", "load", "refused", "idle", "record", "submit", "run"}
  /\ Arena!IsTask(task) /\ (stage # "arena" => Plan!IsJob(job))
  /\ calls \in 0 .. MaxCalls /\ faults \in 0 .. MaxFaults /\ frame \in 0 .. MaxCalls
  /\ {ready, dual, broken} \subseteq BOOLEAN
  /\ \A e \in Range(todo) : e.list \in Lists /\ e.at \in Dispatches(prog)
  /\ deferred \subseteq records
  /\ intact \subseteq ArenaValues(prog) /\ finished \subseteq Replay!Kernels(prog)
  /\ stage \notin {"arena", "barriers", "load"} =>
       /\ tracked \in [Pages -> {"COMMON", "SRV", "UAV"}]
       /\ gpu \in [Pages -> {"COMMON", "SRV", "UAV", "COPY_DEST"}]

\* While a kernel runs, the bytes of everything it reads hold this frame's
\* values: no other kernel, of either queue, overwrites them early
\* (memory_v2.py:371-376, engine.py:234-237).
KernelsReadTheirInputs ==
  \A q \in Queues : \A k \in running[q] : ReadsOf(k) \subseteq intact

\* While a kernel runs, the pages it uses stay in the states it needs
\* (aexrt_d3d12_runtime.cpp:20842-20870).
KernelsFindTheirPages ==
  \A q \in Queues : \A k \in running[q] :
     /\ \A v \in ReadsOf(k) : gpu[page[v]] = "SRV"
     /\ \A v \in WritesOf(k) : gpu[page[v]] = WriteState(k)

\* Every transition names the state the page is really in, in this frame and in
\* all later ones (aexrt_d3d12_runtime.cpp:28719-28729, 29659).
TransitionsStartRight ==
  \A q \in Queues :
     /\ queue[q] # << >> /\ Head(queue[q]).op = "to"
     /\ \A k \in running[q] : Head(queue[q]).page \notin PagesOf(k)
     => gpu[Head(queue[q]).page] = Head(queue[q]).from

\* The engine the compiler builds from a well-formed program is accepted: no
\* dispatch needs a page in two states, and the loader agrees with the plan
\* (barrier_v2.py:136-140, aexrt_d3d12_runtime.cpp:18664-18677).
EngineIsAccepted == stage # "refused"

\* The recorder refuses the plan the engine was built with only where a hoist to
\* the fork comes before the fork's own kernel, which writes the page hoisted, or
\* after a recording that failed with hoists put off
\* (aexrt_d3d12_runtime.cpp:28682-28695, 28707-28733, 28955-28964).
PlanIsRecordable ==
  broken => \E r \in {x \in records : x.step = "fork"} :
              \/ r \notin LateAt(r.dispatch) /\ \E v \in KernelWrites(prog, r.dispatch) : page[v] = r.page
              \/ r \in LateAt(r.dispatch) /\ faults > 0

\* Every frame runs every kernel once, after those that produce its inputs.
RefinesReplay == Replay!Spec

\* Every call comes back (aexrt_d3d12_runtime.cpp:1338-1352), and runs a frame
\* unless a kernel of its recording fails (29569-29590, 29696) or the recorder
\* refuses the plan.
CallsReturn == []<>(stage \in {"idle", "refused"})
AllFramesRun == <>[](frame + faults >= MaxCalls \/ stage = "refused" \/ broken)
================================================================================

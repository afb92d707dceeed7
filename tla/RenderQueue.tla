---------------------------- MODULE RenderQueue ----------------------------
(***************************************************************************)
(* The chapter renderer: the queue directory of etv-render (queue.rs), the *)
(* sidecar that drains it and keeps its cache under a cap (cache.rs), and  *)
(* the `etv-station enqueue` processes that put plans on it.  They share   *)
(* files and no lock: every process reads a job's state, decides, and      *)
(* writes the whole state back, and each read and each write is a step.    *)
(*                                                                         *)
(* A plan stands for its job too (the job's id is the plan's digest); an   *)
(* output and a stem directory take one unit of the cache each.            *)
(***************************************************************************)
EXTENDS FiniteSets, Functions, Integers

CONSTANTS
    Plans,       \* the plans there may be, as numbers: ids are ordered
    Clients,     \* the enqueue processes running at a time
    Uses,        \* the stem directories the render of each plan uses
    AirTimes,    \* the times chapters are given to air
    Length,      \* how long a chapter plays,
    Lead,        \* PROTECT_BEFORE_AIR
    Cap,         \* cap_bytes
    MaxNow,      \* bounds: the clock,
    MaxEnqueues, \* calls of enqueue,
    MaxTroubles  \* renders and removals that fail, and deaths of a process

ASSUME PlanAssumption ==
    /\ Plans \subseteq Nat \ {0} /\ IsFiniteSet(Plans)
    /\ DOMAIN Uses = Plans /\ IsFiniteSet(UNION Range(Uses))
ASSUME TimeAssumption == {Length, Lead} \subseteq Nat \ {0} /\ AirTimes \subseteq Nat \ {0}
ASSUME BoundAssumption == {Cap, MaxNow, MaxEnqueues, MaxTroubles} \subseteq Nat

VARIABLES
    plans,    \* the plan files
    jobs,     \* the state file of each plan's job; its status is "none" if there is none
    outputs,  \* the plans whose rendered chapter is there
    stems,    \* the stem directories
    clients,  \* what each enqueue process is about to do
    sidecar,  \* the sidecar
    now,      \* the clock
    given,    \* the air times each plan has ever been given
    raced,    \* the plans whose state was written over a newer one
    spent     \* how often the environment has acted

vars == <<plans, jobs, outputs, stems, clients, sidecar, now, given, raced, spent>>

NoTime  == 0
NoPlan  == 0
Status  == {"none", "queued", "running", "done", "failed", "evicted"}
Job     == [status : Status, enqueuedAt : 0..MaxNow, airAt : AirTimes \cup {NoTime}]
NoJob   == [status |-> "none", enqueuedAt |-> 0, airAt |-> NoTime]
Idle    == [step |-> "idle", plan |-> NoPlan, airAt |-> NoTime, at |-> 0, copy |-> NoJob]
Down    == [step |-> "down", plan |-> NoPlan, seen |-> [p \in Plans |-> NoJob],
            todo |-> {}, total |-> 0, at |-> 0]

May(k)   == IF k = "enqueues" THEN spent.enqueues < MaxEnqueues
                              ELSE spent.faults + spent.deaths < MaxTroubles
Spend(k) == May(k) /\ spent' = [spent EXCEPT ![k] = @ + 1]

Init ==
    /\ plans = {} /\ jobs = [p \in Plans |-> NoJob] /\ outputs = {} /\ stems = {}
    /\ clients = [c \in Clients |-> Idle] /\ sidecar = Down
    /\ now = 0 /\ given = [p \in Plans |-> {}] /\ raced = {}
    /\ spent = [enqueues |-> 0, faults |-> 0, deaths |-> 0]

\* Queue::write: the state of p is replaced by one made from a copy read before.
WriteJob(p, copy, job) ==
    /\ jobs' = [jobs EXCEPT ![p] = job]
    /\ raced' = IF copy = jobs[p] THEN raced ELSE raced \cup {p}

-----------------------------------------------------------------------------
(* Queue::enqueue *)

Live(job) == job.status \in {"queued", "running", "done"}

\* A plan that is not live has its plan file written before its state.
\* (StateFirst is the mutant that forgets the plan file.)
StateFirst == "state"
FirstWrite == "plan"

\* The call reads the state and decides.  A live plan whose air time does not
\* change is left alone, which is no step.
Enqueue(c, p, airAt) ==
    /\ clients[c].step = "idle"
    /\ airAt = NoTime \/ airAt > now
    /\ Live(jobs[p]) => airAt \notin {NoTime, jobs[p].airAt}
    /\ Spend("enqueues")
    /\ clients' = [clients EXCEPT ![c] =
                    [step |-> IF Live(jobs[p]) THEN "update" ELSE FirstWrite, plan |-> p,
                     airAt |-> airAt, at |-> now, copy |-> jobs[p]]]
    /\ given' = [given EXCEPT ![p] = @ \cup ({airAt} \ {NoTime})]
    /\ UNCHANGED <<plans, jobs, outputs, stems, sidecar, now, raced>>

UpdateAirTime(c) ==
    LET client == clients[c] IN
    /\ client.step = "update"
    /\ WriteJob(client.plan, client.copy, [client.copy EXCEPT !.airAt = client.airAt])
    /\ clients' = [clients EXCEPT ![c] = Idle]
    /\ UNCHANGED <<plans, outputs, stems, sidecar, now, given, spent>>

WritePlan(c) ==
    /\ clients[c].step = "plan"
    /\ plans' = plans \cup {clients[c].plan}
    /\ clients' = [clients EXCEPT ![c].step = "state"]
    /\ UNCHANGED <<jobs, outputs, stems, sidecar, now, given, raced, spent>>

\* fresh_state, written.
WriteState(c) ==
    LET client == clients[c] IN
    /\ client.step = "state"
    /\ WriteJob(client.plan, client.copy,
                [status |-> "queued", enqueuedAt |-> client.at, airAt |-> client.airAt])
    /\ clients' = [clients EXCEPT ![c] = Idle]
    /\ UNCHANGED <<plans, outputs, stems, sidecar, now, given, spent>>

ClientDies(c) ==
    /\ clients[c].step # "idle"
    /\ Spend("deaths")
    /\ clients' = [clients EXCEPT ![c] = Idle]
    /\ UNCHANGED <<plans, jobs, outputs, stems, sidecar, now, given, raced>>

-----------------------------------------------------------------------------
(* The sidecar: run_sidecar and process_next *)

\* The sidecar writes p's state from what it saw of it.
SidecarWrites(p, status, step, todo) ==
    LET job == [sidecar.seen[p] EXCEPT !.status = status] IN
    /\ WriteJob(p, sidecar.seen[p], job)
    /\ sidecar' = [sidecar EXCEPT !.step = step, !.todo = todo, !.seen[p] = job]

\* The first of some jobs in the order of Queue::list: oldest first, then by id.
First(some, listed) ==
    CHOOSE p \in some : \A q \in some :
        \/ listed[p].enqueuedAt < listed[q].enqueuedAt
        \/ listed[p].enqueuedAt = listed[q].enqueuedAt /\ p =< q

\* recover_interrupted lists the jobs.  (NothingToRecover is the mutant that
\* trusts the jobs it finds running.)
NothingToRecover == {}
Interrupted      == {p \in Plans : jobs[p].status = "running"}

Start ==
    /\ sidecar.step = "down"
    /\ sidecar' = [Down EXCEPT !.step = "recover", !.seen = jobs, !.todo = Interrupted]
    /\ UNCHANGED <<plans, jobs, outputs, stems, clients, now, given, raced, spent>>

Recover ==
    /\ sidecar.step = "recover"
    /\ IF sidecar.todo = {}
       THEN sidecar' = [sidecar EXCEPT !.step = "cap"] /\ UNCHANGED <<jobs, raced>>
       ELSE LET p == First(sidecar.todo, sidecar.seen)
            IN  SidecarWrites(p, "queued", "recover", sidecar.todo \ {p})
    /\ UNCHANGED <<plans, outputs, stems, clients, now, given, spent>>

\* next_queued: the oldest queued job, if there is one; the loop sleeps if not.
Take ==
    LET waiting == {p \in Plans : jobs[p].status = "queued"} IN
    /\ sidecar.step = "poll"
    /\ waiting # {}
    /\ sidecar' = [sidecar EXCEPT !.step = "claim", !.seen = jobs, !.plan = First(waiting, jobs)]
    /\ UNCHANGED <<plans, jobs, outputs, stems, clients, now, given, raced, spent>>

Claim ==
    /\ sidecar.step = "claim"
    /\ SidecarWrites(sidecar.plan, "running", "render", {})
    /\ UNCHANGED <<plans, outputs, stems, clients, now, given, spent>>

\* The render ends with the output renamed into place; the step names the
\* status that is to be reported.
Renders ==
    /\ sidecar.step = "render" /\ sidecar.plan \in plans
    /\ outputs' = outputs \cup {sidecar.plan}
    /\ stems' = stems \cup Uses[sidecar.plan]
    /\ sidecar' = [sidecar EXCEPT !.step = "done"]
    /\ UNCHANGED <<plans, jobs, clients, now, given, raced, spent>>

\* It fails for want of the plan, or of a tool or a file, some stems made.
FailsToRender ==
    /\ sidecar.step = "render"
    /\ IF sidecar.plan \in plans THEN Spend("faults") ELSE UNCHANGED spent
    /\ \E made \in SUBSET Uses[sidecar.plan] : stems' = stems \cup made
    /\ sidecar' = [sidecar EXCEPT !.step = "failed"]
    /\ UNCHANGED <<plans, jobs, outputs, clients, now, given, raced>>

Report ==
    /\ sidecar.step \in {"done", "failed"}
    /\ SidecarWrites(sidecar.plan, sidecar.step, "cap", {})
    /\ UNCHANGED <<plans, outputs, stems, clients, now, given, spent>>

-----------------------------------------------------------------------------
(* The sidecar: enforce_cap *)

Protected(job, t) ==
    job.airAt # NoTime => t >= job.airAt - Lead /\ t < job.airAt + Length

\* (EverAired is the mutant that takes a chapter outside of its protected time
\* for one that has aired.)
EverAired(job, t) == job.airAt # NoTime /\ ~Protected(job, t)
HasAired(job, t)  == job.airAt # NoTime /\ ~Protected(job, t) /\ t >= job.airAt

\* used_bytes.
Used == Cardinality({p \in outputs : jobs[p].status = "done"}) + Cardinality(stems)

\* The list that the cap is enforced by, and who may have to go.
ListForCap ==
    /\ sidecar.step = "cap"
    /\ sidecar' =
        [sidecar EXCEPT
            !.step = IF Used =< Cap THEN "poll" ELSE "evict",
            !.plan = NoPlan, !.seen = jobs, !.total = Used, !.at = now,
            !.todo = IF Used =< Cap THEN {}
                     ELSE {p \in Plans : jobs[p].status = "done" /\ HasAired(jobs[p], now)}]
    /\ UNCHANGED <<plans, jobs, outputs, stems, clients, now, given, raced, spent>>

\* orphans_of, by the list: none while a job is to record its stems.
\* (NoneKept is the mutant that forgets the done jobs.)
InFlight(seen) == \E p \in Plans : seen[p].status \in {"queued", "running"}
NoneKept(seen)  == {}
StemsKept(seen) == UNION {Uses[p] : p \in {q \in Plans : seen[q].status = "done"}}
Orphans == IF InFlight(sidecar.seen) THEN {} ELSE stems \ StemsKept(sidecar.seen)

SweepStems ==
    /\ sidecar.step = "evict"
    /\ \E s \in Orphans : stems' = stems \ {s}
    /\ sidecar' = [sidecar EXCEPT !.total = @ - 1]
    /\ UNCHANGED <<plans, jobs, outputs, clients, now, given, raced, spent>>

OverCap == sidecar.step = "evict" /\ Orphans = {} /\ sidecar.total > Cap /\ sidecar.todo # {}

\* The chapter that aired first (in the order of the list, of several).
Eldest ==
    LET airAt(p) == sidecar.seen[p].airAt
        eldest   == {p \in sidecar.todo : \A q \in sidecar.todo : airAt(p) =< airAt(q)}
    IN  First(eldest, sidecar.seen)

RemoveOutput ==
    /\ OverCap
    /\ outputs' = outputs \ {Eldest}
    /\ sidecar' = [sidecar EXCEPT !.step = "mark", !.plan = Eldest,
                                  !.total = @ - (IF Eldest \in outputs THEN 1 ELSE 0)]
    /\ UNCHANGED <<plans, jobs, stems, clients, now, given, raced, spent>>

\* A file that is still there after its removal failed is passed over.
FailsToRemove ==
    /\ OverCap /\ Eldest \in outputs
    /\ Spend("faults")
    /\ sidecar' = [sidecar EXCEPT !.todo = @ \ {Eldest}]
    /\ UNCHANGED <<plans, jobs, outputs, stems, clients, now, given, raced>>

Mark ==
    /\ sidecar.step = "mark"
    /\ SidecarWrites(sidecar.plan, "evicted", "evict", sidecar.todo \ {sidecar.plan})
    /\ UNCHANGED <<plans, outputs, stems, clients, now, given, spent>>

\* (OneTooMany is the mutant that stops one entry too early.)
OneTooMany == sidecar.total =< Cap + 1
Enough == sidecar.total =< Cap

CapEnforced ==
    /\ sidecar.step = "evict" /\ Orphans = {} /\ (Enough \/ sidecar.todo = {})
    /\ sidecar' = [sidecar EXCEPT !.step = "poll", !.todo = {}]
    /\ UNCHANGED <<plans, jobs, outputs, stems, clients, now, given, raced, spent>>

SidecarDies ==
    /\ sidecar.step # "down"
    /\ Spend("deaths")
    /\ sidecar' = Down
    /\ UNCHANGED <<plans, jobs, outputs, stems, clients, now, given, raced>>

-----------------------------------------------------------------------------
Tick ==
    /\ now < MaxNow /\ now' = now + 1
    /\ UNCHANGED <<plans, jobs, outputs, stems, clients, sidecar, given, raced, spent>>

Client(c) == UpdateAirTime(c) \/ WritePlan(c) \/ WriteState(c)
Sidecar ==
    \/ Start \/ Recover \/ Take \/ Claim \/ Renders \/ Report
    \/ ListForCap \/ SweepStems \/ RemoveOutput \/ Mark \/ CapEnforced

Next ==
    \/ \E c \in Clients :
        \/ \E p \in Plans, airAt \in AirTimes \cup {NoTime} : Enqueue(c, p, airAt)
        \/ Client(c)
        \/ ClientDies(c)
    \/ Sidecar
    \/ FailsToRender \/ FailsToRemove \/ SidecarDies
    \/ Tick

\* The container starts the sidecar again when it ends, and a render ends; the
\* failing of one is the environment's.
Spec == Init /\ [][Next]_vars /\ WF_vars(Sidecar)

-----------------------------------------------------------------------------
(* Properties *)

Steps == {"down", "recover", "poll", "claim", "render", "done", "failed", "cap", "evict", "mark"}

\* What an enqueue process and the sidecar hold.
Calls == [step : {"idle", "update", "plan", "state"}, plan : Plans \cup {NoPlan},
          airAt : AirTimes \cup {NoTime}, at : 0..MaxNow, copy : Job]
Sidecars == [step : Steps, plan : Plans \cup {NoPlan}, seen : [Plans -> Job],
             todo : SUBSET Plans, total : Int, at : 0..MaxNow]

\* Type invariant: every state file, copy and listing holds jobs of the kind
\* JobState describes.
TypeOK ==
    /\ plans \subseteq Plans /\ outputs \subseteq Plans /\ raced \subseteq Plans
    /\ stems \subseteq UNION Range(Uses)
    /\ jobs \in [Plans -> Job]
    /\ clients \in [Clients -> Calls]
    /\ sidecar \in Sidecars
    /\ now \in 0..MaxNow /\ given \in [Plans -> SUBSET AirTimes]
    /\ spent \in [{"enqueues", "faults", "deaths"} -> Nat]

\* Whether some air time p was given is over.
Aired(p) == \E t \in given[p] : now >= t + Length

\* enqueue writes a plan before its state, so that no job fails for want of
\* its plan: whatever job the sidecar can see or holds has one.
JobsHavePlans ==
    /\ \A p \in Plans : jobs[p].status # "none" => p \in plans
    /\ sidecar.step = "render" => sidecar.plan \in plans

\* A chapter that is done can be played, with the stems that a render of its
\* neighbours would need, until it has aired: neither an eviction cut short nor
\* the rendering again of another plan takes its files from it.  A state that
\* was overwritten by an older one says nothing (see LeftAsItIs).
DoneUntilAired ==
    \A p \in Plans \ raced :
        jobs[p].status = "done" => Aired(p) \/ (p \in outputs /\ Uses[p] \subseteq stems)

\* Nothing removes a rendered chapter before a time it was to air at is over,
\* whatever the enqueues and the sidecar overwrite of each other: enforce_cap
\* decides by a list that may be old, and by the air time the list has.
NeverBeforeAir == [][\A p \in outputs \ outputs' : Aired(p)]_vars

\* used_bytes without the chapters whose state was overwritten by an older one:
\* an enqueue may write "done" back over what another wrote, and bring into
\* the count a chapter that the list for the cap left out.
UsedUnraced == Cardinality({p \in outputs \ raced : jobs[p].status = "done"}) + Cardinality(stems)

\* What enforce_cap has listed as done and aired.
WasToGo(p) == sidecar.seen[p].status = "done" /\ HasAired(sidecar.seen[p], sidecar.at)

\* Once the cap has been enforced, the cache is within it or what is left may
\* not go: no chapter that the list had as aired is still there, unless its
\* removal failed; however many enqueues write states beside the sidecar.
WithinCap ==
    sidecar.step = "poll" /\ spent.faults = 0 =>
        UsedUnraced =< Cap \/ \A p \in outputs : ~WasToGo(p)

\* A job that is queued, or was running when its sidecar died, is rendered in
\* the end, unless its state was overwritten; it fails only if a render failed,
\* never for want of the plan that enqueue writes beside the state.
ServedEventually ==
    \A p \in Plans :
        jobs[p].status \in {"queued", "running"} ~>
            \/ jobs[p].status \in {"done", "evicted"} \/ p \in raced
            \/ jobs[p].status = "failed" /\ spent.faults > 0

\* What enqueue promises of a live plan: "already queued, running or done is
\* left as it is (its air time is updated when given)".
LeftAsItIs ==
    [][\A c \in Clients : UpdateAirTime(c) =>
        jobs'[clients[c].plan].status = jobs[clients[c].plan].status]_vars
=============================================================================

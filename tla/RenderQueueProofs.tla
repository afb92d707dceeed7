--------------------------- MODULE RenderQueueProofs ---------------------------
(***************************************************************************)
(* What holds of RenderQueue for any plans, any number of enqueue          *)
(* processes, any cap and any failures and deaths: a job that can be seen  *)
(* has its plan, and no chapter is removed before a time it was to air at  *)
(* is over.  And what enforce_cap leaves is within the cap or may not go,  *)
(* whatever the enqueues write beside it.                                  *)
(***************************************************************************)
EXTENDS RenderQueue, FiniteSetTheorems, WellFoundedInduction, TLAPS

\* An air time was given to the plan it is found with, in a state file, a copy
\* or a listing.
AirGiven ==
    /\ \A p \in Plans :
        /\ jobs[p].airAt \in given[p] \cup {NoTime}
        /\ sidecar.seen[p].airAt \in given[p] \cup {NoTime}
    /\ \A c \in Clients : clients[c].step # "idle" =>
        /\ clients[c].airAt \in given[clients[c].plan] \cup {NoTime}
        /\ clients[c].copy.airAt \in given[clients[c].plan] \cup {NoTime}

\* Who writes or has seen a state has a plan for it.
Planned ==
    /\ \A p \in Plans : jobs[p].status # "none" \/ sidecar.seen[p].status # "none" => p \in plans
    /\ \A c \in Clients : clients[c].step # "idle" => clients[c].plan \in Plans
    /\ \A c \in Clients : clients[c].step \in {"update", "state"} => clients[c].plan \in plans
    /\ sidecar.step \in {"claim", "render", "done", "failed", "mark"} => sidecar.plan \in plans

\* What is to be recovered was running, and what may have to go was done and
\* had aired, when the list was made.
Listed ==
    /\ sidecar.at =< now
    /\ sidecar.step = "recover" => \A p \in sidecar.todo : sidecar.seen[p].status = "running"
    /\ sidecar.step \in {"evict", "mark"} => \A p \in sidecar.todo :
        sidecar.seen[p].status = "done" /\ HasAired(sidecar.seen[p], sidecar.at)

\* The inductive invariant.  An eviction goes by the air time of its list,
\* which is one that was given, though the state may have got another since.
IInv == TypeOK /\ AirGiven /\ Planned /\ Listed

-----------------------------------------------------------------------------
(* The first of a list.                                                       *)

LEMMA Least ==
    ASSUME NEW S \in SUBSET Nat, S # {}
    PROVE  \E m \in S : \A n \in S : m =< n
<1>1. \E m \in S : \A n \in S : ~(<<n, m>> \in OpToRel(<, Nat))
  BY NatLessThanWellFounded, WFMin
<1>2. \A n, m \in Nat : <<n, m>> \in OpToRel(<, Nat) <=> n < m
  BY DEF OpToRel
<1>3. \A n, m \in Nat : ~(n < m) => m =< n
  OBVIOUS
<1> QED BY <1>1, <1>2, <1>3

LEMMA FirstIsOneOf ==
    ASSUME NEW some \in SUBSET Plans, some # {}, NEW listed \in [Plans -> Job]
    PROVE  First(some, listed) \in some
<1> DEFINE at(p)  == listed[p].enqueuedAt
           times  == {at(p) : p \in some}
<1>1. \A p \in some : p \in Nat /\ at(p) \in Nat
  BY PlanAssumption DEF Job
<1>2. times \in SUBSET Nat /\ times # {}
  BY <1>1
<1>3. PICK t \in times : \A u \in times : t =< u
  BY <1>2, Least
<1> DEFINE oldest == {p \in some : at(p) = t}
<1>4. oldest \in SUBSET Nat /\ oldest # {}
  BY <1>1, <1>3
<1>5. PICK p \in oldest : \A q \in oldest : p =< q
  BY <1>4, Least
<1>6. ASSUME NEW q \in some
      PROVE  at(p) < at(q) \/ (at(p) = at(q) /\ p =< q)
  <2>1. at(p) = t /\ t =< at(q) /\ at(q) \in Nat /\ t \in Nat
    BY <1>2, <1>3, <1>5, <1>1
  <2>2. at(q) = t => p =< q
    BY <1>5
  <2> QED BY <2>1, <2>2
<1>7. p \in some /\ \A q \in some : at(p) < at(q) \/ (at(p) = at(q) /\ p =< q)
  BY <1>5, <1>6
<1> QED BY <1>7 DEF First

LEMMA EldestIsOneOf ==
    ASSUME sidecar \in Sidecars, sidecar.todo # {}
    PROVE  Eldest \in sidecar.todo
<1> DEFINE airAt(p) == sidecar.seen[p].airAt
           times    == {airAt(p) : p \in sidecar.todo}
           eldest   == {p \in sidecar.todo : \A q \in sidecar.todo : airAt(p) =< airAt(q)}
<1>1. sidecar.todo \subseteq Plans /\ sidecar.seen \in [Plans -> Job]
  BY DEF Sidecars
<1>2. \A p \in sidecar.todo : airAt(p) \in Nat
  <2>1. AirTimes \cup {NoTime} \subseteq Nat
    BY TimeAssumption DEF NoTime
  <2>2. \A p \in Plans : sidecar.seen[p].airAt \in AirTimes \cup {NoTime}
    BY <1>1 DEF Job
  <2> QED BY <1>1, <2>1, <2>2
<1>3. PICK t \in times : \A u \in times : t =< u
  BY <1>2, Least
<1>4. eldest # {}
  BY <1>3
<1>5. First(eldest, sidecar.seen) \in eldest
  BY <1>1, <1>4, FirstIsOneOf
<1> QED BY <1>5 DEF Eldest

LEMMA NothingHeld == NoJob \in Job /\ Idle \in Calls /\ Down \in Sidecars
<1>1. 0 \in 0 .. MaxNow
  BY BoundAssumption
<1>2. NoJob \in Job
  BY <1>1 DEF NoJob, Job, Status
<1> QED BY <1>1, <1>2 DEF Idle, Calls, Down, Sidecars, Steps

LEMMA InitInv == Init => IInv
<1> SUFFICES ASSUME Init PROVE IInv
  OBVIOUS
<1>1. TypeOK
  BY NothingHeld, BoundAssumption DEF Init, TypeOK
<1>2. AirGiven
  BY DEF Init, AirGiven, NoJob, Idle, Down
<1>3. Planned
  BY DEF Init, Planned, NoJob, Idle, Down
<1>4. Listed
  BY DEF Init, Listed, Down
<1> QED BY <1>1, <1>2, <1>3, <1>4 DEF IInv

-----------------------------------------------------------------------------
(* The enqueue processes.                                                     *)

\* A step that counts one of the environment's actions.
LEMMA SpendType ==
    ASSUME TypeOK, NEW k \in {"enqueues", "faults", "deaths"}, Spend(k)
    PROVE  spent' \in [{"enqueues", "faults", "deaths"} -> Nat]
BY DEF TypeOK, Spend

LEMMA EnqueueStep ==
    ASSUME IInv, NEW c \in Clients, NEW p \in Plans, NEW airAt \in AirTimes \cup {NoTime},
           Enqueue(c, p, airAt)
    PROVE  IInv'
<1> DEFINE call == [step |-> IF Live(jobs[p]) THEN "update" ELSE FirstWrite, plan |-> p,
                    airAt |-> airAt, at |-> now, copy |-> jobs[p]]
           more == given[p] \cup ({airAt} \ {NoTime})
<1>1. call \in Calls /\ call.step # "idle" /\ call.plan = p /\ call.airAt = airAt /\ call.copy = jobs[p]
      /\ (call.step \in {"update", "state"} => Live(jobs[p]))
  BY DEF IInv, TypeOK, Calls, FirstWrite
<1>2. clients' = [clients EXCEPT ![c] = call] /\ given' = [given EXCEPT ![p] = more]
      /\ UNCHANGED <<plans, jobs, outputs, stems, sidecar, now, raced>>
  BY DEF Enqueue
<1>3. more \subseteq AirTimes /\ given[p] \subseteq more /\ airAt \in more \cup {NoTime}
  BY DEF IInv, TypeOK
<1>4. spent' \in [{"enqueues", "faults", "deaths"} -> Nat]
  BY SpendType DEF IInv, Enqueue
<1> HIDE DEF call, more
<1>5. clients' \in [Clients -> Calls] /\ clients'[c] = call
      /\ \A d \in Clients : d # c => clients'[d] = clients[d]
  BY <1>1, <1>2 DEF IInv, TypeOK
<1>6. given' \in [Plans -> SUBSET AirTimes] /\ airAt \in given'[p] \cup {NoTime}
      /\ \A q \in Plans : given[q] \subseteq given'[q]
  BY <1>2, <1>3 DEF IInv, TypeOK
<1>7. TypeOK'
  BY <1>2, <1>4, <1>5, <1>6 DEF IInv, TypeOK
<1>8. AirGiven'
  <2>1. \A q \in Plans : jobs[q].airAt \in given'[q] \cup {NoTime} /\ sidecar.seen[q].airAt \in given'[q] \cup {NoTime}
    BY <1>6 DEF IInv, AirGiven
  <2>2. ASSUME NEW d \in Clients, clients'[d].step # "idle"
        PROVE  /\ clients'[d].airAt \in given'[clients'[d].plan] \cup {NoTime}
               /\ clients'[d].copy.airAt \in given'[clients'[d].plan] \cup {NoTime}
    <3>1. CASE d = c
      BY <1>1, <1>5, <1>6, <2>1, <3>1
    <3>2. CASE d # c
      BY <1>5, <1>6, <2>2, <3>2 DEF IInv, AirGiven, Planned
    <3> QED BY <3>1, <3>2
  <2> QED BY <1>2, <2>1, <2>2 DEF AirGiven
<1>9. Planned'
  <2>1. Live(jobs[p]) => p \in plans
    BY DEF IInv, Planned, Live
  <2> QED BY <1>1, <1>2, <1>5, <2>1 DEF IInv, Planned
<1>10. Listed'
  BY <1>2 DEF IInv, Listed
<1> QED BY <1>7, <1>8, <1>9, <1>10 DEF IInv

\* A state that is written has a plan and an air time that was given.
LEMMA Written ==
    ASSUME IInv, NEW p \in plans, NEW copy, NEW job \in Job, WriteJob(p, copy, job),
           job.airAt \in given[p] \cup {NoTime}
    PROVE  /\ p \in Plans
           /\ jobs' \in [Plans -> Job] /\ raced' \subseteq Plans
           /\ jobs'[p] = job /\ \A q \in Plans : q # p => jobs'[q] = jobs[q]
           /\ \A q \in Plans : jobs'[q].airAt \in given[q] \cup {NoTime}
           /\ \A q \in Plans : jobs'[q].status # "none" => q \in plans
<1>1. p \in Plans
  BY DEF IInv, TypeOK
<1>2. jobs' \in [Plans -> Job] /\ jobs'[p] = job /\ raced' \subseteq Plans
      /\ \A q \in Plans : q # p => jobs'[q] = jobs[q]
  BY <1>1 DEF IInv, TypeOK, WriteJob
<1> QED BY <1>1, <1>2 DEF IInv, AirGiven, Planned

\* A process that has written its state, or dies, holds nothing.
LEMMA CallEnds ==
    ASSUME IInv, NEW c \in Clients, clients' = [clients EXCEPT ![c] = Idle],
           \/ UNCHANGED <<jobs, raced>>
           \/ \E copy : \E job \in Job :
                /\ clients[c].step \in {"update", "state"}
                /\ job.airAt \in given[clients[c].plan] \cup {NoTime}
                /\ WriteJob(clients[c].plan, copy, job),
           UNCHANGED <<plans, outputs, stems, sidecar, now, given>>,
           spent' \in [{"enqueues", "faults", "deaths"} -> Nat]
    PROVE  IInv'
<1>1. clients' \in [Clients -> Calls] /\ clients'[c].step = "idle"
      /\ \A d \in Clients : d # c => clients'[d] = clients[d]
  BY NothingHeld DEF IInv, TypeOK, Idle
<1>2. /\ jobs' \in [Plans -> Job] /\ raced' \subseteq Plans
      /\ \A q \in Plans : jobs'[q].airAt \in given[q] \cup {NoTime}
      /\ \A q \in Plans : jobs'[q].status # "none" => q \in plans
  <2>1. CASE UNCHANGED <<jobs, raced>>
    BY <2>1 DEF IInv, TypeOK, AirGiven, Planned
  <2>2. ASSUME NEW copy, NEW job \in Job,
               clients[c].step \in {"update", "state"},
               job.airAt \in given[clients[c].plan] \cup {NoTime},
               WriteJob(clients[c].plan, copy, job)
        PROVE  /\ jobs' \in [Plans -> Job] /\ raced' \subseteq Plans
               /\ \A q \in Plans : jobs'[q].airAt \in given[q] \cup {NoTime}
               /\ \A q \in Plans : jobs'[q].status # "none" => q \in plans
    <3>1. clients[c].plan \in plans
      BY <2>2 DEF IInv, Planned
    <3> QED BY <2>2, <3>1, Written
  <2> QED BY <2>1, <2>2
<1>3. TypeOK'
  BY <1>1, <1>2 DEF IInv, TypeOK
<1>4. AirGiven'
  BY <1>1, <1>2 DEF IInv, AirGiven
<1>5. Planned'
  BY <1>1, <1>2 DEF IInv, Planned
<1>6. Listed'
  BY DEF IInv, Listed
<1> QED BY <1>3, <1>4, <1>5, <1>6 DEF IInv

LEMMA ClientStep ==
    ASSUME IInv, NEW c \in Clients, Client(c) \/ ClientDies(c)
    PROVE  IInv'
<1>1. clients[c] \in Calls /\ spent \in [{"enqueues", "faults", "deaths"} -> Nat]
  BY DEF IInv, TypeOK
<1>2. CASE UpdateAirTime(c)
  <2> DEFINE job == [clients[c].copy EXCEPT !.airAt = clients[c].airAt]
  <2>1. job \in Job /\ job.airAt = clients[c].airAt
    BY <1>1 DEF Calls, Job
  <2>2. job.airAt \in given[clients[c].plan] \cup {NoTime}
    BY <1>2, <2>1 DEF UpdateAirTime, IInv, AirGiven
  <2>3. WriteJob(clients[c].plan, clients[c].copy, job) /\ clients[c].step = "update"
        /\ clients' = [clients EXCEPT ![c] = Idle]
        /\ UNCHANGED <<plans, outputs, stems, sidecar, now, given, spent>>
    BY <1>2 DEF UpdateAirTime
  <2> HIDE DEF job
  <2> QED BY <1>1, <2>1, <2>2, <2>3, CallEnds
<1>3. CASE WritePlan(c)
  <2> DEFINE call == [clients[c] EXCEPT !.step = "state"]
  <2>1. call \in Calls /\ call.step = "state" /\ call.plan = clients[c].plan
        /\ call.airAt = clients[c].airAt /\ call.copy = clients[c].copy
    BY <1>1 DEF Calls
  <2>2. clients' = [clients EXCEPT ![c] = call]
    BY <1>3 DEF WritePlan, IInv, TypeOK
  <2> HIDE DEF call
  <2>3. clients' \in [Clients -> Calls] /\ clients'[c] = call
        /\ \A d \in Clients : d # c => clients'[d] = clients[d]
    BY <2>1, <2>2 DEF IInv, TypeOK
  <2>4. clients[c].step = "plan" /\ clients[c].plan \in Plans /\ plans' = plans \cup {clients[c].plan}
        /\ UNCHANGED <<jobs, outputs, stems, sidecar, now, given, raced, spent>>
    BY <1>3 DEF WritePlan, IInv, Planned
  <2>5. TypeOK'
    BY <2>3, <2>4 DEF IInv, TypeOK
  <2>6. AirGiven'
    BY <2>1, <2>3, <2>4 DEF IInv, AirGiven
  <2>7. Planned'
    BY <2>1, <2>3, <2>4 DEF IInv, Planned
  <2>8. Listed'
    BY <2>4 DEF IInv, Listed
  <2> QED BY <2>5, <2>6, <2>7, <2>8 DEF IInv
<1>4. CASE WriteState(c)
  <2> DEFINE job == [status |-> "queued", enqueuedAt |-> clients[c].at, airAt |-> clients[c].airAt]
  <2>1. job \in Job /\ job.airAt = clients[c].airAt
    BY <1>1 DEF Calls, Job, Status
  <2>2. job.airAt \in given[clients[c].plan] \cup {NoTime}
    BY <1>4, <2>1 DEF WriteState, IInv, AirGiven
  <2>3. WriteJob(clients[c].plan, clients[c].copy, job) /\ clients[c].step = "state"
        /\ clients' = [clients EXCEPT ![c] = Idle]
        /\ UNCHANGED <<plans, outputs, stems, sidecar, now, given, spent>>
    BY <1>4 DEF WriteState
  <2> HIDE DEF job
  <2> QED BY <1>1, <2>1, <2>2, <2>3, CallEnds
<1>5. CASE ClientDies(c)
  BY <1>5, SpendType, CallEnds DEF ClientDies, IInv
<1> QED BY <1>2, <1>3, <1>4, <1>5 DEF Client

-----------------------------------------------------------------------------
(* The sidecar.                                                               *)

\* Any step that leaves the state files alone and lists nothing but them.
LEMMA SidecarStep ==
    ASSUME IInv, sidecar' \in Sidecars,
           \A p \in Plans : sidecar'.seen[p] \in {jobs[p], sidecar.seen[p]},
           sidecar'.step \in {"claim", "render", "done", "failed", "mark"} => sidecar'.plan \in plans,
           Listed',
           outputs' \subseteq Plans, stems' \subseteq UNION Range(Uses),
           spent' \in [{"enqueues", "faults", "deaths"} -> Nat],
           UNCHANGED <<plans, jobs, clients, now, given, raced>>
    PROVE  IInv'
<1>1. TypeOK'
  BY DEF IInv, TypeOK
<1>2. AirGiven'
  BY DEF IInv, AirGiven
<1>3. Planned'
  BY DEF IInv, Planned
<1> QED BY <1>1, <1>2, <1>3 DEF IInv

\* A state that the sidecar writes has the air time of its listing, and is off
\* the list.
LEMMA SidecarWritesStep ==
    ASSUME IInv, NEW p \in plans, NEW status \in Status, NEW step \in Steps,
           NEW todo \in SUBSET sidecar.todo,
           SidecarWrites(p, status, step, todo),
           p \notin todo,
           step \in {"claim", "render", "done", "failed", "mark"} => sidecar.plan \in plans,
           step = "recover" => sidecar.step = "recover",
           step \in {"evict", "mark"} => sidecar.step \in {"evict", "mark"},
           UNCHANGED <<plans, outputs, stems, clients, now, given, spent>>
    PROVE  IInv'
<1> DEFINE job == [sidecar.seen[p] EXCEPT !.status = status]
<1>1. sidecar \in Sidecars /\ p \in Plans
  BY DEF IInv, TypeOK
<1>2. job \in Job /\ job.airAt = sidecar.seen[p].airAt
  BY <1>1 DEF Sidecars, Job
<1>3. WriteJob(p, sidecar.seen[p], job)
      /\ sidecar' = [sidecar EXCEPT !.step = step, !.todo = todo, !.seen[p] = job]
  BY DEF SidecarWrites
<1>4. job.airAt \in given[p] \cup {NoTime}
  BY <1>1, <1>2 DEF IInv, AirGiven
<1> HIDE DEF job
<1>5. /\ jobs' \in [Plans -> Job] /\ raced' \subseteq Plans
      /\ \A q \in Plans : jobs'[q].airAt \in given[q] \cup {NoTime}
      /\ \A q \in Plans : jobs'[q].status # "none" => q \in plans
  BY <1>2, <1>3, <1>4, Written
<1>6. sidecar' = [step |-> step, plan |-> sidecar.plan, seen |-> [sidecar.seen EXCEPT ![p] = job],
                  todo |-> todo, total |-> sidecar.total, at |-> sidecar.at]
  BY <1>1, <1>3 DEF Sidecars
<1>7. [sidecar.seen EXCEPT ![p] = job] \in [Plans -> Job]
  BY <1>1, <1>2 DEF Sidecars
<1>8. sidecar' \in Sidecars
  BY <1>1, <1>6, <1>7 DEF Sidecars
<1>9. sidecar'.seen[p] = job /\ \A q \in Plans : q # p => sidecar'.seen[q] = sidecar.seen[q]
  BY <1>1, <1>6 DEF Sidecars
<1>10. TypeOK'
  BY <1>5, <1>8 DEF IInv, TypeOK
<1>11. AirGiven'
  BY <1>4, <1>5, <1>9 DEF IInv, AirGiven
<1>12. Planned'
  BY <1>5, <1>6, <1>9 DEF IInv, Planned
<1>13. Listed'
  <2>1. todo \subseteq Plans
    BY <1>1 DEF Sidecars
  <2>2. \A q \in todo : sidecar'.seen[q] = sidecar.seen[q]
    BY <1>9, <2>1
  <2> QED BY <1>6, <2>2 DEF IInv, Listed
<1> QED BY <1>10, <1>11, <1>12, <1>13 DEF IInv

LEMMA StartStep ==
    ASSUME IInv, Start
    PROVE  IInv'
<1>1. sidecar' = [step |-> "recover", plan |-> NoPlan, seen |-> jobs, todo |-> Interrupted,
                  total |-> 0, at |-> 0]
      /\ UNCHANGED <<plans, jobs, outputs, stems, clients, now, given, raced, spent>>
  BY DEF Start, Down
<1>2. jobs \in [Plans -> Job] /\ now \in Nat /\ 0 \in 0 .. MaxNow
  BY BoundAssumption DEF IInv, TypeOK
<1>3. sidecar' \in Sidecars
  BY <1>1, <1>2 DEF Sidecars, Steps, Interrupted
<1>4. Listed'
  BY <1>1, <1>2 DEF Listed, Interrupted
<1> QED BY <1>1, <1>3, <1>4, SidecarStep DEF IInv, TypeOK

LEMMA RecoverStep ==
    ASSUME IInv, Recover
    PROVE  IInv'
<1>1. sidecar \in Sidecars /\ sidecar.step = "recover"
      /\ UNCHANGED <<plans, outputs, stems, clients, now, given, spent>>
  BY DEF IInv, TypeOK, Recover
<1>2. CASE sidecar.todo = {}
  <2>1. sidecar' = [sidecar EXCEPT !.step = "cap"] /\ UNCHANGED <<jobs, raced>>
    BY <1>2 DEF Recover
  <2>2. sidecar' \in Sidecars /\ sidecar'.seen = sidecar.seen /\ sidecar'.step = "cap" /\ sidecar'.at = sidecar.at
    BY <1>1, <2>1 DEF Sidecars, Steps
  <2>3. Listed'
    BY <1>1, <2>2 DEF IInv, Listed
  <2> QED BY <1>1, <2>1, <2>2, <2>3, SidecarStep DEF IInv, TypeOK
<1>3. CASE sidecar.todo # {}
  <2> DEFINE p == First(sidecar.todo, sidecar.seen)
  <2>1. p \in sidecar.todo /\ sidecar.todo \subseteq Plans
    BY <1>1, <1>3, FirstIsOneOf DEF Sidecars
  <2>2. SidecarWrites(p, "queued", "recover", sidecar.todo \ {p})
    BY <1>3 DEF Recover
  <2> HIDE DEF p
  <2>3. p \in plans
    BY <1>1, <2>1 DEF IInv, Listed, Planned
  <2>4. "queued" \in Status /\ "recover" \in Steps
    BY DEF Status, Steps
  <2> QED BY <1>1, <2>1, <2>2, <2>3, <2>4, SidecarWritesStep
<1> QED BY <1>2, <1>3

LEMMA TakeStep ==
    ASSUME IInv, Take
    PROVE  IInv'
<1> DEFINE waiting == {p \in Plans : jobs[p].status = "queued"}
           next    == First(waiting, jobs)
<1>1. sidecar \in Sidecars /\ jobs \in [Plans -> Job]
  BY DEF IInv, TypeOK
<1>2. next \in waiting
  BY <1>1, FirstIsOneOf DEF Take
<1>3. next \in plans /\ next \in Plans
  BY <1>2 DEF IInv, Planned
<1>4. sidecar' = [sidecar EXCEPT !.step = "claim", !.seen = jobs, !.plan = next]
      /\ UNCHANGED <<plans, jobs, outputs, stems, clients, now, given, raced, spent>>
  BY DEF Take
<1> HIDE DEF next
<1>5. sidecar' \in Sidecars /\ sidecar'.step = "claim" /\ sidecar'.seen = jobs /\ sidecar'.plan = next
      /\ sidecar'.at = sidecar.at
  BY <1>1, <1>3, <1>4 DEF Sidecars, Steps
<1>6. Listed'
  BY <1>4, <1>5 DEF IInv, Listed
<1> QED BY <1>3, <1>4, <1>5, <1>6, SidecarStep DEF IInv, TypeOK

LEMMA ClaimStep ==
    ASSUME IInv, Claim
    PROVE  IInv'
<1>1. sidecar.plan \in plans /\ SidecarWrites(sidecar.plan, "running", "render", {})
      /\ UNCHANGED <<plans, outputs, stems, clients, now, given, spent>>
  BY DEF IInv, Planned, Claim
<1>2. "running" \in Status /\ "render" \in Steps
  BY DEF Status, Steps
<1> QED BY <1>1, <1>2, SidecarWritesStep

LEMMA ReportStep ==
    ASSUME IInv, Report
    PROVE  IInv'
<1>1. sidecar.plan \in plans /\ SidecarWrites(sidecar.plan, sidecar.step, "cap", {})
      /\ UNCHANGED <<plans, outputs, stems, clients, now, given, spent>>
  BY DEF IInv, Planned, Report
<1>2. sidecar.step \in Status /\ "cap" \in Steps
  BY DEF Report, Status, Steps
<1> QED BY <1>1, <1>2, SidecarWritesStep

\* A render uses the stems of its plan, whether it ends well or fails.
LEMMA RenderStep ==
    ASSUME IInv, Renders \/ FailsToRender
    PROVE  IInv'
<1>1. sidecar \in Sidecars /\ sidecar.plan \in plans /\ sidecar.plan \in Plans
      /\ UNCHANGED <<plans, jobs, clients, now, given, raced>>
  BY DEF IInv, TypeOK, Planned, Renders, FailsToRender
<1>2. Uses[sidecar.plan] \in Range(Uses)
  BY <1>1, PlanAssumption DEF Range
<1>3. outputs' \subseteq Plans /\ stems' \subseteq UNION Range(Uses)
  BY <1>1, <1>2 DEF IInv, TypeOK, Renders, FailsToRender
<1>4. spent' \in [{"enqueues", "faults", "deaths"} -> Nat]
  BY SpendType DEF IInv, TypeOK, Renders, FailsToRender
<1>5. \E step \in {"done", "failed"} : sidecar' = [sidecar EXCEPT !.step = step]
  BY DEF Renders, FailsToRender
<1>6. /\ sidecar' \in Sidecars /\ sidecar'.step \in {"done", "failed"}
      /\ sidecar'.seen = sidecar.seen /\ sidecar'.plan = sidecar.plan /\ sidecar'.at = sidecar.at
  BY <1>1, <1>5 DEF Sidecars, Steps
<1>7. Listed'
  BY <1>1, <1>6 DEF IInv, Listed
<1> QED BY <1>1, <1>3, <1>4, <1>6, <1>7, SidecarStep

-----------------------------------------------------------------------------
(* enforce_cap.                                                               *)

\* The list is as fresh as the clock when it is made.
LEMMA ListForCapStep ==
    ASSUME IInv, ListForCap
    PROVE  IInv'
<1> DEFINE aired == {p \in Plans : jobs[p].status = "done" /\ HasAired(jobs[p], now)}
           used  == Used
<1>1. sidecar \in Sidecars /\ jobs \in [Plans -> Job] /\ now \in 0 .. MaxNow /\ aired \subseteq Plans
  BY DEF IInv, TypeOK
<1>2. sidecar' = [sidecar EXCEPT
                    !.step = IF used =< Cap THEN "poll" ELSE "evict",
                    !.plan = NoPlan, !.seen = jobs, !.total = used, !.at = now,
                    !.todo = IF used =< Cap THEN {} ELSE aired]
      /\ UNCHANGED <<plans, jobs, outputs, stems, clients, now, given, raced, spent>>
  BY DEF ListForCap
<1>3. used \in Int
  <2>1. IsFiniteSet(stems)
    BY PlanAssumption, FS_Subset DEF IInv, TypeOK
  <2>2. IsFiniteSet({p \in outputs : jobs[p].status = "done"})
    BY PlanAssumption, FS_Subset DEF IInv, TypeOK
  <2> QED BY <2>1, <2>2, FS_CardinalityType DEF Used
<1> HIDE DEF used, aired
<1>4. /\ sidecar' \in Sidecars /\ sidecar'.step \in {"poll", "evict"}
      /\ sidecar'.seen = jobs /\ sidecar'.at = now /\ sidecar'.todo \subseteq aired
  BY <1>1, <1>2, <1>3 DEF Sidecars, Steps
<1>5. Listed'
  BY <1>1, <1>2, <1>4 DEF Listed, aired
<1> QED BY <1>2, <1>4, <1>5, SidecarStep DEF IInv, TypeOK

LEMMA SweepStemsStep ==
    ASSUME IInv, SweepStems
    PROVE  IInv'
<1>1. sidecar \in Sidecars /\ sidecar.step = "evict" /\ sidecar' = [sidecar EXCEPT !.total = @ - 1]
      /\ UNCHANGED <<plans, jobs, outputs, clients, now, given, raced, spent>>
  BY DEF IInv, TypeOK, SweepStems
<1>2. /\ sidecar' \in Sidecars /\ sidecar'.step = "evict"
      /\ sidecar'.seen = sidecar.seen /\ sidecar'.todo = sidecar.todo /\ sidecar'.at = sidecar.at
  BY <1>1 DEF Sidecars
<1>3. stems' \subseteq UNION Range(Uses)
  BY DEF IInv, TypeOK, SweepStems
<1>4. Listed'
  BY <1>1, <1>2 DEF IInv, Listed
<1> QED BY <1>1, <1>2, <1>3, <1>4, SidecarStep DEF IInv, TypeOK

LEMMA RemoveOutputStep ==
    ASSUME IInv, RemoveOutput
    PROVE  IInv'
<1>1. sidecar \in Sidecars /\ sidecar.step = "evict" /\ Eldest \in sidecar.todo
  BY EldestIsOneOf DEF IInv, TypeOK, RemoveOutput, OverCap
<1>2. Eldest \in Plans /\ Eldest \in plans
  BY <1>1 DEF Sidecars, IInv, Listed, Planned
<1> DEFINE left == sidecar.total - (IF Eldest \in outputs THEN 1 ELSE 0)
<1>3. left \in Int
  BY <1>1 DEF Sidecars
<1>4. sidecar' = [sidecar EXCEPT !.step = "mark", !.plan = Eldest, !.total = left]
      /\ outputs' = outputs \ {Eldest}
      /\ UNCHANGED <<plans, jobs, stems, clients, now, given, raced, spent>>
  BY DEF RemoveOutput
<1> HIDE DEF left
<1>5. /\ sidecar' \in Sidecars /\ sidecar'.step = "mark" /\ sidecar'.plan = Eldest
      /\ sidecar'.seen = sidecar.seen /\ sidecar'.todo = sidecar.todo /\ sidecar'.at = sidecar.at
  BY <1>1, <1>2, <1>3, <1>4 DEF Sidecars, Steps
<1>6. Listed'
  BY <1>1, <1>4, <1>5 DEF IInv, Listed
<1> QED BY <1>2, <1>4, <1>5, <1>6, SidecarStep DEF IInv, TypeOK

LEMMA FailsToRemoveStep ==
    ASSUME IInv, FailsToRemove
    PROVE  IInv'
<1>1. sidecar \in Sidecars /\ sidecar' = [sidecar EXCEPT !.todo = @ \ {Eldest}]
      /\ UNCHANGED <<plans, jobs, outputs, stems, clients, now, given, raced>>
  BY DEF IInv, TypeOK, FailsToRemove
<1>2. spent' \in [{"enqueues", "faults", "deaths"} -> Nat]
  BY SpendType DEF IInv, FailsToRemove
<1>3. /\ sidecar' \in Sidecars /\ sidecar'.step = sidecar.step /\ sidecar'.plan = sidecar.plan
      /\ sidecar'.seen = sidecar.seen /\ sidecar'.todo \subseteq sidecar.todo /\ sidecar'.at = sidecar.at
  BY <1>1 DEF Sidecars
<1>4. Listed'
  BY <1>1, <1>3 DEF IInv, Listed
<1>5. sidecar'.step \in {"claim", "render", "done", "failed", "mark"} => sidecar'.plan \in plans
  BY <1>3 DEF IInv, Planned
<1> QED BY <1>1, <1>2, <1>3, <1>4, <1>5, SidecarStep DEF IInv, TypeOK

LEMMA MarkStep ==
    ASSUME IInv, Mark
    PROVE  IInv'
<1>1. sidecar.step = "mark" /\ sidecar.plan \in plans
      /\ SidecarWrites(sidecar.plan, "evicted", "evict", sidecar.todo \ {sidecar.plan})
      /\ UNCHANGED <<plans, outputs, stems, clients, now, given, spent>>
  BY DEF IInv, Planned, Mark
<1>2. "evicted" \in Status /\ "evict" \in Steps
  BY DEF Status, Steps
<1> QED BY <1>1, <1>2, SidecarWritesStep

LEMMA CapEnforcedStep ==
    ASSUME IInv, CapEnforced
    PROVE  IInv'
<1>1. sidecar \in Sidecars /\ sidecar' = [sidecar EXCEPT !.step = "poll", !.todo = {}]
      /\ UNCHANGED <<plans, jobs, outputs, stems, clients, now, given, raced, spent>>
  BY DEF IInv, TypeOK, CapEnforced
<1>2. /\ sidecar' \in Sidecars /\ sidecar'.step = "poll"
      /\ sidecar'.seen = sidecar.seen /\ sidecar'.at = sidecar.at
  BY <1>1 DEF Sidecars, Steps
<1>3. Listed'
  BY <1>1, <1>2 DEF IInv, Listed
<1> QED BY <1>1, <1>2, <1>3, SidecarStep DEF IInv, TypeOK

-----------------------------------------------------------------------------
LEMMA SidecarDiesStep ==
    ASSUME IInv, SidecarDies
    PROVE  IInv'
<1>1. sidecar' = Down /\ UNCHANGED <<plans, jobs, outputs, stems, clients, now, given, raced>>
  BY DEF SidecarDies
<1>2. TypeOK'
  BY <1>1, NothingHeld, SpendType DEF IInv, TypeOK, SidecarDies
<1>3. AirGiven'
  BY <1>1 DEF IInv, AirGiven, Down, NoJob
<1>4. Planned'
  BY <1>1 DEF IInv, Planned, Down, NoJob
<1>5. Listed'
  BY <1>1, BoundAssumption DEF IInv, TypeOK, Listed, Down
<1> QED BY <1>2, <1>3, <1>4, <1>5 DEF IInv

LEMMA TickStep ==
    ASSUME IInv, Tick
    PROVE  IInv'
<1>1. now' = now + 1 /\ now' \in 0 .. MaxNow
      /\ UNCHANGED <<plans, jobs, outputs, stems, clients, sidecar, given, raced, spent>>
  BY BoundAssumption DEF IInv, TypeOK, Tick
<1>2. sidecar.at \in Nat /\ now \in Nat
  BY DEF IInv, TypeOK, Sidecars
<1>3. TypeOK' /\ AirGiven' /\ Planned'
  BY <1>1 DEF IInv, TypeOK, AirGiven, Planned
<1>4. Listed'
  BY <1>1, <1>2 DEF IInv, Listed
<1> QED BY <1>3, <1>4 DEF IInv

LEMMA NextInv == IInv /\ [Next]_vars => IInv'
<1> SUFFICES ASSUME IInv, [Next]_vars PROVE IInv'
  OBVIOUS
<1>1. CASE \E c \in Clients :
            \/ \E p \in Plans, airAt \in AirTimes \cup {NoTime} : Enqueue(c, p, airAt)
            \/ Client(c)
            \/ ClientDies(c)
  BY <1>1, EnqueueStep, ClientStep
<1>2. CASE Sidecar
  BY <1>2, StartStep, RecoverStep, TakeStep, ClaimStep, RenderStep, ReportStep, ListForCapStep,
     SweepStemsStep, RemoveOutputStep, MarkStep, CapEnforcedStep DEF Sidecar
<1>3. CASE FailsToRender \/ FailsToRemove \/ SidecarDies
  BY <1>3, RenderStep, FailsToRemoveStep, SidecarDiesStep
<1>4. CASE Tick
  BY <1>4, TickStep
<1>5. CASE UNCHANGED vars
  <2>1. TypeOK' /\ AirGiven'
    BY <1>5 DEF vars, IInv, TypeOK, AirGiven
  <2>2. Planned' /\ Listed'
    BY <1>5 DEF vars, IInv, Planned, Listed
  <2> QED BY <2>1, <2>2 DEF IInv
<1> QED BY <1>1, <1>2, <1>3, <1>4, <1>5 DEF Next

LEMMA Invariance == Spec => []IInv
BY InitInv, NextInv, PTL DEF Spec

\* The state files, the copies and the listings hold what JobState describes.
THEOREM TypeCorrect == Spec => []TypeOK
<1>1. IInv => TypeOK
  BY DEF IInv
<1> QED BY <1>1, Invariance, PTL

\* enqueue puts the plan before the state, and no state that it or the sidecar
\* writes later is without one: a render never fails for want of a plan.
THEOREM Jobs_HavePlans == Spec => []JobsHavePlans
<1>1. IInv => JobsHavePlans
  BY DEF IInv, Planned, JobsHavePlans
<1> QED BY <1>1, Invariance, PTL

-----------------------------------------------------------------------------
(* Who is removed has aired, and who is done stays whole until then.          *)

LEMMA RemovedHasAired ==
    ASSUME IInv, [Next]_vars, NEW p \in outputs, p \notin outputs'
    PROVE  Aired(p)
<1>1. RemoveOutput
  BY DEF Next, Enqueue, Client, UpdateAirTime, WritePlan, WriteState, ClientDies, Sidecar, Start,
     Recover, Take, Claim, Renders, FailsToRender, Report, ListForCap, SweepStems, FailsToRemove, Mark,
     CapEnforced, SidecarDies, Tick, vars
<1>2. p = Eldest /\ p \in sidecar.todo /\ sidecar \in Sidecars
  BY <1>1, EldestIsOneOf DEF IInv, TypeOK, RemoveOutput, OverCap
<1> DEFINE t == sidecar.seen[p].airAt
<1>3. p \in Plans /\ sidecar.seen[p] \in Job
  BY <1>2 DEF Sidecars
<1>4. HasAired(sidecar.seen[p], sidecar.at) /\ sidecar.at =< now
  BY <1>1, <1>2 DEF IInv, Listed, RemoveOutput, OverCap
<1>5. t \in given[p] /\ t \in Nat
  BY <1>3, <1>4, TimeAssumption DEF IInv, AirGiven, HasAired, Job
<1>6. sidecar.at \in Nat /\ now \in Nat /\ Length \in Nat /\ Lead \in Nat
  BY <1>2, TimeAssumption DEF IInv, TypeOK, Sidecars
<1>7. sidecar.at >= t + Length
  BY <1>4, <1>5, <1>6 DEF HasAired, Protected
<1>8. now >= t + Length
  BY <1>4, <1>5, <1>6, <1>7
<1> QED BY <1>5, <1>8 DEF Aired

\* enforce_cap removes no chapter before a time it was to air at is over, with
\* any number of enqueue processes and whoever overwrites whom.
THEOREM Never_BeforeAir == Spec => NeverBeforeAir
<1>1. IInv /\ [Next]_vars => [\A p \in outputs \ outputs' : Aired(p)]_vars
  BY RemovedHasAired
<1> QED BY <1>1, Invariance, PTL DEF Spec, NeverBeforeAir

\* A render that is to be reported left its output and its stems; a listing
\* that is acted on knows who is done, of those nobody overwrites.
Rendered == sidecar.step = "done" => sidecar.plan \in outputs /\ Uses[sidecar.plan] \subseteq stems
Known ==
    sidecar.step \in {"evict", "mark"} =>
        \A p \in Plans \ raced : jobs[p].status = "done" => sidecar.seen[p].status = "done"
DInv == DoneUntilAired /\ Rendered /\ Known

\* What has aired has aired.
LEMMA AiredStays ==
    ASSUME TypeOK, TypeOK', NEW p \in Plans, Aired(p), given[p] \subseteq given'[p], now =< now'
    PROVE  Aired(p)'
<1>1. PICK t \in given[p] : now >= t + Length
  BY DEF Aired
<1>2. t \in Nat /\ Length \in Nat /\ now \in Nat /\ now' \in Nat
  BY TimeAssumption, BoundAssumption DEF TypeOK
<1>3. t \in given'[p] /\ now' >= t + Length
  BY <1>1, <1>2
<1> QED BY <1>3 DEF Aired

\* A step that takes no file away and finishes no job.
LEMMA NothingLost ==
    ASSUME IInv, IInv', DoneUntilAired,
           outputs \subseteq outputs', stems \subseteq stems', raced \subseteq raced',
           \A p \in Plans : given[p] \subseteq given'[p],
           now =< now',
           \A p \in Plans \ raced' : jobs'[p].status = "done" => jobs[p].status = "done"
    PROVE  DoneUntilAired'
<1> SUFFICES ASSUME NEW p \in Plans \ raced', jobs'[p].status = "done"
             PROVE  Aired(p)' \/ (p \in outputs' /\ Uses[p] \subseteq stems')
  BY DEF DoneUntilAired
<1>1. Aired(p) \/ (p \in outputs /\ Uses[p] \subseteq stems)
  BY DEF DoneUntilAired
<1> QED BY <1>1, AiredStays DEF IInv

LEMMA InitDone == Init => DInv
BY DEF Init, DInv, DoneUntilAired, Rendered, Known, Down, NoJob

\* An enqueue process makes nobody done but by an old copy, which is a race.
LEMMA CallKeepsDone ==
    ASSUME IInv, IInv', DInv, NEW c \in Clients,
           (\E p \in Plans, airAt \in AirTimes \cup {NoTime} : Enqueue(c, p, airAt)) \/ Client(c) \/ ClientDies(c)
    PROVE  DInv'
<1>1. UNCHANGED <<outputs, stems, sidecar, now>>
  BY DEF Enqueue, Client, UpdateAirTime, WritePlan, WriteState, ClientDies
<1>2. \A p \in Plans : given[p] \subseteq given'[p]
  BY DEF IInv, TypeOK, Enqueue, Client, UpdateAirTime, WritePlan, WriteState, ClientDies
<1>3. raced \subseteq raced' /\ \A p \in Plans \ raced' : jobs'[p].status = "done" => jobs[p].status = "done"
  <2>1. CASE UNCHANGED <<jobs, raced>>
    BY <2>1
  <2>2. CASE UpdateAirTime(c)
    <3> DEFINE p == clients[c].plan
               job == [clients[c].copy EXCEPT !.airAt = clients[c].airAt]
    <3>1. p \in Plans /\ job.status = clients[c].copy.status
      BY <2>2 DEF UpdateAirTime, IInv, TypeOK, Planned, Calls, Job
    <3>2. jobs' = [jobs EXCEPT ![p] = job] /\ raced' = IF clients[c].copy = jobs[p] THEN raced ELSE raced \cup {p}
      BY <2>2 DEF UpdateAirTime, WriteJob
    <3> HIDE DEF p, job
    <3> QED BY <3>1, <3>2 DEF IInv, TypeOK
  <2>3. CASE WriteState(c)
    <3> DEFINE p == clients[c].plan
               job == [status |-> "queued", enqueuedAt |-> clients[c].at, airAt |-> clients[c].airAt]
    <3>1. job.status = "queued"
      OBVIOUS
    <3>2. jobs' = [jobs EXCEPT ![p] = job] /\ raced \subseteq raced'
      BY <2>3 DEF WriteState, WriteJob
    <3> HIDE DEF p, job
    <3> QED BY <3>1, <3>2 DEF IInv, TypeOK
  <2> QED BY <2>1, <2>2, <2>3 DEF Enqueue, Client, WritePlan, ClientDies
<1>4. now =< now'
  BY <1>1 DEF IInv, TypeOK
<1>5. DoneUntilAired'
  BY <1>1, <1>2, <1>3, <1>4, NothingLost DEF DInv
<1>6. Rendered' /\ Known'
  BY <1>1, <1>3 DEF DInv, Rendered, Known
<1> QED BY <1>5, <1>6 DEF DInv

\* The sidecar makes done what it rendered, and notes who no longer is.
LEMMA WriteKeepsDone ==
    ASSUME IInv, IInv', DInv, NEW p \in Plans, NEW status \in Status, NEW step \in Steps \ {"done"}, NEW todo,
           SidecarWrites(p, status, step, todo),
           status = "done" => sidecar.step = "done" /\ p = sidecar.plan,
           step \in {"evict", "mark"} => sidecar.step \in {"evict", "mark"},
           UNCHANGED <<outputs, stems, now, given>>
    PROVE  DInv'
<1> DEFINE job == [sidecar.seen[p] EXCEPT !.status = status]
<1>1. sidecar \in Sidecars /\ sidecar.seen[p] \in Job
  BY DEF IInv, TypeOK, Sidecars
<1>2. job.status = status
  BY <1>1 DEF Job
<1>3. jobs' = [jobs EXCEPT ![p] = job] /\ raced \subseteq raced'
      /\ sidecar' = [sidecar EXCEPT !.step = step, !.todo = todo, !.seen[p] = job]
  BY DEF SidecarWrites, WriteJob
<1> HIDE DEF job
<1>4. jobs'[p] = job /\ \A q \in Plans : q # p => jobs'[q] = jobs[q]
  BY <1>3 DEF IInv, TypeOK
<1>5. sidecar'.step = step /\ sidecar'.seen[p] = job
      /\ \A q \in Plans : q # p => sidecar'.seen[q] = sidecar.seen[q]
  BY <1>1, <1>3 DEF Sidecars
<1>6. ASSUME NEW q \in Plans \ raced', jobs'[q].status = "done"
      PROVE  Aired(q)' \/ (q \in outputs' /\ Uses[q] \subseteq stems')
  <2>1. CASE q = p
    BY <1>2, <1>4, <1>6, <2>1 DEF DInv, Rendered
  <2>2. CASE q # p
    <3>1. Aired(q) \/ (q \in outputs /\ Uses[q] \subseteq stems)
      BY <1>3, <1>4, <1>6, <2>2 DEF DInv, DoneUntilAired
    <3> QED BY <3>1 DEF Aired
  <2> QED BY <2>1, <2>2
<1>7. DoneUntilAired'
  BY <1>6 DEF DoneUntilAired
<1>8. Rendered' /\ Known'
  BY <1>3, <1>4, <1>5 DEF DInv, Rendered, Known
<1> QED BY <1>7, <1>8 DEF DInv

\* A step of the sidecar that writes no state and removes no file.
LEMMA LookKeepsDone ==
    ASSUME IInv, IInv', DInv,
           outputs \subseteq outputs', stems \subseteq stems',
           UNCHANGED <<jobs, now, given, raced>>,
           sidecar'.step = "done" => sidecar'.plan \in outputs' /\ Uses[sidecar'.plan] \subseteq stems',
           sidecar'.step \in {"evict", "mark"} =>
                \/ sidecar'.seen = jobs
                \/ sidecar'.seen = sidecar.seen /\ sidecar.step \in {"evict", "mark"}
    PROVE  DInv'
<1>1. now =< now'
  BY DEF IInv, TypeOK
<1>2. DoneUntilAired'
  BY <1>1, NothingLost DEF DInv
<1>3. Rendered' /\ Known'
  BY DEF DInv, Rendered, Known
<1> QED BY <1>2, <1>3 DEF DInv

\* The stems of who is done are no orphans.
LEMMA SweepKeepsDone ==
    ASSUME IInv, IInv', DInv, SweepStems
    PROVE  DInv'
<1>1. PICK s \in Orphans : stems' = stems \ {s}
  BY DEF SweepStems
<1>2. UNCHANGED <<jobs, outputs, now, given, raced>> /\ sidecar.step = "evict"
      /\ sidecar'.step = "evict" /\ sidecar'.seen = sidecar.seen
  BY DEF SweepStems, IInv, TypeOK, Sidecars
<1>3. ASSUME NEW p \in Plans \ raced, jobs[p].status = "done"
      PROVE  Aired(p)' \/ (p \in outputs' /\ Uses[p] \subseteq stems')
  <2>1. s \notin Uses[p]
    BY <1>1, <1>2, <1>3 DEF DInv, Known, Orphans, StemsKept
  <2>2. Aired(p) \/ (p \in outputs /\ Uses[p] \subseteq stems)
    BY <1>3 DEF DInv, DoneUntilAired
  <2> QED BY <1>1, <1>2, <2>1, <2>2 DEF Aired
<1>4. DoneUntilAired'
  BY <1>2, <1>3 DEF DoneUntilAired
<1>5. Rendered' /\ Known'
  BY <1>2 DEF DInv, Rendered, Known
<1> QED BY <1>4, <1>5 DEF DInv

\* The output that is removed is of a chapter that has aired.
LEMMA RemovalKeepsDone ==
    ASSUME IInv, IInv', DInv, [Next]_vars, RemoveOutput
    PROVE  DInv'
<1>1. UNCHANGED <<jobs, stems, now, given, raced>> /\ sidecar.step = "evict"
      /\ sidecar'.step = "mark" /\ sidecar'.seen = sidecar.seen
  BY DEF RemoveOutput, OverCap, IInv, TypeOK, Sidecars
<1>2. ASSUME NEW p \in Plans \ raced, jobs[p].status = "done"
      PROVE  Aired(p)' \/ (p \in outputs' /\ Uses[p] \subseteq stems')
  <2>1. Aired(p) \/ (p \in outputs /\ Uses[p] \subseteq stems)
    BY <1>2 DEF DInv, DoneUntilAired
  <2>2. p \in outputs /\ p \notin outputs' => Aired(p)
    BY RemovedHasAired
  <2>3. Aired(p) => Aired(p)'
    BY <1>1 DEF Aired
  <2> QED BY <1>1, <2>1, <2>2, <2>3
<1>3. DoneUntilAired'
  BY <1>1, <1>2 DEF DoneUntilAired
<1>4. Rendered' /\ Known'
  BY <1>1 DEF DInv, Rendered, Known
<1> QED BY <1>3, <1>4 DEF DInv

LEMMA SidecarKeepsDone ==
    ASSUME IInv, IInv', DInv, [Next]_vars, Sidecar \/ FailsToRender \/ FailsToRemove
    PROVE  DInv'
<1>1. sidecar \in Sidecars /\ sidecar' \in Sidecars /\ jobs \in [Plans -> Job]
  BY DEF IInv, TypeOK
<1>2. CASE Start \/ Take \/ CapEnforced
  <2>1. sidecar'.step \in {"recover", "claim", "poll"}
        /\ UNCHANGED <<jobs, outputs, stems, now, given, raced>>
    BY <1>1, <1>2 DEF Start, Down, Take, CapEnforced, Sidecars
  <2> QED BY <2>1, LookKeepsDone
<1>3. CASE Recover
  <2>1. CASE sidecar.todo = {}
    <3>1. sidecar'.step = "cap" /\ UNCHANGED <<jobs, outputs, stems, now, given, raced>>
      BY <1>1, <1>3, <2>1 DEF Recover, Sidecars
    <3> QED BY <3>1, LookKeepsDone
  <2>2. CASE sidecar.todo # {}
    <3> DEFINE p == First(sidecar.todo, sidecar.seen)
    <3>1. p \in Plans
      BY <1>1, <2>2, FirstIsOneOf DEF Sidecars
    <3>2. SidecarWrites(p, "queued", "recover", sidecar.todo \ {p}) /\ UNCHANGED <<outputs, stems, now, given>>
      BY <1>3, <2>2 DEF Recover
    <3> HIDE DEF p
    <3>3. "queued" \in Status /\ "recover" \in Steps \ {"done"}
      BY DEF Status, Steps
    <3> QED BY <3>1, <3>2, <3>3, WriteKeepsDone
  <2> QED BY <2>1, <2>2
<1>4. CASE Claim \/ Report \/ Mark
  <2>1. sidecar.plan \in Plans /\ UNCHANGED <<outputs, stems, now, given>>
    BY <1>4 DEF IInv, TypeOK, Planned, Claim, Report, Mark
  <2>2. CASE Claim
    BY <2>1, <2>2, WriteKeepsDone DEF Claim, Status, Steps
  <2>3. CASE Report
    BY <2>1, <2>3, WriteKeepsDone DEF Report, Status, Steps
  <2>4. CASE Mark
    BY <2>1, <2>4, WriteKeepsDone DEF Mark, Status, Steps
  <2> QED BY <1>4, <2>2, <2>3, <2>4
<1>5. CASE Renders
  <2>1. sidecar'.step = "done" /\ sidecar'.plan = sidecar.plan
        /\ outputs' = outputs \cup {sidecar.plan} /\ stems' = stems \cup Uses[sidecar.plan]
        /\ UNCHANGED <<jobs, now, given, raced>>
    BY <1>1, <1>5 DEF Renders, Sidecars
  <2> QED BY <2>1, LookKeepsDone
<1>6. CASE FailsToRender
  <2>1. sidecar'.step = "failed" /\ stems \subseteq stems' /\ UNCHANGED <<jobs, outputs, now, given, raced>>
    BY <1>1, <1>6 DEF FailsToRender, Sidecars
  <2> QED BY <2>1, LookKeepsDone
<1>7. CASE ListForCap
  <2>1. sidecar'.step \in {"poll", "evict"} /\ sidecar'.seen = jobs
        /\ UNCHANGED <<jobs, outputs, stems, now, given, raced>>
    BY <1>1, <1>7 DEF ListForCap, Sidecars
  <2> QED BY <2>1, LookKeepsDone
<1>8. CASE SweepStems
  BY <1>8, SweepKeepsDone
<1>9. CASE RemoveOutput
  BY <1>9, RemovalKeepsDone
<1>10. CASE FailsToRemove
  <2>1. sidecar.step = "evict" /\ sidecar'.step = "evict" /\ sidecar'.seen = sidecar.seen
        /\ UNCHANGED <<jobs, outputs, stems, now, given, raced>>
    BY <1>1, <1>10 DEF FailsToRemove, OverCap, Sidecars
  <2> QED BY <2>1, LookKeepsDone
<1> QED BY <1>2, <1>3, <1>4, <1>5, <1>6, <1>7, <1>8, <1>9, <1>10 DEF Sidecar

LEMMA NextDone == IInv /\ IInv' /\ DInv /\ [Next]_vars => DInv'
<1> SUFFICES ASSUME IInv, IInv', DInv, [Next]_vars PROVE DInv'
  OBVIOUS
<1>1. CASE \E c \in Clients :
            \/ \E p \in Plans, airAt \in AirTimes \cup {NoTime} : Enqueue(c, p, airAt)
            \/ Client(c)
            \/ ClientDies(c)
  BY <1>1, CallKeepsDone
<1>2. CASE Sidecar \/ FailsToRender \/ FailsToRemove
  BY <1>2, SidecarKeepsDone
<1>3. CASE SidecarDies
  <2>1. sidecar'.step = "down" /\ UNCHANGED <<jobs, outputs, stems, now, given, raced>>
    BY <1>3 DEF SidecarDies, Down
  <2> QED BY <2>1, LookKeepsDone
<1>4. CASE Tick
  <2>1. now =< now' /\ UNCHANGED <<jobs, outputs, stems, sidecar, given, raced>>
    BY <1>4 DEF Tick, IInv, TypeOK
  <2>2. DoneUntilAired'
    BY <2>1, NothingLost DEF DInv
  <2>3. Rendered' /\ Known'
    BY <2>1 DEF DInv, Rendered, Known
  <2> QED BY <2>2, <2>3 DEF DInv
<1>5. CASE UNCHANGED vars
  BY <1>5 DEF vars, DInv, DoneUntilAired, Aired, Rendered, Known
<1> QED BY <1>1, <1>2, <1>3, <1>4, <1>5 DEF Next

\* A chapter that is done can be played until it has aired, through evictions,
\* orphan sweeps, failed renders and deaths at any step, unless two processes
\* wrote its state at once.
THEOREM Done_UntilAired == Spec => []DoneUntilAired
<1>1. DInv => DoneUntilAired
  BY DEF DInv
<1>2. Init => IInv /\ DInv
  BY InitInv, InitDone
<1>3. (IInv /\ DInv) /\ [Next]_vars => (IInv /\ DInv)'
  BY NextInv, NextDone
<1> QED BY <1>1, <1>2, <1>3, PTL DEF Spec

-----------------------------------------------------------------------------
(* The cap, with any number of enqueues beside the sidecar.                   *)

Enforcing == {"evict", "mark"}
Enforced  == Enforcing \cup {"poll"}

\* What was listed to go and is there is still on the list.
Left == sidecar.step \in Enforcing /\ spent.faults = 0 => \A p \in outputs : WasToGo(p) => p \in sidecar.todo

\* The running total never falls behind the cache: it is over what is used, but
\* for what was overwritten, and over what is still to be removed.
Unraced     == {p \in outputs \ raced : jobs[p].status = "done"}
Counted     == {p \in outputs : p \in Unraced \/ p \in sidecar.todo}
TotalCovers ==
    sidecar.step \in Enforcing => sidecar.total >= Cardinality(Counted) + Cardinality(stems)

CapInv == Left /\ TotalCovers /\ WithinCap

LEMMA Fewer ==
    ASSUME NEW U, IsFiniteSet(U), NEW T \in SUBSET U, NEW S \in SUBSET T
    PROVE  Cardinality(S) \in Nat /\ Cardinality(T) \in Nat /\ Cardinality(S) =< Cardinality(T)
<1>1. IsFiniteSet(T)
  BY FS_Subset
<1>2. IsFiniteSet(S) /\ Cardinality(S) =< Cardinality(T)
  BY <1>1, FS_Subset
<1> QED BY <1>1, <1>2, FS_CardinalityType

\* The sizes are numbers, and the chapters that count are among those the total is over.
LEMMA Sizes ==
    ASSUME IInv
    PROVE  /\ Unraced \subseteq Counted /\ Counted \subseteq outputs /\ outputs \subseteq Plans
           /\ IsFiniteSet(Counted) /\ IsFiniteSet(stems)
           /\ Cardinality(Unraced) \in Nat /\ Cardinality(Counted) \in Nat /\ Cardinality(stems) \in Nat
           /\ Cardinality(Unraced) =< Cardinality(Counted)
           /\ UsedUnraced = Cardinality(Unraced) + Cardinality(stems)
<1>1. outputs \subseteq Plans /\ stems \subseteq UNION Range(Uses)
  BY DEF IInv, TypeOK
<1>2. UsedUnraced = Cardinality(Unraced) + Cardinality(stems)
  BY DEF UsedUnraced, Unraced
<1>3. Unraced \subseteq Counted /\ Counted \subseteq outputs
  BY DEF Unraced, Counted
<1>4. IsFiniteSet(Counted) /\ IsFiniteSet(stems)
  BY <1>1, <1>3, PlanAssumption, FS_Subset
<1>5. Cardinality(Counted) \in Nat /\ Cardinality(Unraced) \in Nat /\ Cardinality(Unraced) =< Cardinality(Counted)
  BY <1>1, <1>3, PlanAssumption, Fewer
<1>6. Cardinality(stems) \in Nat
  BY <1>4, FS_CardinalityType
<1> QED BY <1>1, <1>2, <1>3, <1>4, <1>5, <1>6

LEMMA InitCap == Init => CapInv
BY DEF Init, CapInv, Left, TotalCovers, WithinCap, Down, Enforcing

\* A step of an enqueue process brings no chapter into the count: it writes
\* "done" only from a copy that says so, over a state that did or that is
\* noted as overwritten.
LEMMA CallBringsNone ==
    ASSUME IInv, NEW c \in Clients,
           Client(c) \/ ClientDies(c) \/ \E p \in Plans, airAt \in AirTimes \cup {NoTime} : Enqueue(c, p, airAt)
    PROVE  /\ UNCHANGED <<outputs, stems, sidecar>> /\ spent'.faults = spent.faults
           /\ Unraced' \subseteq Unraced
<1>1. UNCHANGED <<outputs, stems, sidecar>> /\ spent'.faults = spent.faults
  BY DEF Client, UpdateAirTime, WritePlan, WriteState, ClientDies, Enqueue, Spend, IInv, TypeOK
<1>2. CASE UNCHANGED <<jobs, raced>>
  BY <1>1, <1>2 DEF Unraced
<1>3. CASE UpdateAirTime(c)
  <2> DEFINE plan == clients[c].plan
             copy == clients[c].copy
             job  == [copy EXCEPT !.airAt = clients[c].airAt]
  <2>1. copy \in Job /\ jobs' = [jobs EXCEPT ![plan] = job]
        /\ raced' = IF copy = jobs[plan] THEN raced ELSE raced \cup {plan}
    BY <1>3 DEF UpdateAirTime, WriteJob, IInv, TypeOK, Calls
  <2>2. job.status = copy.status
    BY <2>1 DEF Job
  <2> HIDE DEF job, copy, plan
  <2>3. ASSUME NEW p \in Unraced' PROVE p \in Unraced
    <3>1. p \in outputs \ raced' /\ p \in Plans /\ jobs'[p].status = "done"
      BY <1>1 DEF Unraced, IInv, TypeOK
    <3>2. p \in outputs \ raced
      BY <2>1, <3>1
    <3>3. CASE p = plan
      <4>1. copy = jobs[p] /\ jobs'[p] = job
        BY <2>1, <3>1, <3>3 DEF IInv, TypeOK
      <4> QED BY <2>2, <3>1, <3>2, <4>1 DEF Unraced
    <3>4. CASE p # plan
      <4>1. jobs'[p] = jobs[p]
        BY <2>1, <3>1, <3>4 DEF IInv, TypeOK
      <4> QED BY <3>1, <3>2, <4>1 DEF Unraced
    <3> QED BY <3>3, <3>4
  <2> QED BY <1>1, <2>3
<1>4. CASE WriteState(c)
  <2> DEFINE plan == clients[c].plan
             job  == [status |-> "queued", enqueuedAt |-> clients[c].at, airAt |-> clients[c].airAt]
  <2>1. jobs' = [jobs EXCEPT ![plan] = job] /\ job.status = "queued" /\ raced \subseteq raced'
    BY <1>4 DEF WriteState, WriteJob
  <2> HIDE DEF job, plan
  <2>2. ASSUME NEW p \in Unraced' PROVE p \in Unraced
    <3>1. p \in outputs \ raced /\ p \in Plans /\ jobs'[p].status = "done"
      BY <1>1, <2>1 DEF Unraced, IInv, TypeOK
    <3>2. jobs'[p] = jobs[p]
      BY <2>1, <3>1 DEF IInv, TypeOK
    <3> QED BY <3>1, <3>2 DEF Unraced
  <2> QED BY <1>1, <2>2
<1> QED BY <1>1, <1>2, <1>3, <1>4 DEF Client, WritePlan, ClientDies, Enqueue

LEMMA CallKeepsCap ==
    ASSUME IInv, IInv', CapInv, NEW c \in Clients,
           Client(c) \/ ClientDies(c) \/ \E p \in Plans, airAt \in AirTimes \cup {NoTime} : Enqueue(c, p, airAt)
    PROVE  CapInv'
<1>1. /\ UNCHANGED <<outputs, stems, sidecar>> /\ spent'.faults = spent.faults
      /\ Unraced' \subseteq Unraced
  BY CallBringsNone
<1>2. Left'
  BY <1>1 DEF CapInv, Left, WasToGo
<1>3. Counted' \subseteq Counted
  BY <1>1 DEF Counted
<1>4. /\ Cardinality(Unraced') =< Cardinality(Unraced) /\ Cardinality(Counted') =< Cardinality(Counted)
      /\ Cardinality(Unraced') \in Nat /\ Cardinality(Counted') \in Nat
  BY <1>1, <1>3, Sizes, PlanAssumption, FS_Subset, Fewer
<1>5. sidecar.total \in Int
  BY DEF IInv, TypeOK, Sidecars
<1>6. TotalCovers'
  BY <1>1, <1>4, <1>5, Sizes DEF CapInv, TotalCovers
<1>7. UsedUnraced' =< UsedUnraced /\ UsedUnraced' \in Nat /\ UsedUnraced \in Nat
  <2>1. UsedUnraced' = Cardinality(Unraced') + Cardinality(stems)
    BY <1>1 DEF UsedUnraced, Unraced
  <2> QED BY <1>4, <2>1, Sizes
<1>8. WithinCap'
  BY <1>1, <1>7, BoundAssumption DEF CapInv, WithinCap, WasToGo
<1> QED BY <1>2, <1>6, <1>8 DEF CapInv

\* A step of the sidecar that leads away from the cap.
LEMMA AwayKeepsCap ==
    ASSUME sidecar'.step \notin Enforced
    PROVE  CapInv'
BY DEF CapInv, Left, TotalCovers, WithinCap, Enforced, Enforcing

\* What the sidecar writes leads away from the cap, but for the note of an eviction.
LEMMA WorkKeepsCap ==
    ASSUME IInv, Start \/ Recover \/ Take \/ Claim \/ Renders \/ FailsToRender \/ Report \/ SidecarDies
    PROVE  CapInv'
<1>1. sidecar \in Sidecars
  BY DEF IInv, TypeOK
<1>2. ASSUME NEW p, NEW status, NEW step, NEW todo, SidecarWrites(p, status, step, todo)
      PROVE  sidecar'.step = step
  BY <1>1, <1>2 DEF SidecarWrites, Sidecars
<1>3. CASE Start \/ Take \/ Renders \/ FailsToRender \/ SidecarDies
  <2>1. Start => sidecar'.step = "recover"
    BY DEF Start, Down
  <2>2. Take => sidecar'.step = "claim"
    BY <1>1 DEF Take, Sidecars
  <2>3. Renders \/ FailsToRender => sidecar'.step \in {"done", "failed"}
    BY <1>1 DEF Renders, FailsToRender, Sidecars
  <2>4. SidecarDies => sidecar'.step = "down"
    BY DEF SidecarDies, Down
  <2> QED BY <1>3, <2>1, <2>2, <2>3, <2>4, AwayKeepsCap DEF Enforced, Enforcing
<1>4. CASE Recover \/ Claim \/ Report
  <2>1. CASE Recover
    <3>1. CASE sidecar.todo = {}
      <4>1. sidecar'.step = "cap"
        BY <1>1, <2>1, <3>1 DEF Recover, Sidecars
      <4> QED BY <4>1, AwayKeepsCap DEF Enforced, Enforcing
    <3>2. CASE sidecar.todo # {}
      <4>1. sidecar'.step = "recover"
        BY <1>2, <2>1, <3>2 DEF Recover
      <4> QED BY <4>1, AwayKeepsCap DEF Enforced, Enforcing
    <3> QED BY <3>1, <3>2
  <2>2. CASE Claim
    <3>1. sidecar'.step = "render"
      BY <1>2, <2>2 DEF Claim
    <3> QED BY <3>1, AwayKeepsCap DEF Enforced, Enforcing
  <2>3. CASE Report
    <3>1. sidecar'.step = "cap"
      BY <1>2, <2>3 DEF Report
    <3> QED BY <3>1, AwayKeepsCap DEF Enforced, Enforcing
  <2> QED BY <1>4, <2>1, <2>2, <2>3
<1> QED BY <1>3, <1>4

LEMMA MarkKeepsCap == ASSUME IInv, IInv', CapInv, Mark PROVE CapInv'
<1> DEFINE plan == sidecar.plan
           job  == [sidecar.seen[plan] EXCEPT !.status = "evicted"]
<1>1. sidecar \in Sidecars /\ plan \in Plans /\ sidecar.seen[plan] \in Job
  BY DEF Mark, IInv, Planned, TypeOK, Sidecars
<1>2. job.status = "evicted"
  BY <1>1 DEF Job
<1>3. /\ jobs' = [jobs EXCEPT ![plan] = job] /\ raced \subseteq raced' /\ raced' \subseteq raced \cup {plan}
      /\ sidecar' = [sidecar EXCEPT !.step = "evict", !.todo = sidecar.todo \ {plan}, !.seen[plan] = job]
      /\ UNCHANGED <<outputs, stems, spent>> /\ sidecar.step = "mark"
  BY DEF Mark, SidecarWrites, WriteJob
<1> HIDE DEF job
<1>4. /\ sidecar'.step = "evict" /\ sidecar'.todo = sidecar.todo \ {plan} /\ sidecar'.at = sidecar.at
      /\ sidecar'.total = sidecar.total
      /\ sidecar'.seen[plan] = job /\ \A p \in Plans : p # plan => sidecar'.seen[p] = sidecar.seen[p]
  BY <1>1, <1>3 DEF Sidecars
<1> HIDE DEF plan
<1>5. outputs \subseteq Plans /\ jobs'[plan] = job /\ \A p \in Plans : p # plan => jobs'[p] = jobs[p]
  BY <1>1, <1>3 DEF IInv, TypeOK
<1>6. Left'
  <2> SUFFICES ASSUME spent.faults = 0, NEW p \in outputs, WasToGo(p)'
               PROVE  p \in sidecar'.todo
    BY <1>3 DEF Left
  <2>1. p # plan /\ WasToGo(p)
    BY <1>2, <1>4, <1>5 DEF WasToGo
  <2> QED BY <1>3, <1>4, <2>1 DEF CapInv, Left, Enforcing
<1>7. Counted' \subseteq Counted
  <2> SUFFICES ASSUME NEW p \in Counted' PROVE p \in Counted
    OBVIOUS
  <2>1. p \in outputs /\ p \in Plans
    BY <1>3, <1>5 DEF Counted
  <2>2. CASE p \in sidecar'.todo
    BY <1>4, <2>1, <2>2 DEF Counted
  <2>3. CASE p \in Unraced'
    <3>1. p \notin raced /\ jobs'[p].status = "done"
      BY <1>3, <2>3 DEF Unraced
    <3>2. p # plan
      BY <1>2, <1>5, <3>1
    <3> QED BY <1>5, <2>1, <3>1, <3>2 DEF Counted, Unraced
  <2> QED BY <2>2, <2>3 DEF Counted
<1>8. TotalCovers'
  <2>1. Cardinality(Counted') =< Cardinality(Counted) /\ Cardinality(Counted') \in Nat
    BY <1>7, Sizes, Fewer
  <2>2. sidecar.total \in Int /\ sidecar.total >= Cardinality(Counted) + Cardinality(stems)
    BY <1>1, <1>3 DEF CapInv, TotalCovers, Enforcing, Sidecars
  <2> QED BY <1>3, <1>4, <2>1, <2>2, Sizes DEF TotalCovers
<1>9. WithinCap'
  BY <1>4 DEF WithinCap
<1> QED BY <1>6, <1>8, <1>9 DEF CapInv

LEMMA ListKeepsCap == ASSUME IInv, IInv', CapInv, ListForCap PROVE CapInv'
<1>1. /\ UNCHANGED <<jobs, raced, outputs, stems>> /\ sidecar'.seen = jobs /\ sidecar'.at = now
      /\ sidecar'.step = (IF Used =< Cap THEN "poll" ELSE "evict") /\ sidecar'.total = Used
      /\ sidecar'.todo = (IF Used =< Cap THEN {}
                          ELSE {p \in Plans : jobs[p].status = "done" /\ HasAired(jobs[p], now)})
  BY DEF ListForCap, IInv, TypeOK, Sidecars
<1>2. outputs \subseteq Plans /\ stems \subseteq UNION Range(Uses)
  BY DEF IInv, TypeOK
<1>3. Left'
  BY <1>1, <1>2 DEF Left, WasToGo, Enforcing
<1> DEFINE done == {p \in outputs : jobs[p].status = "done"}
<1>4. Used = Cardinality(done) + Cardinality(stems) /\ done \subseteq Plans
  BY <1>2 DEF Used
<1>5. Counted' \subseteq done /\ Unraced' \subseteq done
  BY <1>1 DEF Counted, Unraced
<1> HIDE DEF done
<1>6. /\ Cardinality(done) \in Nat /\ Cardinality(Counted') \in Nat /\ Cardinality(Unraced') \in Nat
      /\ Cardinality(Counted') =< Cardinality(done) /\ Cardinality(Unraced') =< Cardinality(done)
  BY <1>4, <1>5, Fewer, PlanAssumption
<1>7. TotalCovers'
  BY <1>1, <1>4, <1>6, Sizes DEF TotalCovers
<1>8. WithinCap'
  <2>1. UsedUnraced' =< Used
    <3>1. UsedUnraced' = Cardinality(Unraced') + Cardinality(stems)
      BY <1>1 DEF UsedUnraced, Unraced
    <3> QED BY <1>4, <1>6, <3>1, Sizes
  <2>2. Used \in Nat /\ UsedUnraced' \in Nat
    BY <1>1, <1>4, <1>6, Sizes DEF UsedUnraced, Unraced
  <2> QED BY <1>1, <2>1, <2>2, BoundAssumption DEF WithinCap
<1> QED BY <1>3, <1>7, <1>8 DEF CapInv

\* The cap is enforced: a stem directory goes, or an output, or it is enough.
LEMMA EvictKeepsCap ==
    ASSUME IInv, IInv', CapInv, SweepStems \/ RemoveOutput \/ FailsToRemove \/ CapEnforced
    PROVE  CapInv'
<1>1. /\ UNCHANGED <<jobs, raced>> /\ sidecar \in Sidecars /\ sidecar.step = "evict"
      /\ sidecar'.seen = sidecar.seen /\ sidecar'.at = sidecar.at
      /\ sidecar'.step \in {"evict", "mark", "poll"}
  BY DEF IInv, TypeOK, SweepStems, RemoveOutput, FailsToRemove, CapEnforced, OverCap, Sidecars
<1>2. sidecar.total \in Int /\ sidecar.total >= Cardinality(Counted) + Cardinality(stems)
  BY <1>1 DEF CapInv, TotalCovers, Enforcing, Sidecars
<1>3. CASE SweepStems
  <2>1. PICK s \in Orphans : stems' = stems \ {s}
    BY <1>3 DEF SweepStems
  <2>2. /\ s \in stems /\ UNCHANGED <<outputs, spent>> /\ sidecar'.step = "evict"
        /\ sidecar'.todo = sidecar.todo /\ sidecar'.total = sidecar.total - 1
    BY <1>1, <1>3, <2>1 DEF SweepStems, Orphans, Sidecars
  <2>3. Left' /\ WithinCap'
    BY <1>1, <2>2 DEF CapInv, Left, WasToGo, WithinCap
  <2>4. Counted' = Counted
    BY <1>1, <2>2 DEF Counted, Unraced
  <2>5. Cardinality(stems') = Cardinality(stems) - 1
    BY <2>1, <2>2, Sizes, FS_RemoveElement
  <2>6. TotalCovers'
    BY <1>2, <2>2, <2>4, <2>5, Sizes DEF TotalCovers
  <2> QED BY <2>3, <2>6 DEF CapInv
<1>4. CASE RemoveOutput
  <2>1. Eldest \in sidecar.todo
    BY <1>1, <1>4, EldestIsOneOf DEF RemoveOutput, OverCap
  <2>2. /\ outputs' = outputs \ {Eldest} /\ UNCHANGED <<stems, spent>> /\ sidecar'.step = "mark"
        /\ sidecar'.todo = sidecar.todo
        /\ sidecar'.total = sidecar.total - (IF Eldest \in outputs THEN 1 ELSE 0)
    BY <1>1, <1>4 DEF RemoveOutput, Sidecars
  <2>3. Left' /\ WithinCap'
    BY <1>1, <2>2 DEF CapInv, Left, WasToGo, WithinCap, Enforcing
  <2>4. Counted' = Counted \ {Eldest} /\ (Eldest \in Counted <=> Eldest \in outputs)
    BY <1>1, <2>1, <2>2 DEF Counted, Unraced
  <2>5. Cardinality(Counted') = Cardinality(Counted) - (IF Eldest \in outputs THEN 1 ELSE 0)
    <3>1. Cardinality(Counted \ {Eldest}) = IF Eldest \in Counted THEN Cardinality(Counted) - 1 ELSE Cardinality(Counted)
      BY Sizes, FS_RemoveElement
    <3> QED BY <2>4, <3>1, Sizes
  <2>6. TotalCovers'
    BY <1>2, <2>2, <2>5, Sizes DEF TotalCovers
  <2> QED BY <2>3, <2>6 DEF CapInv
<1>5. CASE FailsToRemove
  <2>1. /\ UNCHANGED <<outputs, stems>> /\ sidecar'.step = "evict"
        /\ sidecar'.todo = sidecar.todo \ {Eldest} /\ sidecar'.total = sidecar.total
    BY <1>1, <1>5 DEF FailsToRemove, Sidecars
  <2>2. spent'.faults # 0
    BY <1>5 DEF FailsToRemove, Spend, IInv, TypeOK
  <2>3. Left' /\ WithinCap'
    BY <2>1, <2>2 DEF Left, WithinCap
  <2>4. Counted' \subseteq Counted
    BY <1>1, <2>1 DEF Counted, Unraced
  <2>5. Cardinality(Counted') \in Nat /\ Cardinality(Counted') =< Cardinality(Counted)
    BY <2>4, Sizes, Fewer
  <2>6. TotalCovers'
    BY <1>2, <2>1, <2>5, Sizes DEF TotalCovers
  <2> QED BY <2>3, <2>6 DEF CapInv
<1>6. CASE CapEnforced
  <2>1. UNCHANGED <<outputs, stems, spent>> /\ sidecar'.step = "poll" /\ (Enough \/ sidecar.todo = {})
    BY <1>1, <1>6 DEF CapEnforced, Sidecars
  <2>2. Left' /\ TotalCovers'
    BY <2>1 DEF Left, TotalCovers, Enforcing
  <2>3. WithinCap'
    <3>1. CASE Enough
      <4>1. UsedUnraced' = UsedUnraced
        BY <1>1, <2>1 DEF UsedUnraced
      <4>2. sidecar.total =< Cap /\ Cap \in Nat
        BY <3>1, BoundAssumption DEF Enough
      <4>3. UsedUnraced =< Cap
        BY <1>2, <4>2, Sizes
      <4> QED BY <4>1, <4>3 DEF WithinCap
    <3>2. CASE sidecar.todo = {}
      <4>1. spent.faults = 0 => \A p \in outputs : ~ WasToGo(p)
        BY <1>1, <3>2 DEF CapInv, Left, Enforcing
      <4> QED BY <1>1, <2>1, <4>1 DEF WithinCap, WasToGo
    <3> QED BY <2>1, <3>1, <3>2
  <2> QED BY <2>2, <2>3 DEF CapInv
<1> QED BY <1>3, <1>4, <1>5, <1>6

LEMMA NextCap == ASSUME IInv, IInv', CapInv, [Next]_vars PROVE CapInv'
<1>1. CASE \E c \in Clients :
            \/ \E p \in Plans, airAt \in AirTimes \cup {NoTime} : Enqueue(c, p, airAt)
            \/ Client(c)
            \/ ClientDies(c)
  BY <1>1, CallKeepsCap
<1>2. CASE Sidecar \/ FailsToRender \/ FailsToRemove \/ SidecarDies
  BY <1>2, WorkKeepsCap, MarkKeepsCap, ListKeepsCap, EvictKeepsCap DEF Sidecar
<1>3. CASE Tick \/ UNCHANGED vars
  <2>1. UNCHANGED <<jobs, outputs, stems, sidecar, raced, spent>>
    BY <1>3 DEF Tick, vars
  <2>2. Left'
    BY <2>1 DEF CapInv, Left, WasToGo
  <2>3. TotalCovers' /\ WithinCap'
    BY <2>1 DEF CapInv, TotalCovers, Counted, Unraced, WithinCap, UsedUnraced, WasToGo
  <2> QED BY <2>2, <2>3 DEF CapInv
<1> QED BY <1>1, <1>2, <1>3 DEF Next

\* When enforce_cap is done, the cache is within its cap or what is left may not
\* go, for any cap, any plans, any stems they share and any number of enqueues at
\* once: its running total covers what is used though states are overwritten and
\* air times change meanwhile.
THEOREM Within_Cap == Spec => []WithinCap
<1>1. CapInv => WithinCap
  BY DEF CapInv
<1>2. Init => IInv /\ CapInv
  BY InitInv, InitCap
<1>3. (IInv /\ CapInv) /\ [Next]_vars => (IInv /\ CapInv)'
  BY NextInv, NextCap
<1> QED BY <1>1, <1>2, <1>3, PTL DEF Spec

=============================================================================

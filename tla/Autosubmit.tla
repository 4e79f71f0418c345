----------------------------- MODULE Autosubmit -----------------------------
(***************************************************************************)
(* Automatic submission of bids: the dispatcher of                         *)
(* src/goszakup/autosubmit/scheduler.py run by one worker thread per tick, *)
(* the HTTP call that hands a submission to the submit-agent, the agent    *)
(* (agent/server.py, agent/runner.py, agent/report.py) and the ingest of   *)
(* its report (apply_result behind POST /autosubmit/result).               *)
(*                                                                         *)
(* The portal steps of agent/wizard.py between open_at and the final POST  *)
(* are stubs in the source (they raise NotImplementedError); a run may     *)
(* therefore fail at them, and the model also lets it reach the POST.      *)
(***************************************************************************)
EXTENDS Naturals, FiniteSets

CONSTANTS
  Subs,         \* submissions
  Ticks,        \* dispatcher invocations that may overlap
  MaxAttempts,  \* MAX_DISPATCH_ATTEMPTS
  MaxFaults,    \* bound: dispatcher deaths and agent restarts
  NoSub         \* a tick that is not working on a submission

ASSUME AutosubmitAssumption ==
  /\ MaxAttempts \in Nat \ {0}
  /\ MaxFaults \in Nat
  /\ NoSub \notin Subs

VARIABLES
  status,    \* Submission.status
  attempts,  \* Submission.attempts
  phase,     \* where the clock is with respect to open_at and close_at
  tick,      \* the dispatcher invocations
  requests,  \* POST /run on their way: [sub, attempt]
  acks,      \* answers of the agent on their way back
  active,    \* _active of the agent process
  stage,     \* the thread of the agent that runs a submission
  reports,   \* POST /autosubmit/result on their way
  refused,   \* auxiliary: AgentErrors seen by the dispatcher
  starts,    \* auxiliary: runs started since the agent process started
  faults     \* dispatcher deaths and agent restarts so far

dbVars    == <<status, attempts>>
agentVars == <<active, stage, starts>>
vars == <<status, attempts, phase, tick, requests, acks, active, stage,
          reports, refused, starts, faults>>

Statuses == {"PLANNED", "DISPATCHING", "ARMED", "FIRING", "SUBMITTED",
             "CONFIRMED", "FAILED", "SKIPPED", "UNKNOWN"}
Terminal == {"CONFIRMED", "FAILED", "SKIPPED", "UNKNOWN"}

(* The statuses before and up to SUBMITTED in SUBMISSION_STATUS_RANK.      *)
Rank == [s \in Statuses |->
           CASE s = "PLANNED" -> 0 [] s = "DISPATCHING" -> 1 [] s = "ARMED" -> 2
             [] s = "FIRING" -> 3 [] s = "SUBMITTED" -> 4 [] s = "CONFIRMED" -> 5
             [] s = "FAILED" -> 6 [] s = "SKIPPED" -> 7 [] OTHER -> 8]

(* early: open_at is further away than warmup_lead; due: the dispatcher    *)
(* takes it; open: open_at has passed; late: less than thirty seconds to   *)
(* close_at (deadline_guard is false).                                     *)
Phases == {"early", "due", "open", "late"}

Stages == {"none", "warmup", "waiting", "wizard", "report"}

(* What a run of the agent can report.                                     *)
Outcomes == {"SUBMITTED", "FAILED", "SKIPPED"}

Request == [sub : Subs, attempt : 1 .. MaxAttempts]

TypeOK ==
  /\ status \in [Subs -> Statuses]
  /\ attempts \in [Subs -> 0 .. MaxAttempts]
  /\ phase \in [Subs -> Phases]
  /\ tick \in [Ticks -> [pc : {"idle", "loop", "post"}, todo : SUBSET Subs,
                         cur : Subs \cup {NoSub}]]
  /\ requests \subseteq Request
  /\ acks \subseteq Request
  /\ active \in [Subs -> {"no", "running", "done"}]
  /\ stage \in [Subs -> [at : Stages, outcome : Outcomes \cup {"none"}]]
  /\ \A s \in Subs : stage[s].at = "report" => stage[s].outcome # "none"
  /\ reports \subseteq [sub : Subs, outcome : Outcomes]
  /\ refused \in [Subs -> 0 .. MaxAttempts]
  /\ starts \in [Subs -> Nat]
  /\ faults \in 0 .. MaxFaults

Idle    == [pc |-> "idle", todo |-> {}, cur |-> NoSub]
NoRun   == [at |-> "none", outcome |-> "none"]

Init ==
  /\ status = [s \in Subs |-> "PLANNED"]
  /\ attempts = [s \in Subs |-> 0]
  /\ phase = [s \in Subs |-> "early"]
  /\ tick = [t \in Ticks |-> Idle]
  /\ requests = {} /\ acks = {} /\ reports = {}
  /\ active = [s \in Subs |-> "no"]
  /\ stage = [s \in Subs |-> NoRun]
  /\ refused = [s \in Subs |-> 0]
  /\ starts = [s \in Subs |-> 0]
  /\ faults = 0

-----------------------------------------------------------------------------
(* The dispatcher.                                                         *)

(* candidate_ids: read once, before the loop.                              *)
TickStart(t) ==
  LET due == {s \in Subs : status[s] = "PLANNED" /\ phase[s] # "early"} IN
  /\ tick[t].pc = "idle"
  /\ due # {}
  /\ tick' = [tick EXCEPT ![t] = [pc |-> "loop", todo |-> due, cur |-> NoSub]]
  /\ UNCHANGED <<dbVars, phase, requests, acks, agentVars, reports, refused, faults>>

TickEnd(t) ==
  /\ tick[t].pc = "loop"
  /\ tick[t].todo = {}
  /\ tick' = [tick EXCEPT ![t] = Idle]
  /\ UNCHANGED <<dbVars, phase, requests, acks, agentVars, reports, refused, faults>>

(* SELECT ... WHERE status = 'PLANNED' FOR UPDATE SKIP LOCKED finds        *)
(* nothing: another tick has the row, or it is no longer PLANNED.          *)
NotClaimed(t, s) ==
  /\ tick[t].pc = "loop"
  /\ s \in tick[t].todo
  /\ status[s] # "PLANNED"
  /\ tick' = [tick EXCEPT ![t].todo = @ \ {s}]
  /\ UNCHANGED <<dbVars, phase, requests, acks, agentVars, reports, refused, faults>>

(* Mutant: the SKIPPED of a late submission is not saved.                  *)
SkipLateUnsaved(t, s) ==
  /\ tick[t].pc = "loop"
  /\ s \in tick[t].todo
  /\ status[s] = "PLANNED"
  /\ phase[s] = "late"
  /\ tick' = [tick EXCEPT ![t].todo = @ \ {s}]
  /\ UNCHANGED <<dbVars, phase, requests, acks, agentVars, reports, refused, faults>>

(* The claimed row is past its deadline.                                   *)
SkipLate(t, s) ==
  /\ tick[t].pc = "loop"
  /\ s \in tick[t].todo
  /\ status[s] = "PLANNED"
  /\ phase[s] = "late"
  /\ status' = [status EXCEPT ![s] = "SKIPPED"]
  /\ tick' = [tick EXCEPT ![t].todo = @ \ {s}]
  /\ UNCHANGED <<attempts, phase, requests, acks, agentVars, reports, refused, faults>>

(* What Claim does once the row is taken.                                  *)
Take(t, s, claimed) ==
  /\ attempts' = [attempts EXCEPT ![s] = @ + 1]
  /\ status' = [status EXCEPT ![s] = claimed]
  /\ tick' = [tick EXCEPT ![t] = [pc |-> "post", todo |-> @.todo \ {s}, cur |-> s]]
  /\ requests' = requests \cup {[sub |-> s, attempt |-> attempts[s] + 1]}
  /\ UNCHANGED <<phase, acks, agentVars, reports, refused, faults>>

(* Mutant: the row is taken from candidate_ids without reading it again.   *)
ClaimStale(t, s) ==
  /\ tick[t].pc = "loop"
  /\ s \in tick[t].todo
  /\ phase[s] # "late"
  /\ attempts[s] < MaxAttempts
  /\ Take(t, s, "DISPATCHING")

(* Mutant: nothing marks the row before the request leaves.                *)
ClaimUnmarked(t, s) ==
  /\ tick[t].pc = "loop"
  /\ s \in tick[t].todo
  /\ status[s] = "PLANNED"
  /\ phase[s] # "late"
  /\ Take(t, s, "PLANNED")

(* The row lock is held from the SELECT to the commit of DISPATCHING, so   *)
(* the claim is one step; the request leaves after the commit.             *)
Claim(t, s) ==
  /\ tick[t].pc = "loop"
  /\ s \in tick[t].todo
  /\ status[s] = "PLANNED"
  /\ phase[s] # "late"
  /\ Take(t, s, "DISPATCHING")

NextSub(t) == tick' = [tick EXCEPT ![t].pc = "loop", ![t].cur = NoSub]

(* Mutant: an answer of the agent is not waited for.                       *)
ArmedUnacknowledged(t) ==
  LET s == tick[t].cur IN
  /\ tick[t].pc = "post"
  /\ status' = [status EXCEPT ![s] = "ARMED"]
  /\ NextSub(t)
  /\ UNCHANGED <<attempts, phase, requests, acks, agentVars, reports, refused, faults>>

(* agent.dispatch returned.  The ORM object is not read again              *)
(* (expire_on_commit=False): ARMED is written whatever the row holds.      *)
Armed(t) ==
  LET s == tick[t].cur IN
  /\ tick[t].pc = "post"
  /\ [sub |-> s, attempt |-> attempts[s]] \in acks
  /\ acks' = acks \ {[sub |-> s, attempt |-> attempts[s]]}
  /\ status' = [status EXCEPT ![s] = "ARMED"]
  /\ NextSub(t)
  /\ UNCHANGED <<attempts, phase, requests, agentVars, reports, refused, faults>>

(* AgentError: no connection, an error status, or no answer in 15 seconds  *)
(* (the agent may have the request all the same).  Again the row is        *)
(* written without being read.                                             *)
DispatchFails(t) ==
  LET s == tick[t].cur IN
  /\ tick[t].pc = "post"
  /\ status' = [status EXCEPT ![s] =
                  IF attempts[s] >= MaxAttempts THEN "FAILED" ELSE "PLANNED"]
  /\ refused' = [refused EXCEPT ![s] = @ + 1]
  /\ NextSub(t)
  /\ UNCHANGED <<attempts, phase, requests, acks, agentVars, reports, faults>>

(* The worker dies, the time limit strikes, or something other than        *)
(* AgentError is raised (decryption, a body that is not JSON): the claimed *)
(* row stays DISPATCHING.                                                  *)
TickDies(t) ==
  /\ tick[t].pc # "idle"
  /\ faults < MaxFaults
  /\ faults' = faults + 1
  /\ tick' = [tick EXCEPT ![t] = Idle]
  /\ UNCHANGED <<dbVars, phase, requests, acks, agentVars, reports, refused>>

-----------------------------------------------------------------------------
(* The agent.                                                              *)

(* do_POST and _accept_run: a submission_id in _active is acknowledged but *)
(* not started.                                                            *)
AcceptRun(m) ==
  LET s == m.sub IN
  /\ m \in requests
  /\ requests' = requests \ {m}
  /\ acks' = acks \cup {m}
  /\ IF active[s] = "no"
       THEN /\ active' = [active EXCEPT ![s] = "running"]
            /\ stage' = [stage EXCEPT ![s] = [at |-> "warmup", outcome |-> "none"]]
            /\ starts' = [starts EXCEPT ![s] = @ + 1]
       ELSE UNCHANGED agentVars
  /\ UNCHANGED <<dbVars, phase, tick, reports, refused, faults>>

At(s, from, to) ==
  /\ stage[s].at = from
  /\ stage' = [stage EXCEPT ![s] = [at |-> to, outcome |-> "none"]]

Outcome(s, o) == stage' = [stage EXCEPT ![s] = [at |-> "report", outcome |-> o]]

WarmUp(s) ==
  /\ At(s, "warmup", "waiting")
  /\ UNCHANGED <<dbVars, phase, tick, requests, acks, active, starts, reports,
                 refused, faults>>

(* wait_until returns; deadline_guard decides.                             *)
OpenAt(s) ==
  /\ stage[s].at = "waiting"
  /\ \/ phase[s] = "open" /\ At(s, "waiting", "wizard")
     \/ phase[s] = "late" /\ Outcome(s, "SKIPPED")
  /\ UNCHANGED <<dbVars, phase, tick, requests, acks, active, starts, reports,
                 refused, faults>>

(* The portal answered the final POST.                                     *)
Fire(s, o) ==
  /\ stage[s].at = "wizard"
  /\ o \in {"SUBMITTED", "FAILED"}
  /\ Outcome(s, o)
  /\ UNCHANGED <<dbVars, phase, tick, requests, acks, active, starts, reports,
                 refused, faults>>

(* Any exception of the run becomes FAILED.                                *)
RunFails(s) ==
  /\ stage[s].at \in {"warmup", "waiting", "wizard"}
  /\ Outcome(s, "FAILED")
  /\ UNCHANGED <<dbVars, phase, tick, requests, acks, active, starts, reports,
                 refused, faults>>

(* Mutant: a finished run leaves _active instead of staying "done".        *)
ReportAndForget(s) ==
  /\ stage[s].at = "report"
  /\ reports' \in {reports, reports \cup {[sub |-> s, outcome |-> stage[s].outcome]}}
  /\ stage' = [stage EXCEPT ![s] = NoRun]
  /\ active' = [active EXCEPT ![s] = "no"]
  /\ UNCHANGED <<dbVars, phase, tick, requests, acks, starts, refused, faults>>

(* report_result: one POST; the run is over whether it arrives or not.     *)
Report(s) ==
  /\ stage[s].at = "report"
  /\ reports' \in {reports, reports \cup {[sub |-> s, outcome |-> stage[s].outcome]}}
  /\ stage' = [stage EXCEPT ![s] = NoRun]
  /\ active' = [active EXCEPT ![s] = "done"]
  /\ UNCHANGED <<dbVars, phase, tick, requests, acks, starts, refused, faults>>

(* The agent process restarts: _active is empty, its daemon threads are    *)
(* gone.                                                                   *)
AgentRestarts ==
  /\ faults < MaxFaults
  /\ faults' = faults + 1
  /\ active' = [s \in Subs |-> "no"]
  /\ stage' = [s \in Subs |-> NoRun]
  /\ starts' = [s \in Subs |-> 0]
  /\ UNCHANGED <<dbVars, phase, tick, requests, acks, reports, refused>>

-----------------------------------------------------------------------------
(* The ingest and the environment.                                         *)

(* apply_result, in the event loop of the web process.                     *)
ApplyResult(r) ==
  LET s == r.sub IN
  /\ r \in reports
  /\ reports' = reports \ {r}
  /\ IF \/ status[s] \in Terminal
        \/ r.outcome \notin Terminal /\ Rank[r.outcome] < Rank[status[s]]
       THEN UNCHANGED status
       ELSE status' = [status EXCEPT ![s] = r.outcome]
  /\ UNCHANGED <<attempts, phase, tick, requests, acks, agentVars, refused, faults>>

(* A request or an answer is lost.                                         *)
Lose(m) ==
  /\ \/ /\ m \in requests
        /\ requests' = requests \ {m}
        /\ UNCHANGED acks
     \/ /\ m \in acks
        /\ acks' = acks \ {m}
        /\ UNCHANGED requests
  /\ UNCHANGED <<dbVars, phase, tick, agentVars, reports, refused, faults>>

Follows == [early |-> "due", due |-> "open", open |-> "late", late |-> "late"]

TimePasses(s) ==
  /\ phase[s] # "late"
  /\ phase' = [phase EXCEPT ![s] = Follows[@]]
  /\ UNCHANGED <<dbVars, tick, requests, acks, agentVars, reports, refused, faults>>

-----------------------------------------------------------------------------
Dispatcher(t) == \/ TickStart(t) \/ TickEnd(t) \/ Armed(t) \/ DispatchFails(t)
                 \/ \E s \in Subs : NotClaimed(t, s) \/ SkipLate(t, s) \/ Claim(t, s)

AgentRun(s) == \/ WarmUp(s) \/ OpenAt(s) \/ RunFails(s) \/ Report(s)
               \/ \E o \in Outcomes : Fire(s, o)

Next == \/ \E t \in Ticks : Dispatcher(t) \/ TickDies(t)
        \/ \E s \in Subs : AgentRun(s) \/ TimePasses(s)
        \/ \E m \in Request : AcceptRun(m) \/ Lose(m)
        \/ \E r \in [sub : Subs, outcome : Outcomes] : ApplyResult(r)
        \/ AgentRestarts

(* The timer keeps ticking, a call to the agent ends within its timeout,   *)
(* open_at comes (close_at may never: it is optional), the threads of the  *)
(* agent run, a report that arrived is handled.                            *)
Fairness ==
  /\ \A t \in Ticks : WF_vars(Dispatcher(t))
  /\ \A s \in Subs : WF_vars(AgentRun(s)) /\ WF_vars(phase[s] # "open" /\ TimePasses(s))
  /\ \A m \in Request : WF_vars(AcceptRun(m) \/ Lose(m))
  /\ \A r \in [sub : Subs, outcome : Outcomes] : WF_vars(ApplyResult(r))

Spec     == Init /\ [][Next]_vars
FairSpec == Spec /\ Fairness

-----------------------------------------------------------------------------
(* Properties.                                                             *)

Posting(s) == {t \in Ticks : tick[t].pc = "post" /\ tick[t].cur = s}

(* Two ticks never hold the same submission between the claim and the      *)
(* outcome of the call, whatever candidate lists they started from         *)
(* (scheduler.py:85-96).                                                   *)
OneDispatcher == \A s \in Subs : \A t, u \in Posting(s) : t = u

(* A submission is handed to the agent again only after the dispatcher saw *)
(* an AgentError for every earlier request: a death between the commit of  *)
(* DISPATCHING and the write of ARMED never leads to a second request      *)
(* (scheduler.py:106-109), and there are at most MAX_DISPATCH_ATTEMPTS.    *)
LicensedRedispatch ==
  \A s \in Subs :
    /\ attempts[s] <= refused[s] + 1
    /\ status[s] = "PLANNED" => attempts[s] = refused[s] /\ attempts[s] < MaxAttempts

(* The claim invariant: a PLANNED row is in nobody's hands, a row being    *)
(* posted has one request the dispatcher does not know the fate of, and    *)
(* every request on the wire, or answered, was counted.                    *)
DispatchInv ==
  /\ OneDispatcher
  /\ LicensedRedispatch
  /\ \A s \in Subs :
       /\ refused[s] <= attempts[s]
       /\ Posting(s) # {} => status[s] # "PLANNED" /\ attempts[s] = refused[s] + 1
  /\ \A t \in Ticks : tick[t].pc = "post" <=> tick[t].cur # NoSub
  /\ \A m \in requests \cup acks : m.attempt <= attempts[m.sub]

(* One life of the agent process runs a submission once, however often it  *)
(* is posted and whether the first run is over or not (server.py:27-32).   *)
OneRunPerLife ==
  \A s \in Subs :
    /\ starts[s] = IF active[s] = "no" THEN 0 ELSE 1
    /\ stage[s] # NoRun => active[s] = "running"

(* As long as nothing has died, ARMED says that the agent has the          *)
(* submission: it is in _active, running or over (scheduler.py:9,126).     *)
ArmedIsWithTheAgent ==
  faults = 0 => \A s \in Subs : status[s] = "ARMED" => active[s] # "no"

(* The dispatcher gives a submission up: it does not stay, or come back to,*)
(* PLANNED for ever, however the calls to the agent end.                   *)
PlannedIsLeft == \A s \in Subs : <>[](status[s] # "PLANNED")

(* models.py:772-773: once terminal, a submission does not change.         *)
TerminalIsFinal ==
  [][\A s \in Subs : status[s] \in Terminal => status'[s] = status[s]]_vars

(* report.py:3-4, runner.py:3-4: Linux does not wait for ever on an ARMED  *)
(* submission.                                                             *)
ArmedIsResolved == \A s \in Subs : status[s] = "ARMED" ~> status[s] # "ARMED"
=============================================================================

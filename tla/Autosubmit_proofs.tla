------------------------- MODULE Autosubmit_proofs -------------------------
(* Safety of the dispatcher and of the agent's registry, for any number of *)
(* submissions, overlapping ticks, attempts and faults.                    *)
EXTENDS Autosubmit, TLAPS

USE AutosubmitAssumption

(* The type invariant needs the claim invariant: attempts stays within its *)
(* bound because a PLANNED submission is below it.                         *)
Inv == TypeOK /\ DispatchInv

StageOK ==
  /\ stage \in [Subs -> [at : Stages, outcome : Outcomes \cup {"none"}]]
  /\ \A s \in Subs : stage[s].at = "report" => stage[s].outcome # "none"
  /\ active \in [Subs -> {"no", "running", "done"}]
  /\ reports \subseteq [sub : Subs, outcome : Outcomes]

-----------------------------------------------------------------------------
LEMMA InitInv == Init => Inv
  BY DEF Init, Inv, TypeOK, DispatchInv, OneDispatcher, LicensedRedispatch,
         Posting, Idle, NoRun, Statuses, Stages, Phases, Request, Outcomes

(* The steps that move a tick without touching a row.                      *)
LEMMA TickMoves ==
  ASSUME Inv, NEW t \in Ticks,
         \/ TickStart(t) \/ TickEnd(t) \/ TickDies(t)
         \/ \E s \in Subs : NotClaimed(t, s)
  PROVE  Inv'
  <1>1. CASE TickStart(t)
    BY <1>1 DEF TickStart, Inv, TypeOK, DispatchInv, OneDispatcher, LicensedRedispatch,
                Posting, dbVars, agentVars, Request
  <1>2. CASE TickEnd(t)
    BY <1>2 DEF TickEnd, Inv, TypeOK, DispatchInv, OneDispatcher, LicensedRedispatch,
                Posting, dbVars, agentVars, Request, Idle
  <1>3. CASE TickDies(t)
    BY <1>3 DEF TickDies, Inv, TypeOK, DispatchInv, OneDispatcher, LicensedRedispatch,
                Posting, dbVars, agentVars, Request, Idle
  <1>4. CASE \E s \in Subs : NotClaimed(t, s)
    BY <1>4 DEF NotClaimed, Inv, TypeOK, DispatchInv, OneDispatcher, LicensedRedispatch,
                Posting, dbVars, agentVars, Request
  <1> QED BY <1>1, <1>2, <1>3, <1>4

(* The steps that write a row from a claim or from the outcome of a call.  *)
LEMMA RowWrites ==
  ASSUME Inv, NEW t \in Ticks,
         \/ Armed(t) \/ DispatchFails(t)
         \/ \E s \in Subs : SkipLate(t, s) \/ Claim(t, s)
  PROVE  Inv'
  <1> USE DEF Inv, TypeOK, DispatchInv, OneDispatcher, LicensedRedispatch, Posting,
              dbVars, agentVars, Request, Statuses
  <1>1. CASE Armed(t)
    <2>1. tick[t].cur \in Subs  BY <1>1 DEF Armed
    <2> QED BY <1>1, <2>1 DEF Armed, NextSub
  <1>2. CASE DispatchFails(t)
    <2> DEFINE s == tick[t].cur
    <2>1. s \in Subs /\ t \in Posting(s)  BY <1>2 DEF DispatchFails
    <2>2. attempts[s] = refused[s] + 1 /\ attempts[s] \in 0 .. MaxAttempts  BY <2>1
    <2>3. TypeOK'  BY <1>2, <2>1, <2>2 DEF DispatchFails, NextSub
    <2>4. \A r \in Subs : Posting(r)' = IF r = s THEN {} ELSE Posting(r)
      BY <1>2, <2>1 DEF DispatchFails, NextSub
    <2> QED BY <1>2, <2>1, <2>2, <2>3, <2>4 DEF DispatchFails, NextSub
  <1>3. ASSUME NEW s \in Subs, SkipLate(t, s) PROVE Inv'
    BY <1>3 DEF SkipLate
  <1>4. ASSUME NEW s \in Subs, Claim(t, s) PROVE Inv'
    <2>1. Posting(s) = {} /\ attempts[s] = refused[s] /\ attempts[s] < MaxAttempts
      BY <1>4 DEF Claim
    <2>2. TypeOK'  BY <1>4, <2>1 DEF Claim, Take
    <2>3. \A r \in Subs : Posting(r)' = IF r = s THEN {t} ELSE Posting(r)
      BY <1>4, <2>1 DEF Claim, Take
    <2>4. attempts'[s] = refused[s] + 1 /\ refused' = refused /\ status'[s] = "DISPATCHING"
      BY <1>4, <2>1 DEF Claim, Take
    <2>5. \A r \in Subs \ {s} : attempts'[r] = attempts[r] /\ status'[r] = status[r]
      BY <1>4 DEF Claim, Take
    <2>6. OneDispatcher' /\ LicensedRedispatch'  BY <2>1, <2>3, <2>4, <2>5
    <2>7. \A m \in (requests \cup acks)' : m.attempt <= attempts'[m.sub]
      BY <1>4 DEF Claim, Take
    <2>8. \A u \in Ticks : tick'[u].pc = "post" <=> tick'[u].cur # NoSub
      BY <1>4 DEF Claim, Take
    <2> QED BY <2>2, <2>3, <2>4, <2>5, <2>6, <2>7, <2>8
  <1> QED BY <1>1, <1>2, <1>3, <1>4

(* The agent, the network and the clock leave the rows and the ticks       *)
(* alone; a report moves a row, but never to PLANNED.                      *)
LEMMA RestKeepsInv ==
  ASSUME Inv,
         \/ \E s \in Subs : AgentRun(s) \/ TimePasses(s)
         \/ \E m \in Request : AcceptRun(m) \/ Lose(m)
         \/ \E r \in [sub : Subs, outcome : Outcomes] : ApplyResult(r)
         \/ AgentRestarts
  PROVE  Inv'
  <1> USE DEF Inv, TypeOK, DispatchInv, OneDispatcher, LicensedRedispatch, Posting,
              dbVars, agentVars, Request, StageOK
  <1>1. ASSUME NEW s \in Subs, TimePasses(s) PROVE Inv'
    BY <1>1 DEF TimePasses, Follows, Phases
  <1>2. ASSUME NEW s \in Subs, AgentRun(s) PROVE Inv'
    <2>1. StageOK'
      <3>1. ASSUME NEW to \in Stages \ {"report"}, UNCHANGED <<active, reports>>,
                   stage' = [stage EXCEPT ![s] = [at |-> to, outcome |-> "none"]]
            PROVE  StageOK'
        <4>1. [at |-> to, outcome |-> "none"] \in [at : Stages, outcome : Outcomes \cup {"none"}]
          OBVIOUS
        <4> QED BY <3>1, <4>1
      <3>2. ASSUME NEW o \in Outcomes, Outcome(s, o), UNCHANGED <<active, reports>>
            PROVE  StageOK'
        <4>1. o # "none" /\ [at |-> "report", outcome |-> o]
                \in [at : Stages, outcome : Outcomes \cup {"none"}]
          BY DEF Stages, Outcomes
        <4> QED BY <3>2, <4>1 DEF Outcome
      <3>3. CASE Report(s)
        <4>1. /\ stage' \in [Subs -> [at : Stages, outcome : Outcomes \cup {"none"}]]
              /\ \A r \in Subs : stage'[r].at = "report" => stage'[r].outcome # "none"
              /\ active' \in [Subs -> {"no", "running", "done"}]
          BY <3>3 DEF Report, NoRun, Stages
        <4>2. stage[s].outcome \in Outcomes
          BY <3>3 DEF Report
        <4> QED BY <4>1, <4>2, <3>3 DEF Report
      <3>4. CASE WarmUp(s)
        BY <3>1, <3>4 DEF WarmUp, At, Stages
      <3>5. CASE OpenAt(s)
        BY <3>1, <3>2, <3>5 DEF OpenAt, At, Stages, Outcomes
      <3>6. CASE RunFails(s) \/ \E o \in Outcomes : Fire(s, o)
        BY <3>2, <3>6 DEF RunFails, Fire, Outcomes
      <3> QED BY <1>2, <3>3, <3>4, <3>5, <3>6 DEF AgentRun
    <2>2. UNCHANGED <<dbVars, phase, tick, requests, acks, starts, refused, faults>>
      BY <1>2 DEF AgentRun, WarmUp, OpenAt, RunFails, Report, Fire
    <2> QED BY <2>1, <2>2
  <1>3. ASSUME NEW m \in Request, AcceptRun(m) PROVE Inv'
    <2>1. m.sub \in Subs /\ m \in requests  BY <1>3 DEF AcceptRun
    <2>2. /\ stage' \in [Subs -> [at : Stages, outcome : Outcomes \cup {"none"}]]
          /\ \A r \in Subs : stage'[r].at = "report" => stage'[r].outcome # "none"
          /\ active' \in [Subs -> {"no", "running", "done"}]
          /\ starts' \in [Subs -> Nat]
      <3>1. CASE active[m.sub] = "no"
        <4>1. [at |-> "warmup", outcome |-> "none"]
                \in [at : Stages, outcome : Outcomes \cup {"none"}]
          BY DEF Stages
        <4>2. /\ stage' = [stage EXCEPT ![m.sub] = [at |-> "warmup", outcome |-> "none"]]
              /\ active' = [active EXCEPT ![m.sub] = "running"]
              /\ starts' = [starts EXCEPT ![m.sub] = @ + 1]
          BY <1>3, <3>1 DEF AcceptRun
        <4>3. \A r \in Subs : stage'[r].at = "report" => stage'[r].outcome # "none"
          BY <4>2
        <4>4. stage' \in [Subs -> [at : Stages, outcome : Outcomes \cup {"none"}]]
          BY <2>1, <4>1, <4>2
        <4> QED BY <2>1, <4>2, <4>3, <4>4
      <3>2. CASE active[m.sub] # "no"
        BY <1>3, <2>1, <3>2 DEF AcceptRun
      <3> QED BY <3>1, <3>2
    <2>3. requests' \subseteq Request /\ acks' \subseteq Request
      BY <1>3, <2>1 DEF AcceptRun
    <2>4. UNCHANGED <<dbVars, phase, tick, reports, refused, faults>>
      BY <1>3 DEF AcceptRun
    <2>5. (requests \cup acks)' \subseteq requests \cup acks
      BY <1>3 DEF AcceptRun
    <2>6. TypeOK'  BY <2>2, <2>3, <2>4
    <2>7. OneDispatcher' /\ LicensedRedispatch'  BY <2>4
    <2> QED BY <2>4, <2>5, <2>6, <2>7
  <1>4. ASSUME NEW m \in Request, Lose(m) PROVE Inv'
    BY <1>4 DEF Lose
  <1>5. ASSUME NEW r \in [sub : Subs, outcome : Outcomes], ApplyResult(r) PROVE Inv'
    <2>1. CASE UNCHANGED status
      BY <1>5, <2>1 DEF ApplyResult
    <2>2. CASE status' = [status EXCEPT ![r.sub] = r.outcome]
      <3>1. r.outcome \in Statuses \ {"PLANNED"}  BY DEF Outcomes, Statuses
      <3> HIDE DEF StageOK
      <3>2. TypeOK'  BY <1>5, <2>2, <3>1 DEF ApplyResult
      <3>3. DispatchInv'  BY <1>5, <2>2, <3>1 DEF ApplyResult
      <3> QED BY <3>2, <3>3
    <2> QED BY <1>5, <2>1, <2>2 DEF ApplyResult
  <1>6. CASE AgentRestarts
    <2>1. StageOK'
      <3>1. NoRun \in [at : Stages, outcome : Outcomes \cup {"none"}] /\ NoRun.at # "report"
        BY DEF NoRun, Stages
      <3> QED BY <1>6, <3>1 DEF AgentRestarts
    <2> QED BY <1>6, <2>1 DEF AgentRestarts
  <1> QED BY <1>1, <1>2, <1>3, <1>4, <1>5, <1>6

LEMMA Inductive == Spec => []Inv
  <1>1. Inv /\ UNCHANGED vars => Inv'
    BY DEF Inv, vars, TypeOK, DispatchInv, OneDispatcher, LicensedRedispatch, Posting,
           Request
  <1>2. Inv /\ [Next]_vars => Inv'
    BY <1>1, TickMoves, RowWrites, RestKeepsInv DEF Next, Dispatcher
  <1> QED BY <1>2, InitInv, PTL DEF Spec

(* The type invariant: the attempts of a submission stay within            *)
(* MAX_DISPATCH_ATTEMPTS, and every variable within its type.              *)
THEOREM TypeCorrect == Spec => []TypeOK
  BY Inductive, PTL DEF Inv

(* Nobody posts a PLANNED submission, and no request is unaccounted for.   *)
THEOREM ClaimInvariant == Spec => []DispatchInv
  BY Inductive, PTL DEF Inv

(* The claim of scheduler.py:85-112 gives a submission to one tick.        *)
THEOREM ClaimsAreExclusive == Spec => []OneDispatcher
  BY Inductive, PTL DEF Inv, DispatchInv

(* A crash of the dispatcher never leads to a second request               *)
(* (scheduler.py:106-109).                                                 *)
THEOREM CrashNeverRedispatches == Spec => []LicensedRedispatch
  BY Inductive, PTL DEF Inv, DispatchInv

-----------------------------------------------------------------------------
(* What the agent's registry adds: an acknowledged submission is in it.    *)
AgentInv ==
  /\ OneRunPerLife
  /\ ArmedIsWithTheAgent
  /\ faults = 0 => \A m \in acks : active[m.sub] # "no"

LEMMA AgentInductive == Inv /\ AgentInv /\ [Next]_vars => AgentInv'
  <1> SUFFICES ASSUME Inv, AgentInv, [Next]_vars PROVE AgentInv'
    OBVIOUS
  <1> USE DEF Inv, TypeOK, AgentInv, OneRunPerLife, ArmedIsWithTheAgent, dbVars,
              agentVars, Request
  <1>1. ASSUME NEW t \in Ticks, Dispatcher(t) \/ TickDies(t) PROVE AgentInv'
    <2>1. UNCHANGED agentVars /\ faults' \in {faults, faults + 1}
      BY <1>1 DEF Dispatcher, TickStart, TickEnd, TickDies, NotClaimed, SkipLate, Claim,
                  Take, Armed, DispatchFails
    <2>2. acks' \subseteq acks
      BY <1>1 DEF Dispatcher, TickStart, TickEnd, TickDies, NotClaimed, SkipLate, Claim,
                  Take, Armed, DispatchFails
    <2>3. ASSUME NEW s \in Subs, status'[s] = "ARMED", faults = 0
          PROVE  status[s] = "ARMED" \/ active[s] # "no"
      <3>1. CASE Armed(t)
        BY <3>1, <2>3 DEF Armed
      <3>2. CASE ~Armed(t)
        BY <3>2, <2>3, <1>1 DEF Dispatcher, TickStart, TickEnd, TickDies, NotClaimed,
              SkipLate, Claim, Take, DispatchFails
      <3> QED BY <3>1, <3>2
    <2>4. OneRunPerLife'  BY <2>1
    <2>5. faults' = 0 => faults = 0  BY <2>1
    <2> QED BY <2>1, <2>2, <2>3, <2>4, <2>5
  <1>2. ASSUME NEW s \in Subs, TimePasses(s) PROVE AgentInv'
    BY <1>2 DEF TimePasses
  <1>3. ASSUME NEW s \in Subs, AgentRun(s) PROVE AgentInv'
    <2>1. UNCHANGED <<dbVars, acks, starts, faults>>
      BY <1>3 DEF AgentRun, WarmUp, OpenAt, RunFails, Report, Fire
    <2>2. \/ active' = active /\ stage[s] # NoRun
          \/ active' = [active EXCEPT ![s] = "done"] /\ stage[s] # NoRun /\ stage'[s] = NoRun
      BY <1>3 DEF AgentRun, WarmUp, OpenAt, RunFails, Report, Fire, At, NoRun
    <2>3. \A r \in Subs \ {s} : stage'[r] = stage[r]
      BY <1>3 DEF AgentRun, WarmUp, OpenAt, RunFails, Report, Fire, At, Outcome
    <2> QED BY <2>1, <2>2, <2>3
  <1>4. ASSUME NEW m \in Request, AcceptRun(m) PROVE AgentInv'
    <2> DEFINE s == m.sub
    <2>1. s \in Subs /\ acks' = acks \cup {m} /\ UNCHANGED <<dbVars, faults>>
      BY <1>4 DEF AcceptRun
    <2>2. CASE active[s] = "no"
      <3>1. /\ active' = [active EXCEPT ![s] = "running"]
            /\ starts' = [starts EXCEPT ![s] = @ + 1]
            /\ \A r \in Subs \ {s} : stage'[r] = stage[r]
        BY <1>4, <2>1, <2>2 DEF AcceptRun
      <3>2. OneRunPerLife'  BY <3>1, <2>1, <2>2
      <3> QED BY <2>1, <3>1, <3>2
    <2>3. CASE active[s] # "no"
      BY <1>4, <2>1, <2>3 DEF AcceptRun
    <2> QED BY <2>2, <2>3
  <1>5. ASSUME NEW m \in Request, Lose(m) PROVE AgentInv'
    BY <1>5 DEF Lose
  <1>6. ASSUME NEW r \in [sub : Subs, outcome : Outcomes], ApplyResult(r) PROVE AgentInv'
    BY <1>6 DEF ApplyResult, Outcomes
  <1>7. CASE AgentRestarts
    BY <1>7 DEF AgentRestarts
  <1>8. CASE UNCHANGED vars
    BY <1>8 DEF vars
  <1> QED BY <1>1, <1>2, <1>3, <1>4, <1>5, <1>6, <1>7, <1>8 DEF Next

LEMMA AgentInitially == Init => AgentInv
  BY DEF Init, AgentInv, OneRunPerLife, ArmedIsWithTheAgent

(* The registry of server.py:27-54 starts a submission once in the life of *)
(* the agent process, however often it is posted.                          *)
THEOREM AgentRunsOnce == Spec => []OneRunPerLife
  BY Inductive, AgentInductive, AgentInitially, PTL DEF Spec, AgentInv

(* Without deaths, ARMED is never written for a submission the agent does  *)
(* not have.                                                               *)
THEOREM ArmedMeansAccepted == Spec => []ArmedIsWithTheAgent
  BY Inductive, AgentInductive, AgentInitially, PTL DEF Spec, AgentInv
=============================================================================

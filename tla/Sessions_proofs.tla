--------------------------- MODULE Sessions_proofs ----------------------------
(* What concurrent database sessions keep between a read and a commit: runs *)
(* started by hand, users and roles, the registry of organizations; for     *)
(* every number of sessions.                                                *)
EXTENDS AdhocRuns, Access, Registry, TLAPS

-----------------------------------------------------------------------------
(* Runs started by hand.                                                    *)

(* A run that walks or will: its message is there, or still to be sent.    *)
LiveRun(r) ==
  \/ message[r] \in {"queued", "walking"}
  \/ \E q \in Requests : asking[q].at = "inserted" /\ asking[q].run = r

GuardedRuns == {r \in RunIds : LiveRun(r) /\ r \notin unguarded}

(* A row that exists is never inserted again, and is sent once.            *)
InsertedOnce ==
  /\ \A r \in RunIds : runRow[r].state = "none" => message[r] = "none"
  /\ \A q \in Requests : asking[q].at = "inserted" =>
       /\ asking[q].run \in RunIds
       /\ runRow[asking[q].run].state # "none" /\ message[asking[q].run] = "none"
  /\ \A p, q \in Requests : asking[p].at = "inserted" /\ asking[q].at = "inserted"
                            /\ asking[p].run = asking[q].run => p = q

(* What the check relies on: a guarded run shows, so that nobody passes    *)
(* the check while there is one, and there is one at most.                 *)
GuardedShows == \A r \in GuardedRuns : Open(r) /\ clock - runRow[r].progress <= StaleAfter
NobodyPasses == (\E q \in Requests : asking[q].at = "free") => GuardedRuns = {}
OneGuarded == \A r, s \in GuardedRuns : r = s

AdhocInv == AdhocTypeOK /\ InsertedOnce /\ GuardedShows /\ NobodyPasses /\ OneGuarded

LEMMA AdhocInvInit == AdhocInit => AdhocInv
  <1> SUFFICES ASSUME AdhocInit PROVE AdhocInv
    OBVIOUS
  <1> USE AdhocAssumption DEF AdhocInit
  <1>1. AdhocTypeOK
    BY DEF AdhocTypeOK, NoRun, Quiet
  <1>2. InsertedOnce /\ GuardedRuns = {}
    BY DEF InsertedOnce, GuardedRuns, LiveRun, Quiet
  <1> QED BY <1>1, <1>2 DEF AdhocInv, GuardedShows, NobodyPasses, OneGuarded

LEMMA ReapedRows ==
  ASSUME AdhocTypeOK, runRow' = Reaped
  PROVE  /\ runRow' \in [RunIds -> [state : {"none", "open", "closed"},
                                    started : 0..AdhocTime, progress : 0..AdhocTime]]
         /\ \A r \in RunIds : /\ runRow'[r].state = "none" <=> runRow[r].state = "none"
                              /\ ~StaleRuns(r) => runRow'[r] = runRow[r]
  BY DEF AdhocTypeOK, Reaped, StaleRuns, Open

LEMMA AdhocTypeStep ==
  ASSUME AdhocTypeOK, InsertedOnce, [AdhocNext]_adhocVars
  PROVE  AdhocTypeOK'
  <1> USE AdhocAssumption DEF AdhocTypeOK
  <1>1. ASSUME RunsPage PROVE AdhocTypeOK'
    BY <1>1, ReapedRows DEF RunsPage
  <1>2. ASSUME ClockTicks PROVE AdhocTypeOK'
    <2>1. clock' \in 0..AdhocTime
      BY <1>2 DEF ClockTicks
    <2>2. unguarded' \subseteq RunIds
      BY <1>2 DEF ClockTicks
    <2> QED BY <1>2, <2>1, <2>2 DEF ClockTicks
  <1>3. ASSUME NEW q \in Requests, FindActiveRun(q) PROVE AdhocTypeOK'
    BY <1>3, ReapedRows DEF FindActiveRun
  <1>4. ASSUME NEW q \in Requests, InsertRun(q) PROVE AdhocTypeOK'
    BY <1>4 DEF InsertRun
  <1>5. ASSUME NEW q \in Requests, SendRun(q) \/ RequestDies(q) PROVE AdhocTypeOK'
    <2>1. asking' \in [Requests -> [at : {"quiet", "free", "inserted"}, run : RunIds \cup {-1}]]
      BY <1>5 DEF SendRun, RequestDies, Quiet
    <2>2. message' \in [RunIds -> {"none", "queued", "walking", "gone"}]
      BY <1>5 DEF SendRun, RequestDies
    <2>3. UNCHANGED <<clock, runRow, runRetries, unguarded>>
      BY <1>5 DEF SendRun, RequestDies
    <2> QED BY <2>1, <2>2, <2>3
  <1>6. ASSUME NEW r \in RunIds, StartRun(r) \/ Heartbeat(r) \/ WalkFinished(r) PROVE AdhocTypeOK'
    BY <1>6 DEF StartRun, Heartbeat, WalkFinished
  <1>7. ASSUME NEW r \in RunIds, WalkFailed(r) PROVE AdhocTypeOK'
    <2>1. /\ runRow' = [runRow EXCEPT ![r].state = "closed"]
          /\ message' \in [RunIds -> {"none", "queued", "walking", "gone"}]
          /\ UNCHANGED <<clock, asking>>
      BY <1>7 DEF WalkFailed
    <2>2. runRetries' \in [RunIds -> 0..RunRetries] /\ unguarded' \subseteq RunIds
      <3>1. CASE runRetries[r] > 0
        <4>1. runRetries[r] - 1 \in 0..RunRetries
          BY <3>1
        <4> QED BY <1>7, <3>1, <4>1 DEF WalkFailed
      <3>2. CASE ~(runRetries[r] > 0)
        BY <1>7, <3>2 DEF WalkFailed
      <3> QED BY <3>1, <3>2
    <2> QED BY <2>1, <2>2
  <1>8. CASE UNCHANGED adhocVars
    BY <1>8 DEF adhocVars
  <1> QED BY <1>1, <1>2, <1>3, <1>4, <1>5, <1>6, <1>7, <1>8 DEF AdhocNext

LEMMA InsertedOnceStep ==
  ASSUME AdhocTypeOK, InsertedOnce, [AdhocNext]_adhocVars
  PROVE  InsertedOnce'
  <1> USE AdhocAssumption DEF AdhocTypeOK, InsertedOnce
  <1>1. ASSUME RunsPage PROVE InsertedOnce'
    <2>1. message' = message /\ asking' = asking
          /\ \A r \in RunIds : runRow'[r].state = "none" <=> runRow[r].state = "none"
      BY <1>1, ReapedRows DEF RunsPage
    <2> QED BY <2>1, ZenonT(40)
  <1>2. ASSUME ClockTicks PROVE InsertedOnce'
    BY <1>2 DEF ClockTicks
  <1>3. ASSUME NEW q \in Requests, FindActiveRun(q) PROVE InsertedOnce'
    <2>1. \A p \in Requests : asking'[p].at = "inserted" => asking'[p] = asking[p]
      BY <1>3 DEF FindActiveRun, Quiet
    <2>2. message' = message /\ runRow' = Reaped
      BY <1>3 DEF FindActiveRun
    <2>3. \A r \in RunIds : runRow'[r].state = "none" <=> runRow[r].state = "none"
      BY <2>2, ReapedRows
    <2>a. \A s \in RunIds : runRow'[s].state = "none" => message'[s] = "none"
      BY <2>1, <2>2, <2>3
    <2>b. \A p \in Requests : asking'[p].at = "inserted" =>
             /\ asking'[p].run \in RunIds
             /\ runRow'[asking'[p].run].state # "none" /\ message'[asking'[p].run] = "none"
      <3> SUFFICES ASSUME NEW p \in Requests, asking'[p].at = "inserted"
                   PROVE  /\ asking'[p].run \in RunIds
                          /\ runRow'[asking'[p].run].state # "none"
                          /\ message'[asking'[p].run] = "none"
        OBVIOUS
      <3>1. /\ asking'[p] = asking[p] /\ asking[p].run \in RunIds
            /\ runRow[asking[p].run].state # "none" /\ message[asking[p].run] = "none"
        BY <2>1
      <3>2. runRow'[asking[p].run].state # "none"
        BY <2>3, <3>1
      <3> QED BY <2>2, <3>1, <3>2
    <2>c. \A p, v \in Requests : asking'[p].at = "inserted" /\ asking'[v].at = "inserted"
                                  /\ asking'[p].run = asking'[v].run => p = v
      BY <2>1, <2>2, <2>3
    <2> QED BY <2>a, <2>b, <2>c
  <1>4. ASSUME NEW q \in Requests, InsertRun(q) PROVE InsertedOnce'
    <2>1. PICK r \in RunIds :
            /\ runRow[r].state = "none"
            /\ runRow' = [runRow EXCEPT ![r] = [state |-> "open", started |-> clock, progress |-> clock]]
            /\ asking' = [asking EXCEPT ![q] = [at |-> "inserted", run |-> r]]
      BY <1>4 DEF InsertRun
    <2>2. message' = message
      BY <1>4 DEF InsertRun
    <2>3. /\ runRow'[r].state = "open" /\ asking'[q] = [at |-> "inserted", run |-> r]
          /\ \A s \in RunIds : s # r => runRow'[s] = runRow[s]
          /\ \A p \in Requests : p # q => asking'[p] = asking[p]
      BY <2>1
    <2>4. \A p \in Requests : asking[p].at = "inserted" => asking[p].run # r
      BY <2>1
    <2> QED BY <2>1, <2>2, <2>3, <2>4
  <1>5. ASSUME NEW q \in Requests, SendRun(q) \/ RequestDies(q) PROVE InsertedOnce'
    <2>1. /\ runRow' = runRow /\ asking'[q].at = "quiet"
          /\ \A p \in Requests : p # q => asking'[p] = asking[p]
      BY <1>5 DEF SendRun, RequestDies, Quiet
    <2>2. \/ message' = message
          \/ asking[q].at = "inserted" /\ message' = [message EXCEPT ![asking[q].run] = "queued"]
      BY <1>5 DEF SendRun, RequestDies
    <2>3. \A p \in Requests : asking'[p].at = "inserted" =>
             p # q /\ message'[asking[p].run] = message[asking[p].run]
      BY <2>1, <2>2
    <2> QED BY <2>1, <2>2, <2>3
  <1>6. ASSUME NEW r \in RunIds, StartRun(r) \/ Heartbeat(r) \/ WalkFinished(r) PROVE InsertedOnce'
    <2>1. /\ asking' = asking /\ message[r] # "none"
          /\ \A s \in RunIds : /\ s # r => message'[s] = message[s]
                               /\ runRow'[s].state = "none" => runRow[s].state = "none"
                               /\ runRow[s].state # "none" => runRow'[s].state # "none"
      BY <1>6 DEF StartRun, Heartbeat, WalkFinished
    <2>a. \A s \in RunIds : runRow'[s].state = "none" => message'[s] = "none"
      BY <2>1
    <2>b. \A p \in Requests : asking'[p].at = "inserted" =>
             /\ asking'[p].run \in RunIds
             /\ runRow'[asking'[p].run].state # "none" /\ message'[asking'[p].run] = "none"
      BY <2>1, ZenonT(40)
    <2>c. \A p, v \in Requests : asking'[p].at = "inserted" /\ asking'[v].at = "inserted"
                                  /\ asking'[p].run = asking'[v].run => p = v
      BY <2>1
    <2> QED BY <2>a, <2>b, <2>c
  <1>7. ASSUME NEW r \in RunIds, WalkFailed(r) PROVE InsertedOnce'
    <2>1. /\ asking' = asking /\ message[r] # "none"
          /\ \A s \in RunIds : /\ s # r => message'[s] = message[s]
                               /\ runRow'[s].state = "none" => runRow[s].state = "none"
                               /\ runRow[s].state # "none" => runRow'[s].state # "none"
      BY <1>7 DEF WalkFailed
    <2>a. \A s \in RunIds : runRow'[s].state = "none" => message'[s] = "none"
      BY <2>1
    <2>b. \A p \in Requests : asking'[p].at = "inserted" =>
             /\ asking'[p].run \in RunIds
             /\ runRow'[asking'[p].run].state # "none" /\ message'[asking'[p].run] = "none"
      BY <2>1, ZenonT(40)
    <2>c. \A p, v \in Requests : asking'[p].at = "inserted" /\ asking'[v].at = "inserted"
                                  /\ asking'[p].run = asking'[v].run => p = v
      BY <2>1
    <2> QED BY <2>a, <2>b, <2>c
  <1>8. CASE UNCHANGED adhocVars
    BY <1>8 DEF adhocVars
  <1> QED BY <1>1, <1>2, <1>3, <1>4, <1>5, <1>6, <1>7, <1>8 DEF AdhocNext

(* Of the guarded runs, only an insertion makes a new one.                 *)
LEMMA GuardedStep ==
  ASSUME AdhocTypeOK, InsertedOnce, GuardedShows, NobodyPasses, OneGuarded, [AdhocNext]_adhocVars
  PROVE  GuardedShows' /\ NobodyPasses' /\ OneGuarded'
  <1> USE AdhocAssumption DEF AdhocTypeOK
  <1> DEFINE Goal == GuardedShows' /\ NobodyPasses' /\ OneGuarded'
  <1>0. ASSUME GuardedRuns' \subseteq GuardedRuns, UNCHANGED clock,
               \A r \in GuardedRuns' : runRow'[r] = runRow[r],
               \A q \in Requests : asking'[q].at = "free" => asking[q].at = "free"
        PROVE  Goal
    BY <1>0 DEF GuardedShows, NobodyPasses, OneGuarded, Open
  <1>1. ASSUME RunsPage PROVE Goal
    <2>1. GuardedRuns' = GuardedRuns /\ UNCHANGED <<clock, asking>>
      BY <1>1 DEF RunsPage, GuardedRuns, LiveRun
    <2>2. \A r \in GuardedRuns : ~StaleRuns(r)
      BY DEF GuardedShows, StaleRuns, GuardedRuns
    <2>3. \A r \in GuardedRuns' : runRow'[r] = runRow[r]
      BY <1>1, <2>1, <2>2, ReapedRows DEF RunsPage, GuardedRuns
    <2> QED BY <1>0, <2>1, <2>3
  <1>2. ASSUME ClockTicks PROVE Goal
    <2>1. /\ UNCHANGED <<runRow, asking, message>> /\ clock' = clock + 1
          /\ unguarded' = unguarded \cup
                    {r \in RunIds : Open(r) /\ clock + 1 - runRow[r].progress > StaleAfter}
      BY <1>2 DEF ClockTicks
    <2>2. GuardedRuns' \subseteq GuardedRuns
      BY <2>1 DEF GuardedRuns, LiveRun
    <2>3. ASSUME NEW r \in GuardedRuns' PROVE Open(r)' /\ clock' - runRow'[r].progress <= StaleAfter
      <3>1. r \in RunIds /\ Open(r) /\ r \notin unguarded'
        BY <2>2 DEF GuardedShows, GuardedRuns
      <3> QED BY <2>1, <3>1 DEF Open
    <2> QED BY <2>1, <2>2, <2>3 DEF GuardedShows, NobodyPasses, OneGuarded
  <1>3. ASSUME NEW q \in Requests, FindActiveRun(q) PROVE Goal
    <2>1. /\ UNCHANGED <<clock, message, unguarded>> /\ runRow' = Reaped /\ asking[q] = Quiet
          /\ asking' = IF Active = {} THEN [asking EXCEPT ![q].at = "free"] ELSE asking
      BY <1>3 DEF FindActiveRun
    <2>2. \A p \in Requests : asking'[p].at = "inserted" => asking'[p] = asking[p]
      BY <2>1 DEF Quiet
    <2>3. GuardedRuns' \subseteq GuardedRuns
      BY <2>1, <2>2 DEF GuardedRuns, LiveRun
    <2>4. \A r \in GuardedRuns : ~StaleRuns(r) /\ r \in Active
      BY DEF GuardedShows, StaleRuns, GuardedRuns, Active
    <2>5. \A r \in GuardedRuns' : runRow'[r] = runRow[r]
      BY <2>1, <2>3, <2>4, ReapedRows DEF GuardedRuns
    <2>6. CASE Active = {}
      BY <2>3, <2>4, <2>6 DEF GuardedShows, NobodyPasses, OneGuarded
    <2>7. CASE Active # {}
      BY <1>0, <2>1, <2>3, <2>5, <2>7
    <2> QED BY <2>6, <2>7
  <1>4. ASSUME NEW q \in Requests, InsertRun(q) PROVE Goal
    <2>1. PICK r \in RunIds :
            /\ runRow[r].state = "none"
            /\ runRow' = [runRow EXCEPT ![r] = [state |-> "open", started |-> clock, progress |-> clock]]
            /\ asking' = [asking EXCEPT ![q] = [at |-> "inserted", run |-> r]]
            /\ unguarded' = IF \E p \in Requests \ {q} : asking[p].at = "free"
                            THEN unguarded \cup {r} ELSE unguarded
      BY <1>4 DEF InsertRun
    <2>2. UNCHANGED <<clock, message>> /\ asking[q].at = "free" /\ GuardedRuns = {}
      BY <1>4 DEF InsertRun, NobodyPasses
    <2>3. GuardedRuns' \subseteq {r}
      BY <2>1, <2>2 DEF GuardedRuns, LiveRun
    <2>4. Open(r)' /\ clock' - runRow'[r].progress <= StaleAfter
      BY <2>1, <2>2 DEF Open
    <2>5. r \in GuardedRuns' => \A p \in Requests : asking'[p].at # "free"
      BY <2>1 DEF GuardedRuns
    <2> QED BY <2>3, <2>4, <2>5 DEF GuardedShows, NobodyPasses, OneGuarded
  <1>5. ASSUME NEW q \in Requests, SendRun(q) PROVE Goal
    <2>1. GuardedRuns' \subseteq GuardedRuns
      BY <1>5 DEF SendRun, GuardedRuns, LiveRun, Quiet, InsertedOnce
    <2> QED BY <1>0, <1>5, <2>1 DEF SendRun, Quiet
  <1>6. ASSUME NEW q \in Requests, RequestDies(q) PROVE Goal
    <2>1. GuardedRuns' \subseteq GuardedRuns
      BY <1>6 DEF RequestDies, GuardedRuns, LiveRun, Quiet
    <2> QED BY <1>0, <1>6, <2>1 DEF RequestDies, Quiet
  <1>7. ASSUME NEW r \in RunIds, StartRun(r) PROVE Goal
    <2>1. GuardedRuns' \subseteq GuardedRuns
      BY <1>7 DEF StartRun, GuardedRuns, LiveRun
    <2> QED BY <1>0, <1>7, <2>1 DEF StartRun
  <1>8. ASSUME NEW r \in RunIds, Heartbeat(r) PROVE Goal
    <2>1. GuardedRuns' = GuardedRuns /\ UNCHANGED <<clock, asking>>
      BY <1>8 DEF Heartbeat, GuardedRuns, LiveRun
    <2>2. runRow' = [runRow EXCEPT ![r].progress = clock]
      BY <1>8 DEF Heartbeat
    <2>3. \A s \in RunIds : Open(s)' = Open(s) /\ (s # r => runRow'[s] = runRow[s])
                            /\ runRow'[r].progress = clock
      BY <2>2 DEF Open
    <2> QED BY <2>1, <2>3 DEF GuardedShows, NobodyPasses, OneGuarded, GuardedRuns
  <1>9. ASSUME NEW r \in RunIds, WalkFinished(r) \/ WalkFailed(r) PROVE Goal
    <2>1. /\ UNCHANGED <<clock, asking>> /\ runRow' = [runRow EXCEPT ![r].state = "closed"]
          /\ message[r] = "walking"
          /\ \A s \in RunIds : s # r => message'[s] = message[s]
          /\ unguarded \subseteq unguarded'
          /\ message'[r] = "gone" \/ r \in unguarded'
      BY <1>9 DEF WalkFinished, WalkFailed
    <2>2. r \notin GuardedRuns'
      BY <2>1 DEF GuardedRuns, LiveRun, InsertedOnce
    <2>3. GuardedRuns' \subseteq GuardedRuns /\ \A s \in GuardedRuns' : runRow'[s] = runRow[s]
      BY <2>1, <2>2 DEF GuardedRuns, LiveRun
    <2> QED BY <1>0, <2>1, <2>3
  <1>10. CASE UNCHANGED adhocVars
    BY <1>0, <1>10 DEF adhocVars, GuardedRuns, LiveRun
  <1> QED BY <1>1, <1>2, <1>3, <1>4, <1>5, <1>6, <1>7, <1>8, <1>9, <1>10 DEF AdhocNext

(* However old a run started by hand grows, no second one walks beside it,  *)
(* except those the check could not see (scan.py:113-114, ingest.py:31-34), *)
(* for any number of requests and runs.                                     *)
THEOREM OneRunWalks == AdhocSpec => []OneRunAtATime
  <1>1. AdhocInv /\ [AdhocNext]_adhocVars => AdhocInv'
    BY AdhocTypeStep, InsertedOnceStep, GuardedStep DEF AdhocInv
  <1>2. AdhocInv => OneRunAtATime
    <2> SUFFICES ASSUME AdhocInv, NEW r \in RunIds, NEW s \in RunIds, r < s,
                        message[r] = "walking", message[s] = "walking",
                        r \notin unguarded, s \notin unguarded
                 PROVE  FALSE
      BY DEF OneRunAtATime
    <2>1. r \in GuardedRuns /\ s \in GuardedRuns
      BY DEF GuardedRuns, LiveRun
    <2> QED BY <2>1, AdhocAssumption DEF AdhocInv, OneGuarded
  <1> QED BY <1>1, <1>2, AdhocInvInit, PTL DEF AdhocSpec

-----------------------------------------------------------------------------
(* Users and roles.                                                         *)

AccountRow == Account \cup {Missing}
RoleRow == [pages : SUBSET Tabs] \cup {Missing}
RequestForm == [what : {"none", "edit", "delete", "dropRole"}, target : Accounts \cup {NoAccount},
         role : Roles \cup {NoRole}, saw : AccountRow, want : AccountRow, stale : BOOLEAN]

(* What a request carries from its reads to its commit.                    *)
Carries(f) ==
  /\ form[f].what = "edit" => /\ form[f].target \in Accounts
                              /\ form[f].saw \in Account /\ form[f].want \in Account
  /\ form[f].what = "delete" => form[f].target \in Accounts
  /\ form[f].what = "dropRole" => form[f].role \in Roles
  /\ form[f].what = "none" => form[f] = Blank

AccessShape ==
  /\ accounts \in [Accounts -> AccountRow] /\ roles \in [Roles -> RoleRow]
  /\ form \in [Forms -> RequestForm] /\ chosen \in [Accounts -> Roles \cup {NoRole}]
  /\ crossed \in BOOLEAN
  /\ \A f \in Forms : Carries(f)
  /\ \A u \in Accounts : Known(u) /\ accounts[u].role # NoRole => Exists(accounts[u].role)

(* A request nobody has overtaken: the rows it has read are the rows, and  *)
(* its commit leaves an administrator and every assigned role.             *)
OnTime(f) ==
  /\ form[f].what = "edit" =>
       /\ accounts[form[f].target] = form[f].saw
       /\ form[f].want.role \in RoleChoices
       /\ \E by \in Accounts : /\ MayAdminister(by)
                               /\ by = form[f].target => form[f].want.admin /\ form[f].want.active
  /\ form[f].what = "delete" =>
       \E by \in Accounts : MayAdminister(by) /\ by # form[f].target
  /\ form[f].what = "dropRole" =>
       \A u \in Accounts : Known(u) => accounts[u].role # form[f].role

Settled ==
  /\ \E u \in Accounts : MayAdminister(u)
  /\ \A u \in Accounts : Known(u) => accounts[u].role = chosen[u]
  /\ \A f \in Forms : ~form[f].stale => OnTime(f)

AccessInv == AccessShape /\ (crossed \/ Settled)

LEMMA RowsDiffer ==
  /\ Missing \notin Account
  /\ \A a \in AccountRow : a # Missing => a \in Account
  /\ \A pages : [pages |-> pages] # Missing
  BY DEF Missing, Account, AccountRow

LEMMA BlankForm == Blank \in RequestForm /\ Blank.stale = FALSE
  BY DEF Blank, RequestForm, AccountRow

LEMMA AccessInvInit == AccessInit => AccessInv
  <1> SUFFICES ASSUME AccessInit PROVE AccessInv
    OBVIOUS
  <1> USE AccessAssumption, RowsDiffer DEF AccessInit
  <1>1. PICK first \in Accounts : accounts = [u \in Accounts |->
            IF u = first THEN [admin |-> TRUE, active |-> TRUE, role |-> NoRole]
            ELSE Missing]
    OBVIOUS
  <1>2. [admin |-> TRUE, active |-> TRUE, role |-> NoRole] \in Account
    BY DEF Account
  <1>3. \A u \in Accounts : Known(u) => u = first
    BY <1>1 DEF Known
  <1>4. Blank \in RequestForm
    BY DEF Blank, RequestForm, AccountRow
  <1>5. AccessShape
    BY <1>1, <1>2, <1>3, <1>4 DEF AccessShape, AccountRow, RoleRow, Carries, Blank
  <1>6. Settled
    BY <1>1, <1>2, <1>3 DEF Settled, MayAdminister, Known, OnTime, Blank
  <1> QED BY <1>5, <1>6 DEF AccessInv

LEMMA FormsClosed ==
  ASSUME AccessShape, NEW f \in Forms, NEW touched \in BOOLEAN, Closes(f, touched)
  PROVE  /\ form' \in [Forms -> RequestForm] /\ \A g \in Forms : Carries(g)'
         /\ form'[f] = Blank
         /\ \A g \in Forms \ {f} :
              /\ form'[g] = form[g] \/ form'[g] = [form[g] EXCEPT !.stale = TRUE]
              /\ ~touched => form'[g] = form[g]
              /\ touched /\ ~form'[g].stale => form'[g] = Blank
  <1> USE DEF AccessShape
  <1>1. Blank \in RequestForm
    BY DEF Blank, RequestForm, AccountRow
  <1>2. \A g \in Forms : [form[g] EXCEPT !.stale = TRUE] \in RequestForm
    BY DEF RequestForm
  <1>3. /\ form' \in [Forms -> RequestForm] /\ form'[f] = Blank
        /\ \A g \in Forms \ {f} :
             /\ form'[g] = form[g] \/ form'[g] = [form[g] EXCEPT !.stale = TRUE]
             /\ ~touched => form'[g] = form[g]
    BY <1>1, <1>2 DEF Closes
  <1>4. ASSUME NEW g \in Forms \ {f}, touched, ~form'[g].stale PROVE form'[g] = Blank
    <2>1. form'[g] = IF form[g] # Blank THEN [form[g] EXCEPT !.stale = TRUE] ELSE form[g]
      BY <1>4 DEF Closes
    <2>2. [form[g] EXCEPT !.stale = TRUE].stale = TRUE
      BY DEF RequestForm
    <2> QED BY <1>4, <2>1, <2>2
  <1>5. ASSUME NEW g \in Forms PROVE Carries(g)'
    <2>1. CASE form'[g] = Blank
      BY <2>1 DEF Carries, Blank
    <2>2. CASE form'[g] = form[g]
      BY <2>2 DEF Carries
    <2>3. CASE form'[g] = [form[g] EXCEPT !.stale = TRUE] /\ form[g] # Blank
      BY <2>3 DEF Carries, RequestForm
    <2> QED BY <2>1, <2>2, <2>3 DEF Closes
  <1> QED BY <1>3, <1>4, <1>5

(* Blank requests are on time, and a change leaves no other that is.       *)
LEMMA BlankIsOnTime == \A f \in Forms : form[f] = Blank => OnTime(f)
  BY DEF OnTime, Blank

(* A request that is over and has changed nothing leaves all as it was.    *)
LEMMA NothingTouched ==
  ASSUME AccessInv, NEW f \in Forms, Closes(f, FALSE),
         UNCHANGED <<accounts, roles, chosen, crossed>>
  PROVE  AccessInv'
  <1>1. AccessShape'
    BY FormsClosed DEF AccessInv, AccessShape, Known, Exists
  <1>2. ASSUME Settled PROVE Settled'
    <2>1. \A g \in Forms : form'[g] = Blank \/ form'[g] = form[g]
      BY FormsClosed DEF AccessInv
    <2>2. \A g \in Forms : ~form'[g].stale => OnTime(g)'
      BY <1>2, <2>1 DEF Settled, OnTime, MayAdminister, Known, RoleChoices, Exists, Blank
    <2> QED BY <1>2, <2>2 DEF Settled, MayAdminister, Known
  <1> QED BY <1>1, <1>2 DEF AccessInv

(* After a change every other request is late.                             *)
LEMMA OthersAreLate ==
  ASSUME AccessInv, NEW f \in Forms, Closes(f, TRUE)
  PROVE  \A g \in Forms : ~form'[g].stale => OnTime(g)'
  <1>1. \A g \in Forms : ~form'[g].stale => form'[g] = Blank
    BY FormsClosed DEF AccessInv
  <1> QED BY <1>1 DEF OnTime, Blank

(* A request that opens: the rest stays as it is.                          *)
LEMMA OneOpened ==
  ASSUME AccessInv, NEW f \in Forms, NEW new \in RequestForm,
         form' = [form EXCEPT ![f] = new],
         UNCHANGED <<accounts, roles, chosen, crossed>>,
         Carries(f)', Settled => OnTime(f)'
  PROVE  AccessInv'
  <1>1. form' \in [Forms -> RequestForm] /\ \A g \in Forms \ {f} : form'[g] = form[g]
    BY DEF AccessInv, AccessShape
  <1>2. AccessShape'
    BY <1>1 DEF AccessInv, AccessShape, Carries, Known, Exists
  <1>3. ASSUME Settled PROVE Settled'
    <2>1. \A g \in Forms \ {f} : ~form'[g].stale => OnTime(g)'
      BY <1>1, <1>3 DEF Settled, OnTime, MayAdminister, Known, RoleChoices, Exists
    <2> QED BY <1>3, <2>1 DEF Settled, MayAdminister, Known
  <1> QED BY <1>2, <1>3 DEF AccessInv

LEMMA AccessInvStep == AccessInv /\ [AccessNext]_accessVars => AccessInv'
  <1> SUFFICES ASSUME AccessInv, [AccessNext]_accessVars PROVE AccessInv'
    OBVIOUS
  <1> USE AccessAssumption
  <1>0. AccessShape
    BY DEF AccessInv
  <1>1. ASSUME NEW f \in Forms, NEW u \in Accounts, NEW row \in Account, UsersCreate(f, u, row)
        PROVE  AccessInv'
    <2>1. /\ ~Known(u) /\ row.role \in RoleChoices /\ Closes(f, TRUE)
          /\ accounts' = [accounts EXCEPT ![u] = row]
          /\ chosen' = [chosen EXCEPT ![u] = row.role] /\ UNCHANGED <<roles, crossed>>
      BY <1>1 DEF UsersCreate
    <2>2. /\ accounts' \in [Accounts -> AccountRow] /\ chosen' \in [Accounts -> Roles \cup {NoRole}]
          /\ accounts'[u] = row /\ row # Missing
          /\ \A v \in Accounts : v # u => accounts'[v] = accounts[v]
      BY <1>0, <2>1, RowsDiffer DEF AccessShape, AccountRow, RoleChoices
    <2>3. \A v \in Accounts : Known(v)' /\ accounts'[v].role # NoRole => Exists(accounts[v].role)'
      BY <1>0, <2>1, <2>2 DEF AccessShape, Known, Exists, RoleChoices
    <2>4. AccessShape'
      BY <1>0, <2>1, <2>2, <2>3, FormsClosed DEF AccessShape
    <2>5. ASSUME Settled PROVE Settled'
      <3>1. PICK by \in Accounts : MayAdminister(by)
        BY <2>5 DEF Settled
      <3>2. MayAdminister(by)'
        BY <2>1, <2>2, <3>1 DEF MayAdminister, Known
      <3>3. \A v \in Accounts : Known(v)' => accounts'[v].role = chosen'[v]
        BY <1>0, <2>1, <2>2, <2>5 DEF AccessShape, Settled, Known
      <3> QED BY <2>1, <3>2, <3>3, OthersAreLate DEF Settled
    <2> QED BY <2>1, <2>4, <2>5 DEF AccessInv
  <1>2. ASSUME NEW f \in Forms, NEW r \in Roles, NEW pages \in SUBSET Tabs, RolesSave(f, r, pages)
        PROVE  AccessInv'
    <2>1. /\ roles' = [roles EXCEPT ![r] = [pages |-> pages]] /\ Closes(f, TRUE)
          /\ UNCHANGED <<accounts, chosen, crossed>>
      BY <1>2 DEF RolesSave
    <2>2. /\ roles' \in [Roles -> RoleRow]
          /\ \A x \in Roles : Exists(x) => Exists(x)'
      BY <1>0, <2>1, RowsDiffer DEF AccessShape, RoleRow, Exists
    <2>3. \A v \in Accounts : Known(v)' /\ accounts'[v].role # NoRole => Exists(accounts[v].role)'
      <3>1. \A v \in Accounts : Known(v) => accounts[v].role \in Roles \cup {NoRole}
        BY <1>0, RowsDiffer DEF AccessShape, Known, Account
      <3> QED BY <1>0, <2>1, <2>2, <3>1 DEF AccessShape, Known
    <2>4. AccessShape'
      BY <1>0, <2>1, <2>2, <2>3, FormsClosed DEF AccessShape
    <2>5. ASSUME Settled PROVE Settled'
      <3>1. /\ \E v \in Accounts : MayAdminister(v)'
            /\ \A v \in Accounts : Known(v)' => accounts'[v].role = chosen'[v]
        BY <2>1, <2>5 DEF Settled, MayAdminister, Known
      <3> QED BY <2>1, <3>1, OthersAreLate DEF Settled
    <2> QED BY <2>1, <2>4, <2>5 DEF AccessInv
  <1>3. ASSUME NEW f \in Forms, NEW by \in Accounts, NEW u \in Accounts, NEW want \in Account,
               UsersEdit(f, by, u, want)
        PROVE  AccessInv'
    <2> DEFINE row == IF u = by THEN [accounts[u] EXCEPT !.role = want.role] ELSE want
               new == [Blank EXCEPT !.what = "edit", !.target = u, !.saw = accounts[u], !.want = row]
    <2>1. /\ MayAdminister(by) /\ Known(u) /\ want.role \in RoleChoices
          /\ form' = [form EXCEPT ![f] = new]
          /\ UNCHANGED <<accounts, roles, chosen, crossed>>
      BY <1>3 DEF UsersEdit
    <2>2. accounts[u] \in Account
      BY <1>0, <2>1, RowsDiffer DEF AccessShape, Known
    <2>3. /\ row \in Account /\ row.role = want.role
          /\ u = by => row.admin = accounts[u].admin /\ row.active = accounts[u].active
      BY <2>2 DEF Account
    <2> HIDE DEF row
    <2>4. new.what = "edit" /\ new.target = u /\ new.saw = accounts[u] /\ new.want = row
      BY BlankForm DEF RequestForm
    <2>5. new \in RequestForm
      BY <2>2, <2>3, BlankForm DEF RequestForm, AccountRow
    <2>6. form'[f] = new
      BY <1>0, <2>1 DEF AccessShape
    <2> HIDE DEF new
    <2>7. Carries(f)'
      BY <2>2, <2>3, <2>4, <2>6 DEF Carries
    <2>8. OnTime(f)'
      BY <2>1, <2>3, <2>4, <2>6 DEF OnTime, MayAdminister, Known, RoleChoices, Exists
    <2> QED BY <2>1, <2>5, <2>7, <2>8, OneOpened
  <1>4. ASSUME NEW f \in Forms, NEW by \in Accounts, NEW u \in Accounts, UsersDelete(f, by, u)
        PROVE  AccessInv'
    <2> DEFINE new == [Blank EXCEPT !.what = "delete", !.target = u]
    <2>1. /\ MayAdminister(by) /\ u # by /\ form' = [form EXCEPT ![f] = new]
          /\ UNCHANGED <<accounts, roles, chosen, crossed>>
      BY <1>4 DEF UsersDelete
    <2>2. new.what = "delete" /\ new.target = u
      BY BlankForm DEF RequestForm
    <2>3. new \in RequestForm
      BY BlankForm DEF RequestForm
    <2>4. form'[f] = new
      BY <1>0, <2>1 DEF AccessShape
    <2> HIDE DEF new
    <2>5. Carries(f)' /\ OnTime(f)'
      BY <2>1, <2>2, <2>4 DEF Carries, OnTime, MayAdminister, Known
    <2> QED BY <2>1, <2>3, <2>5, OneOpened
  <1>5. ASSUME NEW f \in Forms, NEW r \in Roles, RolesDelete(f, r) PROVE AccessInv'
    <2> DEFINE new == [Blank EXCEPT !.what = "dropRole", !.role = r]
    <2>1. /\ \A u \in Accounts : Known(u) => accounts[u].role # r
          /\ form' = [form EXCEPT ![f] = new]
          /\ UNCHANGED <<accounts, roles, chosen, crossed>>
      BY <1>5 DEF RolesDelete
    <2>2. new.what = "dropRole" /\ new.role = r
      BY BlankForm DEF RequestForm
    <2>3. new \in RequestForm
      BY BlankForm DEF RequestForm
    <2>4. form'[f] = new
      BY <1>0, <2>1 DEF AccessShape
    <2> HIDE DEF new
    <2>5. Carries(f)' /\ OnTime(f)'
      BY <2>1, <2>2, <2>4 DEF Carries, OnTime, Known
    <2> QED BY <2>1, <2>3, <2>5, OneOpened
  <1>6. ASSUME NEW f \in Forms, UsersSave(f) PROVE AccessInv'
    <2> DEFINE u == form[f].target  saw == form[f].saw  want == form[f].want
    <2>0. u \in Accounts /\ saw \in Account /\ want \in Account /\ form[f].what = "edit"
      BY <1>0, <1>6 DEF AccessShape, Carries, UsersSave
    <2>1. CASE Closes(f, FALSE) /\ UNCHANGED <<accounts, roles, chosen, crossed>>
      BY <2>1, NothingTouched
    <2>2. CASE ~(Closes(f, FALSE) /\ UNCHANGED <<accounts, roles, chosen, crossed>>)
      <3> DEFINE role == IF want.role = saw.role THEN accounts[u].role ELSE want.role
                 admin == IF want.admin = saw.admin THEN accounts[u].admin ELSE want.admin
                 active == IF want.active = saw.active THEN accounts[u].active ELSE want.active
      <3>1. /\ Known(u) /\ ~(role \in Roles /\ ~Exists(role))
            /\ accounts' = [accounts EXCEPT ![u] = [admin |-> admin, active |-> active, role |-> role]]
            /\ chosen' = [chosen EXCEPT ![u] = want.role]
            /\ Closes(f, TRUE) /\ Changes(f) /\ roles' = roles
        BY <1>6, <2>2 DEF UsersSave
      <3>2. accounts[u] \in Account
        BY <1>0, <2>0, <3>1, RowsDiffer DEF AccessShape, Known
      <3>3. [admin |-> admin, active |-> active, role |-> role] \in Account
        BY <2>0, <3>2 DEF Account
      <3>4. /\ accounts' \in [Accounts -> AccountRow] /\ chosen' \in [Accounts -> Roles \cup {NoRole}]
            /\ accounts'[u] = [admin |-> admin, active |-> active, role |-> role]
            /\ \A v \in Accounts : v # u => accounts'[v] = accounts[v]
        BY <1>0, <2>0, <3>1, <3>3 DEF AccessShape, AccountRow, Account
      <3>5. role \in Roles \cup {NoRole}
        BY <2>0, <3>2 DEF Account
      <3> HIDE DEF role
      <3>6. \A v \in Accounts : Known(v)' /\ accounts'[v].role # NoRole => Exists(accounts[v].role)'
        BY <1>0, <3>1, <3>4, <3>5 DEF AccessShape, Known, Exists
      <3>7. crossed' \in BOOLEAN
        BY <1>0, <2>0, <3>1 DEF Changes, AccessShape, RequestForm
      <3>8. AccessShape'
        BY <1>0, <3>1, <3>4, <3>6, <3>7, FormsClosed DEF AccessShape
      <3>9. ASSUME Settled, ~form[f].stale PROVE Settled'
        <4>1. OnTime(f) /\ accounts[u] = saw
          BY <2>0, <3>9 DEF Settled, OnTime
        <4>2. role = want.role
          BY <4>1 DEF role
        <4>3. PICK by \in Accounts : /\ MayAdminister(by)
                                     /\ by = u => want.admin /\ want.active
          BY <2>0, <4>1 DEF OnTime
        <4>4. MayAdminister(by)'
          <5>1. CASE by # u
            BY <3>4, <4>3, <5>1 DEF MayAdminister, Known
          <5>2. CASE by = u
            <6>1. admin /\ active
              BY <4>1, <4>3, <5>2 DEF MayAdminister
            <6>2. accounts'[u] # Missing
              BY <3>3, <3>4, RowsDiffer
            <6> QED BY <3>4, <5>2, <6>1, <6>2 DEF MayAdminister, Known
          <5> QED BY <5>1, <5>2
        <4>5. \A v \in Accounts : Known(v)' => accounts'[v].role = chosen'[v]
          BY <1>0, <2>0, <3>1, <3>4, <3>9, <4>2 DEF AccessShape, Settled, Known
        <4> QED BY <3>1, <4>4, <4>5, OthersAreLate DEF Settled
      <3>10. form[f].stale => crossed'
        BY <3>1 DEF Changes
      <3> QED BY <3>1, <3>8, <3>9, <3>10 DEF AccessInv, Changes
    <2> QED BY <2>1, <2>2
  <1>7. ASSUME NEW f \in Forms, UsersDeleted(f) PROVE AccessInv'
    <2> DEFINE u == form[f].target
    <2>0. u \in Accounts /\ form[f].what = "delete"
      BY <1>0, <1>7 DEF AccessShape, Carries, UsersDeleted
    <2>1. CASE ~Known(u)
      BY <1>7, <2>1, NothingTouched DEF UsersDeleted
    <2>2. CASE Known(u)
      <3>1. /\ accounts' = [accounts EXCEPT ![u] = Missing] /\ chosen' = [chosen EXCEPT ![u] = NoRole]
            /\ Closes(f, TRUE) /\ Changes(f) /\ roles' = roles
        BY <1>7, <2>2 DEF UsersDeleted
      <3>2. /\ accounts' \in [Accounts -> AccountRow] /\ chosen' \in [Accounts -> Roles \cup {NoRole}]
            /\ accounts'[u] = Missing /\ \A v \in Accounts : v # u => accounts'[v] = accounts[v]
        <4>1. Missing \in AccountRow
          BY DEF AccountRow
        <4>2. accounts' \in [Accounts -> AccountRow] /\ chosen' \in [Accounts -> Roles \cup {NoRole}]
          BY <1>0, <3>1, <4>1 DEF AccessShape
        <4>3. accounts'[u] = Missing /\ \A v \in Accounts : v # u => accounts'[v] = accounts[v]
          BY <1>0, <2>0, <3>1 DEF AccessShape, Known
        <4> QED BY <4>2, <4>3
      <3>3. \A v \in Accounts : Known(v)' /\ accounts'[v].role # NoRole => Exists(accounts[v].role)'
        BY <1>0, <3>1, <3>2 DEF AccessShape, Known, Exists
      <3>4. crossed' \in BOOLEAN
        BY <1>0, <3>1 DEF Changes, AccessShape, RequestForm
      <3>5. AccessShape'
        BY <1>0, <3>1, <3>2, <3>3, <3>4, FormsClosed DEF AccessShape
      <3>6. ASSUME Settled, ~form[f].stale PROVE Settled'
        <4>1. PICK by \in Accounts : MayAdminister(by) /\ by # u
          BY <2>0, <3>6 DEF Settled, OnTime
        <4>2. MayAdminister(by)'
          BY <3>2, <4>1 DEF MayAdminister, Known
        <4>3. \A v \in Accounts : Known(v)' => accounts'[v].role = chosen'[v]
          BY <1>0, <3>1, <3>2, <3>6 DEF AccessShape, Settled, Known
        <4> QED BY <3>1, <4>2, <4>3, OthersAreLate DEF Settled
      <3>7. form[f].stale => crossed'
        BY <3>1 DEF Changes
      <3> QED BY <3>1, <3>5, <3>6, <3>7 DEF AccessInv, Changes
    <2> QED BY <2>1, <2>2
  <1>8. ASSUME NEW f \in Forms, RolesDeleted(f) PROVE AccessInv'
    <2> DEFINE r == form[f].role
    <2>0. r \in Roles /\ form[f].what = "dropRole"
      BY <1>0, <1>8 DEF AccessShape, Carries, RolesDeleted
    <2>1. CASE ~Exists(r)
      BY <1>8, <2>1, NothingTouched DEF RolesDeleted
    <2>2. CASE Exists(r)
      <3>1. /\ roles' = [roles EXCEPT ![r] = Missing]
            /\ accounts' = [u \in Accounts |->
                  IF Known(u) /\ accounts[u].role = r
                  THEN [accounts[u] EXCEPT !.role = NoRole] ELSE accounts[u]]
            /\ Closes(f, TRUE) /\ Changes(f) /\ chosen' = chosen
        BY <1>8, <2>2 DEF RolesDeleted
      <3>a. \A u \in Accounts : Known(u) =>
              /\ accounts[u] \in Account /\ [accounts[u] EXCEPT !.role = NoRole] \in Account
              /\ accounts[u].role \in Roles \cup {NoRole}
              /\ [accounts[u] EXCEPT !.role = NoRole].role = NoRole
        BY <1>0, RowsDiffer DEF AccessShape, Known, Account
      <3>2. /\ accounts' \in [Accounts -> AccountRow] /\ roles' \in [Roles -> RoleRow]
            /\ \A x \in Roles : x # r => (Exists(x) => Exists(x)')
        BY <1>0, <3>1, <3>a DEF AccessShape, AccountRow, RoleRow, Exists
      <3>3. \A v \in Accounts : Known(v)' /\ accounts'[v].role # NoRole => Exists(accounts[v].role)'
        BY <1>0, <3>1, <3>2, <3>a DEF AccessShape, Known
      <3>4. crossed' \in BOOLEAN
        BY <1>0, <3>1 DEF Changes, AccessShape, RequestForm
      <3>5. AccessShape'
        BY <1>0, <3>1, <3>2, <3>3, <3>4, FormsClosed DEF AccessShape
      <3>6. ASSUME Settled, ~form[f].stale PROVE Settled'
        <4>1. \A u \in Accounts : Known(u) => accounts[u].role # r
          BY <2>0, <3>6 DEF Settled, OnTime
        <4>2. accounts' = accounts
          BY <1>0, <3>1, <4>1 DEF AccessShape
        <4>3. /\ \E v \in Accounts : MayAdminister(v)'
              /\ \A v \in Accounts : Known(v)' => accounts'[v].role = chosen'[v]
          BY <3>1, <3>6, <4>2 DEF Settled, MayAdminister, Known
        <4> QED BY <3>1, <4>3, OthersAreLate DEF Settled
      <3>7. form[f].stale => crossed'
        BY <3>1 DEF Changes
      <3> QED BY <3>1, <3>5, <3>6, <3>7 DEF AccessInv, Changes
    <2> QED BY <2>1, <2>2
  <1>9. CASE UNCHANGED accessVars
    BY <1>9 DEF accessVars, AccessInv, AccessShape, Settled, OnTime, Carries, MayAdminister,
                Known, RoleChoices, Exists
  <1> QED BY <1>1, <1>2, <1>3, <1>4, <1>5, <1>6, <1>7, <1>8, <1>9 DEF AccessNext

(* Unless two administrators decided on the same moment's rows, somebody    *)
(* can always administer and a role shows its tabs and no others            *)
(* (app.py:2597, 2721-2722), for every set of accounts, roles and requests. *)
THEOREM AccessStays == AccessSpec => []AccessIsKept
  <1>1. AccessInv => AccessIsKept
    <2> SUFFICES ASSUME AccessShape, Settled PROVE AccessIsKept
      BY DEF AccessInv, AccessIsKept
    <2>1. \E u \in Accounts : MayAdminister(u)
      BY DEF Settled
    <2>2. ASSUME NEW u \in Accounts, Known(u), chosen[u] # NoRole
          PROVE  Exists(chosen[u]) /\ Allowed(u) = roles[chosen[u]].pages
      <3>1. accounts[u].role = chosen[u]
        BY <2>2 DEF Settled
      <3> QED BY <2>2, <3>1 DEF AccessShape, Allowed
    <2> QED BY <2>1, <2>2 DEF AccessIsKept
  <1> QED BY <1>1, AccessInvInit, AccessInvStep, PTL DEF AccessSpec

-----------------------------------------------------------------------------
(* The registry of organizations.                                           *)

(* A row has a name, and the BIN it has is that of every fact of this name. *)
SoundRow(x) ==
  /\ x.name # NoName
  /\ x.bin # NoBin => \A f \in Facts : f.bin # NoBin /\ f.name = x.name => f.bin = x.bin

(* What becomes of a row: its name stays, and so does a BIN it has.        *)
RowRefines(x, y) == y # NoRow => x.name = y.name /\ (y.bin # NoBin => x.bin = y.bin)

SessionRecord == [at : {"closed", "open", "look", "missing", "again", "found"}, fact : Facts \cup {NoRow},
        row : 0..MaxRows, saw : Bins \cup {NoBin}, writes : [RowIds -> Records],
        refs : SUBSET (Bins \X RowIds), facts : Nat]

(* The row a session has found is the one for its fact: found under its    *)
(* name and without BIN at that moment, or with the BIN of the fact.       *)
FoundFits(s) ==
  /\ txn[s].at \in {"look", "missing", "again", "found"} => txn[s].fact \in Facts
  /\ txn[s].at = "found" =>
       /\ txn[s].row \in RowIds
       /\ txn[s].fact.bin # NoBin =>
            \/ /\ txn[s].saw = NoBin /\ txn[s].fact.name # NoName
               /\ View(s)[txn[s].row].name = txn[s].fact.name
            \/ txn[s].saw = txn[s].fact.bin /\ View(s)[txn[s].row].bin = txn[s].fact.bin

WritesFit(s) ==
  \A r \in RowIds : Wrote(s, r) => SoundRow(txn[s].writes[r]) /\ RowRefines(txn[s].writes[r], orgs[r])

RefsFit(s) == \A p \in txn[s].refs : p[1] # NoBin /\ View(s)[p[2]].bin = p[1]

SessionFits(s) == txn[s] \in SessionRecord /\ FoundFits(s) /\ WritesFit(s) /\ RefsFit(s)

(* A row that one session has written waits for its commit.                *)
RowsAreLocked ==
  \A s, t \in Sessions : \A r \in RowIds : Wrote(s, r) /\ Wrote(t, r) => s = t

RegistryInv ==
  /\ orgs \in [RowIds -> Records] /\ refs \subseteq Bins \X RowIds /\ DOMAIN txn = Sessions
  /\ \A r \in RowIds : orgs[r] # NoRow => SoundRow(orgs[r])
  /\ \A p \in refs : p[1] # NoBin /\ orgs[p[2]].bin = p[1]
  /\ \A s \in Sessions : SessionFits(s)
  /\ RowsAreLocked

LEMMA ClosedFits == Closed \in SessionRecord
  BY RegistryAssumption DEF Closed, SessionRecord, Records, NoRow, RowIds

LEMMA RegistryInvInit == RegistryInit => RegistryInv
  <1> SUFFICES ASSUME RegistryInit PROVE RegistryInv
    OBVIOUS
  <1> USE RegistryAssumption DEF RegistryInit
  <1>1. orgs \in [RowIds -> Records] /\ refs = {} /\ DOMAIN txn = Sessions
    BY DEF Records, NoRow
  <1>2. \A s \in Sessions : \A r \in RowIds : ~Wrote(s, r)
    BY DEF Wrote, Closed
  <1>3. \A s \in Sessions : SessionFits(s)
    BY <1>2, ClosedFits DEF SessionFits, FoundFits, WritesFit, RefsFit, Closed
  <1> QED BY <1>1, <1>2, <1>3 DEF RegistryInv, RowsAreLocked

LEMMA ViewOf ==
  ASSUME RegistryInv, NEW s \in Sessions, NEW r \in RowIds
  PROVE  /\ View(s)[r] = IF Wrote(s, r) THEN txn[s].writes[r] ELSE orgs[r]
         /\ View(s)[r] \in Records
         /\ View(s)[r] # NoRow => SoundRow(View(s)[r])
         /\ RowRefines(View(s)[r], orgs[r])
         /\ View(s)[r].name # NoName => View(s)[r] # NoRow
         /\ View(s)[r].bin # NoBin => View(s)[r] # NoRow
  BY DEF RegistryInv, SessionFits, WritesFit, View, Wrote, SessionRecord, RowRefines, NoRow

(* A step inside the transaction of s concerns s alone.                    *)
LEMMA InsideTxn ==
  ASSUME RegistryInv, NEW s \in Sessions, UNCHANGED <<orgs, refs>>,
         DOMAIN txn' = Sessions, \A t \in Sessions \ {s} : txn'[t] = txn[t],
         SessionFits(s)',
         \A r \in RowIds : Wrote(s, r)' => Wrote(s, r) \/ \A t \in Sessions \ {s} : ~Wrote(t, r)
  PROVE  RegistryInv'
  <1>1. ASSUME NEW t \in Sessions \ {s} PROVE SessionFits(t)' /\ \A r \in RowIds : Wrote(t, r)' = Wrote(t, r)
    <2>1. SessionFits(t)
      BY DEF RegistryInv
    <2> QED BY <2>1, SMTT(20) DEF SessionFits, FoundFits, WritesFit, RefsFit, View, Wrote
  <1>2. RowsAreLocked'
    BY <1>1 DEF RegistryInv, RowsAreLocked
  <1>3. \A t \in Sessions : SessionFits(t)'
    BY <1>1
  <1> QED BY <1>2, <1>3 DEF RegistryInv

(* The same, when it writes nothing.                                       *)
LEMMA NothingWritten ==
  ASSUME RegistryInv, NEW s \in Sessions, UNCHANGED <<orgs, refs>>,
         DOMAIN txn' = Sessions, \A t \in Sessions \ {s} : txn'[t] = txn[t],
         txn'[s] \in SessionRecord, txn'[s].writes = txn[s].writes, txn'[s].refs = txn[s].refs,
         FoundFits(s)'
  PROVE  RegistryInv'
  <1>1. /\ \A r \in RowIds : Wrote(s, r)' = Wrote(s, r)
        /\ \A r \in RowIds : View(s)'[r] = View(s)[r]
    BY DEF Wrote, View
  <1>2. WritesFit(s)'
    BY <1>1 DEF RegistryInv, SessionFits, WritesFit
  <1>3. RefsFit(s)'
    <2>1. \A p \in txn[s].refs : p[2] \in RowIds
      BY DEF RegistryInv, SessionFits, SessionRecord
    <2> QED BY <1>1, <2>1 DEF RegistryInv, SessionFits, RefsFit
  <1> QED BY <1>1, <1>2, <1>3, InsideTxn DEF SessionFits

LEMMA FoundByName ==
  ASSUME RegistryInv, NEW s \in Sessions, NEW f \in Facts, NEW r \in Found(s, f), f.bin # NoBin
  PROVE  /\ r \in RowIds
         /\ \/ View(s)[r].bin = NoBin /\ f.name # NoName /\ View(s)[r].name = f.name
            \/ View(s)[r].bin = f.bin
  <1>1. r \in RowIds
    BY DEF Found, ByBin, ByName
  <1>2. CASE r \in ByBin(s, f)
    BY <1>1, <1>2 DEF ByBin
  <1>3. CASE r \in ByName(s, f)
    <2>1. f.name # NoName /\ View(s)[r].name = f.name
      BY <1>3 DEF ByName
    <2>2. View(s)[r].bin # NoBin => View(s)[r].bin = f.bin
      BY <1>1, <2>1, ViewOf DEF SoundRow
    <2> QED BY <1>1, <2>1, <2>2
  <1> QED BY <1>2, <1>3 DEF Found
LEMMA OpenTxnKeeps ==
  ASSUME RegistryInv, NEW s \in Sessions, OpenTxn(s) PROVE RegistryInv'
  <1>1. txn[s] \in SessionRecord
    BY DEF RegistryInv, SessionFits
  <1>2. /\ DOMAIN txn' = Sessions
        /\ txn'[s] = [txn[s] EXCEPT !.at = "open"]
        /\ \A t \in Sessions \ {s} : txn'[t] = txn[t]
    BY DEF OpenTxn, RegistryInv
  <1>3. txn'[s] \in SessionRecord /\ txn'[s].at = "open"
        /\ txn'[s].writes = txn[s].writes /\ txn'[s].refs = txn[s].refs
    BY <1>1, <1>2 DEF SessionRecord
  <1>4. FoundFits(s)'
    BY <1>3 DEF FoundFits
  <1> QED BY <1>2, <1>3, <1>4, NothingWritten DEF OpenTxn

LEMMA CallForKeeps ==
  ASSUME RegistryInv, NEW s \in Sessions, CallFor(s) PROVE RegistryInv'
  <1>1. txn[s] \in SessionRecord
    BY DEF RegistryInv, SessionFits
  <1>2. PICK f \in Facts :
          txn' = [txn EXCEPT ![s].at = "look", ![s].fact = f, ![s].facts = @ + 1]
    BY DEF CallFor
  <1> DEFINE a == [txn[s] EXCEPT !.at = "look"]
             b == [a EXCEPT !.fact = f]
             n == txn[s].facts + 1
  <1>3. /\ DOMAIN txn' = Sessions
        /\ txn'[s] = [b EXCEPT !.facts = n]
        /\ \A t \in Sessions \ {s} : txn'[t] = txn[t]
    BY <1>2 DEF RegistryInv
  <1>n. n \in Nat
    BY <1>1 DEF SessionRecord
  <1> HIDE DEF n
  <1>4. a \in SessionRecord /\ a.at = "look" /\ a.writes = txn[s].writes /\ a.refs = txn[s].refs
    BY <1>1 DEF SessionRecord
  <1>5. /\ b \in SessionRecord /\ b.at = "look" /\ b.fact = f
        /\ b.writes = txn[s].writes /\ b.refs = txn[s].refs
    BY <1>4 DEF SessionRecord
  <1>6. /\ txn'[s] \in SessionRecord /\ txn'[s].at = "look" /\ txn'[s].fact = f
        /\ txn'[s].writes = txn[s].writes /\ txn'[s].refs = txn[s].refs
    BY <1>n, <1>3, <1>5 DEF SessionRecord
  <1>7. FoundFits(s)'
    BY <1>6 DEF FoundFits
  <1> QED BY <1>3, <1>6, <1>7, NothingWritten DEF CallFor

LEMMA LookKeeps ==
  ASSUME RegistryInv, NEW s \in Sessions, Look(s) PROVE RegistryInv'
  <1>1. txn[s] \in SessionRecord /\ txn[s].fact \in Facts
    BY DEF RegistryInv, SessionFits, FoundFits, Look
  <1>2. CASE txn' = [txn EXCEPT ![s].at = "missing"]
    <2>1. /\ DOMAIN txn' = Sessions
          /\ txn'[s] = [txn[s] EXCEPT !.at = "missing"]
          /\ \A t \in Sessions \ {s} : txn'[t] = txn[t]
      BY <1>2 DEF RegistryInv
    <2>2. /\ txn'[s] \in SessionRecord /\ txn'[s].at = "missing" /\ txn'[s].fact = txn[s].fact
          /\ txn'[s].writes = txn[s].writes /\ txn'[s].refs = txn[s].refs
      BY <1>1, <2>1 DEF SessionRecord
    <2>3. FoundFits(s)'
      BY <1>1, <2>2 DEF FoundFits
    <2> QED BY <2>1, <2>2, <2>3, NothingWritten DEF Look
  <1>3. CASE \E r \in Found(s, txn[s].fact) :
               txn' = [txn EXCEPT ![s].at = "found", ![s].row = r, ![s].saw = View(s)[r].bin]
    <2>1. PICK r \in Found(s, txn[s].fact) :
            txn' = [txn EXCEPT ![s].at = "found", ![s].row = r, ![s].saw = View(s)[r].bin]
      BY <1>3
    <2>2. r \in RowIds
      BY DEF Found, ByBin, ByName
    <2> DEFINE v == View(s)[r].bin
               a == [txn[s] EXCEPT !.at = "found"]
               b == [a EXCEPT !.row = r]
    <2>3. v \in Bins \cup {NoBin} /\ r \in 0..MaxRows
      BY <2>2, ViewOf, RegistryAssumption DEF Records, RowIds
    <2>4. /\ DOMAIN txn' = Sessions
          /\ txn'[s] = [b EXCEPT !.saw = v]
          /\ \A t \in Sessions \ {s} : txn'[t] = txn[t]
      BY <2>1 DEF RegistryInv
    <2> HIDE DEF v
    <2>5. /\ a \in SessionRecord /\ a.at = "found" /\ a.fact = txn[s].fact
          /\ a.writes = txn[s].writes /\ a.refs = txn[s].refs
      BY <1>1 DEF SessionRecord
    <2>6. /\ b \in SessionRecord /\ b.at = "found" /\ b.fact = txn[s].fact /\ b.row = r
          /\ b.writes = txn[s].writes /\ b.refs = txn[s].refs
      BY <2>3, <2>5 DEF SessionRecord
    <2>7. /\ txn'[s] \in SessionRecord /\ txn'[s].at = "found" /\ txn'[s].fact = txn[s].fact
          /\ txn'[s].row = r /\ txn'[s].saw = v
          /\ txn'[s].writes = txn[s].writes /\ txn'[s].refs = txn[s].refs
      BY <2>3, <2>4, <2>6 DEF SessionRecord
    <2>8. View(s)'[r] = View(s)[r]
      BY <2>2, <2>7 DEF View, Wrote, Look
    <2>9. FoundFits(s)'
      <3> SUFFICES ASSUME txn[s].fact.bin # NoBin
                   PROVE  \/ v = NoBin /\ txn[s].fact.name # NoName
                             /\ View(s)[r].name = txn[s].fact.name
                          \/ v = txn[s].fact.bin /\ View(s)[r].bin = txn[s].fact.bin
        BY <1>1, <2>2, <2>7, <2>8 DEF FoundFits
      <3> QED BY <1>1, FoundByName DEF v
    <2> QED BY <2>4, <2>7, <2>9, NothingWritten DEF Look
  <1> QED BY <1>2, <1>3 DEF Look

LEMMA RollbackKeeps ==
  ASSUME RegistryInv, NEW s \in Sessions, Rollback(s), UNCHANGED <<orgs, refs>> PROVE RegistryInv'
  <1>1. /\ DOMAIN txn' = Sessions /\ txn'[s] = Closed
        /\ \A t \in Sessions \ {s} : txn'[t] = txn[t]
    BY DEF Rollback, RegistryInv
  <1>2. \A r \in RowIds : ~Wrote(s, r)'
    BY <1>1 DEF Wrote, Closed
  <1>3. SessionFits(s)'
    BY <1>1, <1>2, ClosedFits DEF SessionFits, FoundFits, WritesFit, RefsFit, Closed
  <1> QED BY <1>1, <1>2, <1>3, InsideTxn

(* The row InsertOrg adds: it has the BIN and the name of the fact.        *)
LEMMA NewRowIsSound ==
  ASSUME NamesAreUnique, NEW f \in Facts
  PROVE  /\ [bin |-> f.bin, name |-> RowName(f)] \in Records
         /\ SoundRow([bin |-> f.bin, name |-> RowName(f)])
  <1>1. RowName(f) # NoName /\ (f.bin # NoBin => \A g \in Facts :
           g.bin # NoBin /\ g.name = RowName(f) => g.bin = f.bin)
    BY RegistryAssumption DEF NamesAreUnique, RowName
  <1> QED BY <1>1 DEF Records, Bins, Names, RowName, SoundRow

LEMMA InsertOrgKeeps ==
  ASSUME NamesAreUnique, RegistryInv, NEW s \in Sessions, InsertOrg(s) PROVE RegistryInv'
  <1>1. txn[s] \in SessionRecord /\ txn[s].fact \in Facts
    BY DEF RegistryInv, SessionFits, FoundFits, InsertOrg
  <1> DEFINE f == txn[s].fact
             x == [bin |-> f.bin, name |-> RowName(f)]
  <1>2. x \in Records /\ SoundRow(x) /\ x.bin = f.bin
    BY <1>1, NewRowIsSound
  <1>3. CASE txn' = [txn EXCEPT ![s].at = "again"]
    <2>1. /\ DOMAIN txn' = Sessions
          /\ txn'[s] = [txn[s] EXCEPT !.at = "again"]
          /\ \A t \in Sessions \ {s} : txn'[t] = txn[t]
      BY <1>3 DEF RegistryInv
    <2>2. /\ txn'[s] \in SessionRecord /\ txn'[s].at = "again" /\ txn'[s].fact = txn[s].fact
          /\ txn'[s].writes = txn[s].writes /\ txn'[s].refs = txn[s].refs
      BY <1>1, <2>1 DEF SessionRecord
    <2>3. FoundFits(s)'
      BY <1>1, <2>2 DEF FoundFits
    <2> QED BY <2>1, <2>2, <2>3, NothingWritten DEF InsertOrg
  <1>4. CASE \E r \in RowIds : /\ ~InUse(r)
               /\ txn' = [txn EXCEPT ![s].at = "found", ![s].row = r, ![s].saw = x.bin,
                                     ![s].writes[r] = x]
    <2>1. PICK r \in RowIds : /\ ~InUse(r)
               /\ txn' = [txn EXCEPT ![s].at = "found", ![s].row = r, ![s].saw = x.bin,
                                     ![s].writes[r] = x]
      BY <1>4
    <2>2. orgs[r] = NoRow /\ \A t \in Sessions : ~Wrote(t, r)
      BY <2>1 DEF InUse
    <2> DEFINE v == x.bin
               w == [txn[s].writes EXCEPT ![r] = x]
               a == [txn[s] EXCEPT !.at = "found"]
               b == [a EXCEPT !.row = r]
               c == [b EXCEPT !.saw = v]
    <2> HIDE DEF x
    <2>3. /\ v \in Bins \cup {NoBin} /\ r \in 0..MaxRows
          /\ w \in [RowIds -> Records] /\ w[r] = x
          /\ \A q \in RowIds \ {r} : w[q] = txn[s].writes[q]
      BY <1>1, <1>2, RegistryAssumption DEF SessionRecord, Records, RowIds
    <2>5. /\ a \in SessionRecord /\ a.at = "found" /\ a.fact = f
          /\ a.writes = txn[s].writes /\ a.refs = txn[s].refs
      BY <1>1 DEF SessionRecord
    <2>6. /\ b \in SessionRecord /\ b.at = "found" /\ b.fact = f /\ b.row = r
          /\ b.writes = txn[s].writes /\ b.refs = txn[s].refs
      BY <2>3, <2>5 DEF SessionRecord
    <2>7. /\ c \in SessionRecord /\ c.at = "found" /\ c.fact = f /\ c.row = r /\ c.saw = v
          /\ c.writes = txn[s].writes /\ c.refs = txn[s].refs
      <3> HIDE DEF b, v
      <3> QED BY <2>3, <2>6 DEF SessionRecord
    <2>4. /\ DOMAIN txn' = Sessions
          /\ txn'[s] = [c EXCEPT !.writes = w]
          /\ \A t \in Sessions \ {s} : txn'[t] = txn[t]
      <3>1. txn'[s] = [c EXCEPT !.writes = [c.writes EXCEPT ![r] = x]]
        BY <2>1 DEF RegistryInv
      <3> HIDE DEF c
      <3> QED BY <2>1, <2>7, <3>1 DEF RegistryInv
    <2>8. /\ txn'[s] \in SessionRecord /\ txn'[s].at = "found" /\ txn'[s].fact = f
          /\ txn'[s].row = r /\ txn'[s].saw = v
          /\ txn'[s].writes = w /\ txn'[s].refs = txn[s].refs
      <3> HIDE DEF c, w, v
      <3> QED BY <2>3, <2>4, <2>7 DEF SessionRecord
    <2> HIDE DEF w, a, b, c
    <2>9. x.name # NoName /\ x # NoRow
      BY <1>2 DEF SoundRow, NoRow
    <2>10. /\ Wrote(s, r)' /\ View(s)'[r] = x /\ View(s)[r] = NoRow
           /\ \A q \in RowIds \ {r} : Wrote(s, q)' = Wrote(s, q) /\ View(s)'[q] = View(s)[q]
      BY <2>2, <2>3, <2>8, <2>9 DEF View, Wrote, InsertOrg
    <2>11. FoundFits(s)'
      BY <1>1, <1>2, <2>8, <2>10 DEF FoundFits
    <2>12. WritesFit(s)'
      <3>1. SoundRow(x) /\ RowRefines(x, orgs[r])
        BY <1>2, <2>2 DEF RowRefines
      <3> QED BY <3>1, <2>3, <2>8, <2>10 DEF RegistryInv, SessionFits, WritesFit, InsertOrg
    <2>13. RefsFit(s)'
      <3>1. \A p \in txn[s].refs : p[2] \in RowIds /\ p[1] # NoBin /\ View(s)[p[2]].bin = p[1]
        BY DEF RegistryInv, SessionFits, SessionRecord, RefsFit
      <3> QED BY <2>8, <2>10, <3>1 DEF RefsFit, NoRow
    <2>14. \A q \in RowIds : Wrote(s, q)' => Wrote(s, q) \/ \A t \in Sessions \ {s} : ~Wrote(t, q)
      BY <2>2, <2>10
    <2> QED BY <2>4, <2>8, <2>11, <2>12, <2>13, <2>14, InsideTxn DEF SessionFits, InsertOrg
  <1> QED BY <1>3, <1>4 DEF InsertOrg

(* Its session notes the attribution.                                      *)
LEMMA NotedFits ==
  ASSUME RegistryInv, NEW s \in Sessions, txn[s].at = "found"
  PROVE  /\ Attributed(s) \subseteq Bins \X RowIds
         /\ \A p \in Attributed(s) : p[1] = txn[s].fact.bin /\ p[1] # NoBin /\ p[2] = txn[s].row
  BY DEF RegistryInv, SessionFits, FoundFits, Attributed, Bins

LEMMA GiveOrgKeeps ==
  ASSUME NamesAreUnique, RegistryInv, NEW s \in Sessions, GiveOrg(s) PROVE RegistryInv'
  <1>1. txn[s] \in SessionRecord /\ txn[s].fact \in Facts /\ txn[s].row \in RowIds /\ txn[s].at = "found"
    BY DEF RegistryInv, SessionFits, FoundFits, GiveOrg
  <1> DEFINE f == txn[s].fact
             r == txn[s].row
             x == [View(s)[r] EXCEPT !.bin = f.bin]
             more == txn[s].refs \cup Attributed(s)
             a == [txn[s] EXCEPT !.at = "open"]
             done == [a EXCEPT !.refs = more]
  <1>2. more \in SUBSET (Bins \X RowIds)
    BY <1>1, NotedFits DEF SessionRecord
  <1>3. a \in SessionRecord /\ a.at = "open" /\ a.writes = txn[s].writes /\ a.refs = txn[s].refs
    BY <1>1 DEF SessionRecord
  <1>4. done \in SessionRecord /\ done.at = "open" /\ done.writes = txn[s].writes /\ done.refs = more
    <2> HIDE DEF a, more
    <2> QED BY <1>2, <1>3 DEF SessionRecord
  <1>5. [txn[s] EXCEPT !.at = "open", !.refs = @ \cup Attributed(s)] = done
    OBVIOUS
  <1> HIDE DEF a, done
  <1>6. CASE (f.bin = NoBin \/ txn[s].saw # NoBin) /\ txn' = [txn EXCEPT ![s] = done]
    <2>1. DOMAIN txn' = Sessions /\ txn'[s] = done /\ \A t \in Sessions \ {s} : txn'[t] = txn[t]
      BY <1>6 DEF RegistryInv
    <2>2. \A q \in RowIds : Wrote(s, q)' = Wrote(s, q) /\ View(s)'[q] = View(s)[q]
      BY <1>4, <2>1 DEF Wrote, View, GiveOrg
    <2>3. FoundFits(s)'
      BY <1>4, <2>1 DEF FoundFits
    <2>4. WritesFit(s)'
      BY <1>4, <2>1, <2>2 DEF RegistryInv, SessionFits, WritesFit, GiveOrg
    <2>5. \A p \in Attributed(s) : p[1] # NoBin /\ p[2] \in RowIds /\ View(s)[p[2]].bin = p[1]
      <3>1. f.bin # NoBin => View(s)[r].bin = f.bin
        BY <1>1, <1>6 DEF RegistryInv, SessionFits, FoundFits
      <3> QED BY <1>1, <3>1, NotedFits
    <2>6. \A p \in txn[s].refs : p[1] # NoBin /\ p[2] \in RowIds /\ View(s)[p[2]].bin = p[1]
      BY <1>1 DEF RegistryInv, SessionFits, SessionRecord, RefsFit
    <2>7. RefsFit(s)'
      BY <1>4, <2>1, <2>2, <2>5, <2>6 DEF RefsFit
    <2> QED BY <1>4, <2>1, <2>2, <2>3, <2>4, <2>7, InsideTxn DEF SessionFits, GiveOrg
  <1>7. CASE Rollback(s)
    BY <1>7, RollbackKeeps DEF GiveOrg
  <1>8. CASE /\ f.bin # NoBin /\ txn[s].saw = NoBin /\ ~Locked(s, r)
             /\ txn' = [txn EXCEPT ![s] = [done EXCEPT !.writes[r] = x]]
    <2> DEFINE w == [txn[s].writes EXCEPT ![r] = x]
               v == View(s)[r]
    <2>1. f.name # NoName /\ v.name = f.name
      BY <1>1, <1>8 DEF RegistryInv, SessionFits, FoundFits
    <2>2. v \in Records /\ v # NoRow /\ SoundRow(v) /\ RowRefines(v, orgs[r])
      BY <1>1, <2>1, ViewOf
    <2>3. x \in Records /\ x.bin = f.bin /\ x.name = f.name
      <3> HIDE DEF v
      <3>1. [v EXCEPT !.bin = f.bin] \in Records /\ [v EXCEPT !.bin = f.bin].bin = f.bin
            /\ [v EXCEPT !.bin = f.bin].name = v.name
        BY <1>1, <2>2 DEF Records, Bins
      <3> QED BY <2>1, <3>1 DEF v
    <2>4. v.bin # NoBin => v.bin = f.bin
      BY <1>1, <1>8, <2>1, <2>2 DEF SoundRow
    <2> HIDE DEF v
    <2>5. RowRefines(x, orgs[r])
      <3> HIDE DEF x
      <3> QED BY <2>1, <2>2, <2>3, <2>4 DEF RowRefines
    <2>6. SoundRow(x)
      <3> HIDE DEF x
      <3>1. \A g \in Facts : g.bin # NoBin /\ g.name = f.name => g.bin = f.bin
        BY <1>1, <1>8, <2>1 DEF NamesAreUnique, RowName
      <3> QED BY <2>1, <2>3, <3>1 DEF SoundRow
    <2>7. x # NoRow
      BY <2>3, <1>8 DEF NoRow
    <2> HIDE DEF x
    <2>8. /\ w \in [RowIds -> Records] /\ w[r] = x
          /\ \A q \in RowIds \ {r} : w[q] = txn[s].writes[q]
      BY <1>1, <2>3 DEF SessionRecord
    <2>9. /\ DOMAIN txn' = Sessions
          /\ txn'[s] = [done EXCEPT !.writes = w]
          /\ \A t \in Sessions \ {s} : txn'[t] = txn[t]
      BY <1>4, <1>8 DEF RegistryInv
    <2>10. txn'[s] \in SessionRecord /\ txn'[s].at = "open" /\ txn'[s].writes = w /\ txn'[s].refs = more
      <3> HIDE DEF w, more
      <3> QED BY <1>4, <2>8, <2>9 DEF SessionRecord
    <2> HIDE DEF w
    <2>11. \A q \in RowIds : IF q = r THEN Wrote(s, q)' /\ View(s)'[q] = x
                             ELSE Wrote(s, q)' = Wrote(s, q) /\ View(s)'[q] = View(s)[q]
      BY <1>1, <2>7, <2>8, <2>10 DEF View, Wrote, GiveOrg
    <2>12. FoundFits(s)'
      BY <2>10 DEF FoundFits
    <2>13. WritesFit(s)'
      BY <2>5, <2>6, <2>8, <2>10, <2>11 DEF RegistryInv, SessionFits, WritesFit, GiveOrg
    <2>14. \A p \in txn[s].refs : p[1] # NoBin /\ p[2] \in RowIds /\ View(s)[p[2]].bin = p[1]
      BY <1>1 DEF RegistryInv, SessionFits, SessionRecord, RefsFit
    <2>15. RefsFit(s)'
      <3>1. ASSUME NEW p \in more PROVE p[1] # NoBin /\ View(s)'[p[2]].bin = p[1]
        <4>1. CASE p \in Attributed(s)
          BY <1>1, <2>3, <2>11, <4>1, NotedFits
        <4>2. CASE p \in txn[s].refs
          BY <2>3, <2>4, <2>11, <2>14, <4>2 DEF v
        <4> QED BY <4>1, <4>2
      <3> QED BY <2>10, <3>1 DEF RefsFit
    <2>16. \A q \in RowIds : Wrote(s, q)' => Wrote(s, q) \/ \A t \in Sessions \ {s} : ~Wrote(t, q)
      BY <1>8, <2>11 DEF Locked
    <2> QED BY <2>9, <2>10, <2>12, <2>13, <2>15, <2>16, InsideTxn DEF SessionFits, GiveOrg
  <1> QED
    BY <1>5, <1>6, <1>7, <1>8 DEF GiveOrg

(* The rows of s become the committed ones, and refine what was committed. *)
LEMMA CommitTxnKeeps ==
  ASSUME RegistryInv, NEW s \in Sessions, CommitTxn(s) PROVE RegistryInv'
  <1>1. /\ DOMAIN txn' = Sessions /\ txn'[s] = Closed
        /\ \A t \in Sessions \ {s} : txn'[t] = txn[t]
        /\ orgs' = View(s) /\ refs' = refs \cup txn[s].refs
    BY DEF CommitTxn, RegistryInv
  <1>2. \A r \in RowIds : ~Wrote(s, r)'
    BY <1>1 DEF Wrote, Closed
  <1>3. orgs' \in [RowIds -> Records] /\ \A r \in RowIds : orgs'[r] # NoRow => SoundRow(orgs'[r])
    <2>1. \A r \in RowIds : View(s)[r] \in Records /\ (View(s)[r] # NoRow => SoundRow(View(s)[r]))
      BY ViewOf
    <2> QED BY <1>1, <2>1 DEF View
  <1>4. refs' \subseteq Bins \X RowIds /\ \A p \in refs' : p[1] # NoBin /\ orgs'[p[2]].bin = p[1]
    <2>1. ASSUME NEW p \in refs PROVE p[1] # NoBin /\ orgs'[p[2]].bin = p[1]
      <3>1. p[2] \in RowIds /\ p[1] # NoBin /\ orgs[p[2]].bin = p[1]
        BY DEF RegistryInv
      <3>2. RowRefines(View(s)[p[2]], orgs[p[2]])
        BY <3>1, ViewOf
      <3> QED BY <1>1, <3>1, <3>2 DEF RowRefines, NoRow
    <2>2. txn[s].refs \subseteq Bins \X RowIds
          /\ \A p \in txn[s].refs : p[1] # NoBin /\ orgs'[p[2]].bin = p[1]
      BY <1>1 DEF RegistryInv, SessionFits, SessionRecord, RefsFit
    <2> QED BY <1>1, <2>1, <2>2 DEF RegistryInv
  <1>5. SessionFits(s)'
    BY <1>1, <1>2, ClosedFits DEF SessionFits, FoundFits, WritesFit, RefsFit, Closed
  <1>6. ASSUME NEW t \in Sessions \ {s}
        PROVE  SessionFits(t)' /\ \A r \in RowIds : Wrote(t, r)' = Wrote(t, r)
    <2>1. SessionFits(t) /\ txn'[t] = txn[t] /\ txn[t] \in SessionRecord
      BY <1>1 DEF RegistryInv, SessionFits
    <2>2. \A r \in RowIds : Wrote(t, r)' = Wrote(t, r)
      BY <2>1 DEF Wrote
    <2>3. \A r \in RowIds : Wrote(t, r) => orgs'[r] = orgs[r]
      BY <1>1 DEF RegistryInv, RowsAreLocked, View
    <2>4. \A r \in RowIds : RowRefines(orgs'[r], orgs[r])
      BY <1>1, ViewOf
    <2>5. \A r \in RowIds : View(t)'[r] = IF Wrote(t, r) THEN View(t)[r] ELSE orgs'[r]
      BY <2>1, <2>2 DEF View
    <2>6. \A r \in RowIds : RowRefines(View(t)'[r], View(t)[r])
      BY <2>4, <2>5 DEF View, RowRefines
    <2>7. FoundFits(t)'
      <3>1. \A r \in RowIds : View(t)[r].name # NoName => View(t)[r] # NoRow
        BY ViewOf
      <3>2. \A r \in RowIds : View(t)[r].bin # NoBin => View(t)[r] # NoRow
        BY ViewOf
      <3>3. txn[t].at = "found" => txn[t].row \in RowIds /\ txn[t].fact \in Facts
        BY <2>1 DEF SessionFits, FoundFits
      <3>4. \A r \in RowIds : View(t)[r].name # NoName => View(t)'[r].name = View(t)[r].name
        BY <2>6, <3>1 DEF RowRefines
      <3>5. \A r \in RowIds : View(t)[r].bin # NoBin => View(t)'[r].bin = View(t)[r].bin
        BY <2>6, <3>2 DEF RowRefines
      <3> QED BY <2>1, <3>3, <3>4, <3>5 DEF SessionFits, FoundFits
    <2>8. WritesFit(t)'
      BY <2>1, <2>2, <2>3 DEF SessionFits, WritesFit
    <2>9. RefsFit(t)'
      <3> SUFFICES ASSUME NEW p \in txn[t].refs PROVE p[1] # NoBin /\ View(t)'[p[2]].bin = p[1]
        BY <2>1 DEF RefsFit
      <3>1. p[2] \in RowIds /\ p[1] # NoBin /\ View(t)[p[2]].bin = p[1]
        BY <2>1 DEF SessionFits, RefsFit, SessionRecord
      <3>2. View(t)[p[2]] # NoRow
        BY <3>1 DEF NoRow
      <3> QED BY <2>6, <3>1, <3>2 DEF RowRefines
    <2> QED BY <2>1, <2>2, <2>7, <2>8, <2>9 DEF SessionFits
  <1>7. RowsAreLocked'
    BY <1>2, <1>6 DEF RegistryInv, RowsAreLocked
  <1>8. \A t \in Sessions : SessionFits(t)'
    BY <1>5, <1>6
  <1> QED BY <1>1, <1>3, <1>4, <1>7, <1>8 DEF RegistryInv

LEMMA RegistryInvStep ==
  ASSUME NamesAreUnique, RegistryInv, [RegistryNext]_registryVars PROVE RegistryInv'
  <1>1. ASSUME NEW s \in Sessions, AbortTxn(s) PROVE RegistryInv'
    BY <1>1, RollbackKeeps DEF AbortTxn
  <1>2. CASE UNCHANGED registryVars
    BY <1>2, SMTT(20) DEF registryVars, RegistryInv, SessionFits, FoundFits, WritesFit, RefsFit, RowsAreLocked,
                View, Wrote
  <1> QED BY <1>1, <1>2, OpenTxnKeeps, CallForKeeps, LookKeeps, InsertOrgKeeps, GiveOrgKeeps,
             CommitTxnKeeps DEF RegistryNext

(* What was attributed by BIN points to the row of that BIN                 *)
(* (run_preset.py:57-75), whatever the transactions of the jobs interleave  *)
(* and roll back, for any number of sessions, as long as no two BINs share  *)
(* a name: the name a row gets, which may be the BIN itself.                *)
THEOREM AttributionStaysRight == RegistrySpec => []AttributionIsRight
  <1>1. RegistryInv => AttributionIsRight
    BY DEF RegistryInv, AttributionIsRight
  <1>2. CASE NamesAreUnique
    BY <1>1, <1>2, RegistryInvInit, RegistryInvStep, PTL DEF RegistrySpec
  <1>3. CASE ~NamesAreUnique
    <2>1. AttributionIsRight
      BY <1>3 DEF AttributionIsRight
    <2> QED BY <2>1, PTL
  <1> QED BY <1>2, <1>3
=============================================================================

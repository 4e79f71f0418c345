-------------------------------- MODULE Bids --------------------------------
(***************************************************************************)
(* jobs/bids.py: the daily poll of the applications of announcements whose *)
(* deadline has passed, until each of our lots has a winner.  The listing  *)
(* adds lots and the contracts fill winners meanwhile.  A tick is a day.   *)
(***************************************************************************)
EXTENDS Integers, FiniteSets, Sequences, SequencesExt

CONSTANTS
    BidAnnos,     \* announcements
    BidLots,      \* lots, ours or not
    AnnoOfLot,    \* lot -> its announcement
    Suppliers,
    Deadline,     \* announcement -> the day applications end
    Grace,        \* GRACE_HOURS
    Recheck,      \* RECHECK_HOURS
    BidHorizon,   \* RETRY_HORIZON_DAYS
    PollLimit,    \* announcements of one run
    LastDay,      \* bound: days of the model
    MaxPollErrors,\* bound: OwsApiErrors and broken runs
    NoOne

ASSUME BidsAssumption ==
    /\ AnnoOfLot \in [BidLots -> BidAnnos] /\ Deadline \in [BidAnnos -> Nat]
    /\ {Grace, Recheck, BidHorizon, PollLimit, LastDay} \subseteq Nat
    /\ NoOne \notin Suppliers /\ IsFiniteSet(BidAnnos)

VARIABLES
    day, polledToday,
    portalBids,   \* lot -> suppliers that applied
    award,        \* lot -> the supplier in status "Победитель", and since when
    ours,         \* lots in our table, with the day they came
    bidRow,       \* lot -> supplier -> status of its LotBid row
    bidsCount,    \* lots.bids_count, -1: NULL
    winner,       \* lots.winner_bin
    syncedAt,     \* bids_synced_at, -1: NULL
    poll,         \* the run: announcements left and the transaction under way
    pollErrors,
    raced         \* history: lots that came in the middle of a transaction

bidsVars == <<day, polledToday, portalBids, award, ours, bidRow, bidsCount,
              winner, syncedAt, poll, pollErrors, raced>>

LotsOfAnno(a) == {l \in BidLots : AnnoOfLot[l] = a}
Present(l) == ours[l] >= 0
NoRows == [l \in BidLots |-> [s \in Suppliers |-> "none"]]
Resting == [at |-> "idle", left |-> <<>>, apps |-> NoRows, mine |-> {}, open |-> {}]

BidsTypeOK ==
    /\ day \in 0..LastDay /\ polledToday \in BOOLEAN
    /\ portalBids \in [BidLots -> SUBSET Suppliers]
    /\ award \in [BidLots -> [who : Suppliers \cup {NoOne}, since : 0..LastDay]]
    /\ ours \in [BidLots -> -1..LastDay]
    /\ bidRow \in [BidLots -> [Suppliers -> {"none", "applied", "won"}]]
    /\ bidsCount \in [BidLots -> -1..Cardinality(Suppliers)]
    /\ winner \in [BidLots -> Suppliers \cup {NoOne}]
    /\ syncedAt \in [BidAnnos -> -1..LastDay]
    /\ poll.at \in {"idle", "next", "answered", "matched"}
    /\ pollErrors \in 0..MaxPollErrors /\ raced \subseteq BidLots

BidsInit ==
    /\ day = 0 /\ polledToday = FALSE
    /\ portalBids = [l \in BidLots |-> {}]
    /\ award = [l \in BidLots |-> [who |-> NoOne, since |-> 0]]
    /\ ours \in [BidLots -> {-1, 0}]
    /\ bidRow = NoRows
    /\ bidsCount = [l \in BidLots |-> -1]
    /\ winner = [l \in BidLots |-> NoOne]
    /\ syncedAt = [a \in BidAnnos |-> -1]
    /\ poll = Resting /\ pollErrors = 0 /\ raced = {}

(***************************************************************************)
(* The portal.                                                             *)
(***************************************************************************)
Apply(l, s) ==
    /\ day < Deadline[AnnoOfLot[l]] /\ s \notin portalBids[l]
    /\ portalBids' = [portalBids EXCEPT ![l] = @ \cup {s}]
    /\ UNCHANGED <<day, polledToday, award, ours, bidRow, bidsCount, winner,
                   syncedAt, poll, pollErrors, raced>>

Award(l, s) ==
    /\ day > Deadline[AnnoOfLot[l]] /\ s \in portalBids[l] /\ award[l].who = NoOne
    /\ award' = [award EXCEPT ![l] = [who |-> s, since |-> day]]
    /\ UNCHANGED <<day, polledToday, portalBids, ours, bidRow, bidsCount, winner,
                   syncedAt, poll, pollErrors, raced>>

(***************************************************************************)
(* announcements_to_sync.                                                  *)
(***************************************************************************)
Won(l) == \E s \in Suppliers : bidRow[l][s] = "won"

Due(a) ==
    /\ Deadline[a] < day - Grace /\ Deadline[a] > day - BidHorizon
    /\ syncedAt[a] = -1 \/ syncedAt[a] < day - Recheck
    /\ \E l \in LotsOfAnno(a) : Present(l) /\ ~Won(l)

\* Mutant: what was polled last comes first.
LatestFirst(a, b) ==
    \/ syncedAt[a] > syncedAt[b]
    \/ syncedAt[a] = syncedAt[b] /\ Deadline[a] >= Deadline[b]

(* Never polled first (NULL is -1), then the one polled longest ago; the   *)
(* latest deadline among equals.                                           *)
Before(a, b) ==
    \/ syncedAt[a] < syncedAt[b]
    \/ syncedAt[a] = syncedAt[b] /\ Deadline[a] >= Deadline[b]

Queues == {q \in SetToSeqs({a \in BidAnnos : Due(a)}) :
              \A i, j \in DOMAIN q : i < j => Before(q[i], q[j])}

StartPoll ==
    /\ poll.at = "idle" /\ ~polledToday
    /\ \E q \in Queues :
        poll' = [Resting EXCEPT !.at = "next",
                    !.left = SubSeq(q, 1, IF Len(q) < PollLimit THEN Len(q) ELSE PollLimit)]
    /\ UNCHANGED <<day, polledToday, portalBids, award, ours, bidRow, bidsCount,
                   winner, syncedAt, pollErrors, raced>>

(* iter_graphql of BIDS_QUERY: the applications of the whole announcement, *)
(* with their statuses.                                                    *)
Answer ==
    /\ poll.at = "next" /\ poll.left # <<>>
    /\ poll' = [poll EXCEPT !.at = "answered",
                   !.apps = [l \in BidLots |-> [s \in Suppliers |->
                       IF AnnoOfLot[l] # Head(poll.left) \/ s \notin portalBids[l]
                       THEN "none" ELSE IF award[l].who = s THEN "won" ELSE "applied"]]]
    /\ UNCHANGED <<day, polledToday, portalBids, award, ours, bidRow, bidsCount,
                   winner, syncedAt, pollErrors, raced>>

(* The lots of the applications that are ours, and those without winner.   *)
SelectOurs ==
    /\ poll.at = "answered"
    /\ LET mine == {l \in BidLots : Present(l) /\ poll.apps[l] # NoRows[l]}
       IN  poll' = [poll EXCEPT !.at = "matched", !.mine = mine,
                                !.open = {l \in mine : winner[l] = NoOne}]
    /\ UNCHANGED <<day, polledToday, portalBids, award, ours, bidRow, bidsCount,
                   winner, syncedAt, pollErrors, raced>>

(* upsert_bid of every application of the lots that were ours. *)
Rows == [l \in BidLots |-> [s \in Suppliers |->
            IF l \in poll.mine /\ poll.apps[l][s] # "none" THEN poll.apps[l][s]
            ELSE bidRow[l][s]]]

\* Mutant: the rows are counted before the new ones are flushed.
CountsBeforeFlush(a) ==
    [l \in BidLots |-> IF l \in LotsOfAnno(a) /\ Present(l)
                       THEN Cardinality({s \in Suppliers : bidRow[l][s] # "none"})
                       ELSE bidsCount[l]]

(* recount_bids: every lot of the announcement that is ours by now.        *)
Counts(a) ==
    [l \in BidLots |-> IF l \in LotsOfAnno(a) /\ Present(l)
                       THEN Cardinality({s \in Suppliers : Rows[l][s] # "none"})
                       ELSE bidsCount[l]]

(* The transaction of sync_announcement_bids: rows, winners of the lots    *)
(* read without one, counts and the mark are committed together.           *)
CommitPoll ==
    /\ poll.at = "matched"
    /\ bidRow' = Rows
    /\ bidsCount' = Counts(Head(poll.left))
    /\ syncedAt' = [syncedAt EXCEPT ![Head(poll.left)] = day]
    /\ winner' = [l \in BidLots |->
                    IF l \in poll.open /\ \E s \in Suppliers : poll.apps[l][s] = "won"
                    THEN CHOOSE s \in Suppliers : poll.apps[l][s] = "won" ELSE winner[l]]
    /\ poll' = [Resting EXCEPT !.at = "next", !.left = Tail(poll.left)]
    /\ UNCHANGED <<day, polledToday, portalBids, award, ours, pollErrors, raced>>

(* OwsApiError: rollback and the next announcement; no mark is set. *)
PollFails ==
    /\ poll.at = "next" /\ poll.left # <<>> /\ pollErrors < MaxPollErrors
    /\ pollErrors' = pollErrors + 1
    /\ poll' = [Resting EXCEPT !.at = "next", !.left = Tail(poll.left)]
    /\ UNCHANGED <<day, polledToday, portalBids, award, ours, bidRow, bidsCount,
                   winner, syncedAt, raced>>

(* A time limit or a death: the transaction is lost, the rest is not asked. *)
PollBroken ==
    /\ poll.at = "matched" /\ pollErrors < MaxPollErrors
    /\ pollErrors' = pollErrors + 1
    /\ poll' = Resting /\ polledToday' = TRUE
    /\ UNCHANGED <<day, portalBids, award, ours, bidRow, bidsCount, winner,
                   syncedAt, raced>>

EndPoll ==
    /\ poll.at = "next" /\ poll.left = <<>>
    /\ poll' = Resting /\ polledToday' = TRUE
    /\ UNCHANGED <<day, portalBids, award, ours, bidRow, bidsCount, winner,
                   syncedAt, pollErrors, raced>>

(***************************************************************************)
(* The other writers: the listing, the details and the contracts.          *)
(***************************************************************************)
ListLot(l) ==
    /\ ~Present(l)
    /\ ours' = [ours EXCEPT ![l] = day]
    /\ raced' = IF poll.at = "matched" THEN raced \cup {l} ELSE raced
    /\ UNCHANGED <<day, polledToday, portalBids, award, bidRow, bidsCount, winner,
                   syncedAt, poll, pollErrors>>

(* apply_winner_from_contract, _apply_details: the winner of the portal.   *)
FillWinner(l) ==
    /\ Present(l) /\ award[l].who # NoOne /\ winner[l] = NoOne
    /\ winner' = [winner EXCEPT ![l] = award[l].who]
    /\ UNCHANGED <<day, polledToday, portalBids, award, ours, bidRow, bidsCount,
                   syncedAt, poll, pollErrors, raced>>

NextDay ==
    /\ day < LastDay /\ polledToday
    /\ day' = day + 1 /\ polledToday' = FALSE
    /\ UNCHANGED <<portalBids, award, ours, bidRow, bidsCount, winner, syncedAt,
                   poll, pollErrors, raced>>

BidsNext ==
    \/ StartPoll \/ Answer \/ SelectOurs \/ CommitPoll \/ PollFails \/ PollBroken
    \/ EndPoll \/ NextDay
    \/ \E l \in BidLots : ListLot(l) \/ FillWinner(l)
    \/ \E l \in BidLots, s \in Suppliers : Apply(l, s) \/ Award(l, s)

BidsSpec == BidsInit /\ [][BidsNext]_bidsVars

(* The count of a polled lot is the number of its bids: zero means that    *)
(* nobody applied (bids.py:157-160), unless the lot came into the table    *)
(* between the selection of our lots and the recount.                      *)
CountIsTrue ==
    \A l \in BidLots \ raced :
        bidsCount[l] >= 0 => bidsCount[l] = Cardinality(portalBids[l])

(* The selection moves on (bids.py:66-74): with a run a day and no errors, *)
(* the award of a lot that was ours reaches the table within the recheck   *)
(* pause and the days the queue needs, until the horizon.                  *)
QueueDays == (Cardinality(BidAnnos) + PollLimit - 1) \div PollLimit

AwardIsSeen ==
    \A l \in BidLots :
        LET a == AnnoOfLot[l]
            known == IF ours[l] > award[l].since THEN ours[l] ELSE award[l].since
            start == IF known > Deadline[a] + Grace THEN known ELSE Deadline[a] + Grace
        IN  (/\ Present(l) /\ award[l].who # NoOne /\ pollErrors = 0
             /\ day > start + Recheck + QueueDays /\ day < Deadline[a] + BidHorizon)
                => Won(l)
=============================================================================

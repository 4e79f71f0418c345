------------------------------- MODULE Crawl -------------------------------
(***************************************************************************)
(* Requests to a source under the distributed slot of                      *)
(* queue/rate_limit.py: a Redis key with a time to live lets one client    *)
(* through, and the request loop of api/client.py retries what the source  *)
(* could not serve.  Time is counted in ticks.                             *)
(***************************************************************************)
EXTENDS Naturals, FiniteSets

CONSTANTS
    Clients,      \* worker processes and threads that share the key
    Delay,        \* pause the source asks for between two requests
    Timeout,      \* timeout given to requests.get
    Spare,        \* the "+ 5" of the hold
    MaxStay,      \* bound: longest stay of a request in flight; a socket
                  \* timeout limits one read, not the request
    Attempts,     \* len(_RETRY_DELAYS) + 1
    MaxRequests   \* bound: requests of one client

ASSUME CrawlAssumption ==
    /\ {Delay, Timeout, Spare, MaxStay, MaxRequests} \subseteq Nat
    /\ Attempts \in Nat \ {0} /\ Delay > 0

VARIABLES
    slotTtl,      \* ticks until the key expires, 0: no key
    phase,        \* where the client stands in _request
    stay,         \* ticks its request has been in flight
    attempt,      \* attempts made for the current request
    asked,        \* requests begun
    rest,         \* ticks since a request last ended or was broken off
    prompt        \* history: no request has outstayed its timeout and spare

crawlVars == <<slotTtl, phase, stay, attempt, asked, rest, prompt>>

(* hold = int(delay + req_s + 5): the key outlives the request *)
Hold == Delay + Timeout + Spare

CrawlTypeOK ==
    /\ slotTtl \in 0..Hold
    /\ phase \in [Clients -> {"idle", "waiting", "flight", "backoff"}]
    /\ stay \in [Clients -> 0..MaxStay]
    /\ attempt \in [Clients -> 0..Attempts]
    /\ asked \in [Clients -> 0..MaxRequests]
    /\ rest \in 0..Delay /\ prompt \in BOOLEAN

CrawlInit ==
    /\ slotTtl = 0
    /\ phase = [c \in Clients |-> "idle"]
    /\ stay = [c \in Clients |-> 0]
    /\ attempt = [c \in Clients |-> 0]
    /\ asked = [c \in Clients |-> 0]
    /\ rest = Delay /\ prompt = TRUE

(* A client enters _request (or RedisThrottledSession.get). *)
AskPage(c) ==
    /\ phase[c] = "idle" /\ asked[c] < MaxRequests
    /\ phase' = [phase EXCEPT ![c] = "waiting"]
    /\ attempt' = [attempt EXCEPT ![c] = 0]
    /\ asked' = [asked EXCEPT ![c] = @ + 1]
    /\ UNCHANGED <<slotTtl, stay, rest, prompt>>

\* Mutant: the key lives for the delay only.
AcquireBriefly(c) ==
    /\ phase[c] = "waiting" /\ slotTtl = 0
    /\ slotTtl' = Delay
    /\ phase' = [phase EXCEPT ![c] = "flight"]
    /\ stay' = [stay EXCEPT ![c] = 0]
    /\ attempt' = [attempt EXCEPT ![c] = @ + 1]
    /\ UNCHANGED <<asked, rest, prompt>>

(* acquire: SET NX PX; a client that finds the key sleeps and asks again. *)
Acquire(c) ==
    /\ phase[c] = "waiting" /\ slotTtl = 0
    /\ slotTtl' = Hold
    /\ phase' = [phase EXCEPT ![c] = "flight"]
    /\ stay' = [stay EXCEPT ![c] = 0]
    /\ attempt' = [attempt EXCEPT ![c] = @ + 1]
    /\ UNCHANGED <<asked, rest, prompt>>

(* The finally of the request: release sets the key for Delay more ticks,  *)
(* whoever owns it by now; an error of Redis is swallowed.                 *)
Released == slotTtl' \in {Delay, slotTtl}

(* An answer the loop returns, or an error that is not transient. *)
Answered(c) ==
    /\ phase[c] = "flight" /\ Released /\ rest' = 0
    /\ phase' = [phase EXCEPT ![c] = "idle"]
    /\ stay' = [stay EXCEPT ![c] = 0]
    /\ UNCHANGED <<attempt, asked, prompt>>

(* _should_retry, or a RequestException: back off, or give up with         *)
(* OwsApiError after the last attempt.                                     *)
Refused(c) ==
    /\ phase[c] = "flight" /\ Released /\ rest' = 0
    /\ phase' = [phase EXCEPT ![c] =
                    IF attempt[c] < Attempts THEN "backoff" ELSE "idle"]
    /\ stay' = [stay EXCEPT ![c] = 0]
    /\ UNCHANGED <<attempt, asked, prompt>>

TryAgain(c) ==
    /\ phase[c] = "backoff"
    /\ phase' = [phase EXCEPT ![c] = "waiting"]
    /\ UNCHANGED <<slotTtl, stay, attempt, asked, rest, prompt>>

(* The process is killed in flight: nothing is released. *)
Killed(c) ==
    /\ phase[c] = "flight" /\ rest' = 0
    /\ phase' = [phase EXCEPT ![c] = "idle"]
    /\ stay' = [stay EXCEPT ![c] = 0]
    /\ UNCHANGED <<slotTtl, attempt, asked, prompt>>

(* Time passes for the key and for the requests in flight. *)
CrawlTick ==
    /\ \A c \in Clients : phase[c] = "flight" => stay[c] < MaxStay
    /\ slotTtl' = IF slotTtl = 0 THEN 0 ELSE slotTtl - 1
    /\ stay' = [c \in Clients |-> IF phase[c] = "flight" THEN stay[c] + 1 ELSE 0]
    /\ rest' = IF rest < Delay THEN rest + 1 ELSE rest
    /\ prompt' = (prompt /\ \A c \in Clients : stay'[c] <= Timeout + Spare)
    /\ UNCHANGED <<phase, attempt, asked>>

CrawlNext ==
    \/ CrawlTick
    \/ \E c \in Clients : \/ AskPage(c) \/ Acquire(c) \/ Answered(c) \/ Refused(c)
                          \/ TryAgain(c) \/ Killed(c)

CrawlSpec == CrawlInit /\ [][CrawlNext]_crawlVars

(* The Crawl-delay of robots.txt (rate_limit.py:13-14, 114-118): as long   *)
(* as no request has stayed in flight beyond its timeout and the spare     *)
(* ticks of the hold, a request starts only when no other is in flight and *)
(* the last one, answered or broken off, lies Delay ticks back.            *)
StartsInItsSlot(c) ==
    (phase[c] = "waiting" /\ phase'[c] = "flight" /\ prompt)
        => rest >= Delay /\ \A d \in Clients : phase[d] # "flight"

CrawlDelayKept == [][\A c \in Clients : StartsInItsSlot(c)]_crawlVars
=============================================================================

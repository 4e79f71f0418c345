------------------------------ MODULE FinalPost ------------------------------
(***************************************************************************)
(* The last step of a submission, the POST ajax_public_application that    *)
(* has the portal accept the bid.  The repository has two clients for it:  *)
(* fire() of src/goszakup/autosubmit/fire.py over a raw HTTP session, and  *)
(* _fire of agent/wizard.py over the browser's, whose exceptions           *)
(* agent/runner.py turns into FAILED.  A POST that has left may be handled *)
(* by the portal after the client has given up waiting for the answer.    *)
(*                                                                         *)
(* The portal is external.  What it answers need not say whether it took   *)
(* the bid: a login page comes with a status code of success, a gateway    *)
(* may report an error of a POST that went through.                        *)
(***************************************************************************)
EXTENDS Naturals

CONSTANT
  Retries  \* the argument retries of fire (1)

ASSUME FinalPostAssumption == Retries \in Nat

VARIABLES
  via,      \* the client of this submission
  at,       \* where it is
  left,     \* attempts it has left
  wire,     \* POSTs on their way to the portal
  handled,  \* how many POSTs the portal has handled
  reply,   \* what it answered to the last of them
  outcome   \* RunResult.status, or what FireResult stands for

postVars == <<via, at, left, wire, handled, reply, outcome>>

Ways == {"fire", "wizard"}

(* below: the status code is below 400; error: the body is a JSON object   *)
(* with status = "error" (of any other body the clients think alike: JSON, *)
(* a redirect, the page of the login); accepted: the bid is placed, which  *)
(* no answer with status = "error" hides.                                 *)
Answers ==
  {a \in [below : BOOLEAN, error : BOOLEAN, accepted : BOOLEAN] : a.error => ~a.accepted}

NoReply == [below |-> FALSE, error |-> FALSE, accepted |-> FALSE, none |-> TRUE]

Outcomes == {"none", "SUBMITTED", "FAILED", "UNKNOWN"}

PostTypeOK ==
  /\ via \in Ways
  /\ at \in {"connect", "sent", "done"}
  /\ left \in 0 .. Retries
  /\ wire \in Nat
  /\ handled \in Nat
  /\ reply \in Answers \cup {NoReply}
  /\ outcome \in Outcomes

PostInit ==
  /\ via \in Ways
  /\ at = "connect"
  /\ left = Retries
  /\ wire = 0
  /\ handled = 0
  /\ reply = NoReply
  /\ outcome = "none"

Ends(o) == at' = "done" /\ outcome' = o

(* ConnectError, ConnectTimeout: nothing has left.  fire() tries again;    *)
(* the browser raises, which ends the run.                                 *)
NotConnected ==
  /\ at = "connect"
  /\ \/ /\ via = "fire" /\ left > 0
        /\ left' = left - 1
        /\ UNCHANGED <<at, outcome>>
     \/ /\ via = "wizard" \/ left = 0
        /\ Ends("FAILED")
        /\ UNCHANGED left
  /\ UNCHANGED <<via, wire, handled, reply>>

PostLeaves ==
  /\ at = "connect"
  /\ at' = "sent"
  /\ wire' = wire + 1
  /\ UNCHANGED <<via, left, handled, reply, outcome>>

(* What the client makes of an answer: anything that is not an error is a  *)
(* success.  Only fire() looks at the status code.                         *)
Verdict(a) ==
  IF a.error \/ (via = "fire" /\ ~a.below) THEN "FAILED" ELSE "SUBMITTED"

(* The reply is to the POST that is under way.                             *)
PostAnswered ==
  /\ at = "sent"
  /\ reply # NoReply
  /\ Ends(Verdict(reply))
  /\ UNCHANGED <<via, left, wire, handled, reply>>

(* Mutant: a read timeout is retried like a failed connection.             *)
NoAnswerRetried ==
  /\ at = "sent"
  /\ IF via = "fire" /\ left > 0
       THEN left' = left - 1 /\ at' = "connect" /\ UNCHANGED outcome
       ELSE Ends("FAILED") /\ UNCHANGED left
  /\ UNCHANGED <<via, wire, handled, reply>>

(* ReadTimeout, or the connection breaks after the request was sent: the   *)
(* portal may have it all the same.  fire() says UNKNOWN; the exception of *)
(* the browser becomes FAILED.                                             *)
NoAnswer ==
  /\ at = "sent"
  /\ Ends(IF via = "fire" THEN "UNKNOWN" ELSE "FAILED")
  /\ UNCHANGED <<via, left, wire, handled, reply>>

(* External: the portal handles a POST, or the POST is lost.               *)
PortalHandles(a) ==
  /\ wire > 0
  /\ wire' = wire - 1
  /\ handled' = handled + 1
  /\ reply' = a
  /\ UNCHANGED <<via, at, left, outcome>>

PostLost ==
  /\ wire > 0
  /\ wire' = wire - 1
  /\ UNCHANGED <<via, at, left, handled, reply, outcome>>

PostNext ==
  \/ NotConnected \/ PostLeaves \/ PostAnswered \/ NoAnswer \/ PostLost
  \/ \E a \in Answers : PortalHandles(a)

PostSpec == PostInit /\ [][PostNext]_postVars

-----------------------------------------------------------------------------
(* Properties.                                                             *)

(* Whatever fails on the way, the portal gets the final POST of a          *)
(* submission at most once: a second one would place the bid twice         *)
(* (fire.py:11-12,31-33,96-103).                                           *)
OnePost == handled + wire <= 1

(* FAILED is terminal and says that the bid was not placed: a bid the      *)
(* portal may have accepted is UNKNOWN (db/models.py:765, fire.py:31-33).  *)
(* The wizard does not keep to it, nor fire() when a gateway reports an    *)
(* error of a POST that went through: TLC refutes this of PostSpec.        *)
FailedIsNotAccepted == outcome = "FAILED" => wire = 0 /\ ~reply.accepted

(* SUBMITTED says that the portal took the bid.  A redirect or the page of *)
(* the login, with a status code below 400, passes for it in both clients  *)
(* (fire.py:37-42,85-88, wizard.py:90): TLC refutes this of PostSpec.      *)
SubmittedIsAccepted == outcome = "SUBMITTED" => reply.accepted

(* What fire() reports is what it heard.  FAILED: nothing has left, or the *)
(* portal has handled the POST and refused it or answered with an error    *)
(* code; no POST is under way that could still place the bid.  SUBMITTED:  *)
(* it has handled the POST and answered neither.  What may be under way is *)
(* UNKNOWN (fire.py:31-33,101-112).                                        *)
FireIsHonest ==
  via = "fire" =>
    /\ outcome = "FAILED" => wire = 0 /\ (handled = 0 \/ reply.error \/ ~reply.below)
    /\ outcome = "SUBMITTED" => handled = 1 /\ wire = 0 /\ ~reply.error /\ reply.below
    /\ wire > 0 => outcome \in {"none", "UNKNOWN"}
=============================================================================

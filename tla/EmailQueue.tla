----------------------------- MODULE EmailQueue -----------------------------
(***************************************************************************)
(* The email queue: QueuesService.addEmailJob, BullMQ's handling of a job  *)
(* (concurrency 1), EmailProcessor and EmailService.send with Resend.      *)
(* A job is named by the change it tells a customer about; what the email  *)
(* says is left out.                                                       *)
(***************************************************************************)
EXTENDS Integers, FiniteSets

CONSTANTS
    Changes,          \* changes to an order that a handler makes
    MailAttempts,     \* attempts of an email job
    MailMaxStalled,   \* BullMQ's limit on stalls of one job
    EmailEnabled,     \* EMAIL_ENABLED === 'true'
    MaxLostReplies    \* bound: answers of Resend that are lost

ASSUME ChangesFinite == IsFiniteSet(Changes)
ASSUME QueueBounds ==
    /\ MailAttempts \in Nat \ {0} /\ MailMaxStalled \in Nat
    /\ EmailEnabled \in BOOLEAN /\ MaxLostReplies \in Nat

\* waiting: in the wait list or delayed; active: Resend has not decided yet;
\* answered: Resend accepted the email, the answer is on its way; removed:
\* completed (removeOnComplete); failed: kept in Redis (removeOnFail: false).
MailState == {"none", "waiting", "active", "answered", "removed", "failed"}
OnWorker == {"active", "answered"}

VARIABLES
    mailJob,          \* the state of each email job
    mailTries,        \* its attempts that threw
    mailStalls,       \* its attempts that a crash cut off
    accepted,         \* copies of the email Resend accepted
    lostReplies

mailVars == <<mailJob, mailTries, mailStalls, accepted, lostReplies>>

MailInit ==
    /\ mailJob = [c \in Changes |-> "none"]
    /\ mailTries = [c \in Changes |-> 0]
    /\ mailStalls = [c \in Changes |-> 0]
    /\ accepted = [c \in Changes |-> 0]
    /\ lostReplies = 0

Becomes(c, s) == mailJob' = [mailJob EXCEPT ![c] = s]

\* emailQueue.add
AddEmailJob(c) ==
    /\ Becomes(c, "waiting")
    /\ UNCHANGED <<mailTries, mailStalls, accepted, lostReplies>>

\* The worker is free and takes a job (its delay or backoff is over).  With
\* EMAIL_ENABLED off, send returns at once and the job completes.
ProcessMail(c) ==
    /\ mailJob[c] = "waiting"
    /\ \A d \in Changes : mailJob[d] \notin OnWorker
    /\ Becomes(c, IF EmailEnabled THEN "active" ELSE "removed")
    /\ UNCHANGED <<mailTries, mailStalls, accepted, lostReplies>>

ResendAccepts(c) ==
    /\ mailJob[c] = "active"
    /\ accepted' = [accepted EXCEPT ![c] = @ + 1]
    /\ Becomes(c, "answered")
    /\ UNCHANGED <<mailTries, mailStalls, lostReplies>>

\* Mutation: no limit on the attempts.
RetriesForever(c) == Becomes(c, "waiting") /\ UNCHANGED <<mailTries, mailStalls, accepted>>
\* Mutation: the processor logs the error and returns.
Swallowed(c) ==
    /\ Becomes(c, "removed")
    /\ UNCHANGED <<mailTries, mailStalls, accepted>>
\* send and process rethrow: BullMQ backs off and retries until the attempts
\* are used up.
Throws(c) ==
    /\ mailTries' = [mailTries EXCEPT ![c] = @ + 1]
    /\ Becomes(c, IF mailTries[c] + 1 < MailAttempts THEN "waiting" ELSE "failed")
    /\ UNCHANGED <<mailStalls, accepted>>

\* { error } in the answer.
ResendRefuses(c) ==
    /\ mailJob[c] = "active"
    /\ Throws(c)
    /\ UNCHANGED lostReplies

\* Mutation: a completed job that is queued again.
Requeued(c) ==
    /\ mailJob[c] = "answered"
    /\ Becomes(c, "waiting")
    /\ UNCHANGED <<mailTries, mailStalls, accepted, lostReplies>>
MailCompletes(c) ==
    /\ mailJob[c] = "answered"
    /\ Becomes(c, "removed")
    /\ UNCHANGED <<mailTries, mailStalls, accepted, lostReplies>>

\* Resend accepted the email, but the call rejects.
ReplyIsLost(c) ==
    /\ mailJob[c] = "answered"
    /\ lostReplies < MaxLostReplies
    /\ lostReplies' = lostReplies + 1
    /\ Throws(c)

\* The process died while it worked on a job: BullMQ finds the job stalled.
MailWorkerDies ==
    /\ mailStalls' = [c \in Changes |->
                        IF mailJob[c] \in OnWorker THEN mailStalls[c] + 1 ELSE mailStalls[c]]
    /\ mailJob' = [c \in Changes |->
                     IF mailJob[c] \notin OnWorker THEN mailJob[c]
                     ELSE IF mailStalls[c] < MailMaxStalled THEN "waiting" ELSE "failed"]
    /\ UNCHANGED <<mailTries, accepted, lostReplies>>

\* What the worker and Resend do with the job of c.
MailStep(c) ==
    \/ ProcessMail(c) \/ ResendAccepts(c) \/ ResendRefuses(c)
    \/ MailCompletes(c) \/ ReplyIsLost(c)

MailOK ==
    /\ mailJob \in [Changes -> MailState]
    /\ mailTries \in [Changes -> Nat]
    /\ mailStalls \in [Changes -> Nat]
    /\ accepted \in [Changes -> Nat]
    /\ lostReplies \in Nat

=============================================================================

---------------------------- MODULE Notifications ----------------------------
(***************************************************************************)
(* What customers are told about a change to an order: the email and the   *)
(* stock broadcast.  A handler commits its transaction, then awaits        *)
(* addEmailJob, then awaits emitStockForEvent; at each await any other     *)
(* handler may run, and the process may die.  Which changes an order can   *)
(* go through is Orders' subject; here a change is one run of one handler. *)
(***************************************************************************)
EXTENDS EmailQueue

CONSTANTS
    Arriving,      \* the handlers that changes are runs of
    MaxFailures,   \* bound: awaited calls that reject
    MaxCrashes     \* bound: crashes of the process

\* lateCheckout: within 24 hours of the event, so without a reminder.
Kinds == {"checkout", "lateCheckout", "rollback", "paid", "failed", "expired",
          "refunded", "cancelled"}

ASSUME KindType == Arriving \subseteq Kinds
ASSUME FaultBounds == MaxFailures \in Nat /\ MaxCrashes \in Nat

VARIABLES
    kind,          \* the handler each change is a run of, chosen once
    pc,            \* how far each handler is
    version,       \* commits that changed availableStock: which stock the rows hold
    own,           \* the version each change committed, 0 before it has
    seen,          \* the version emitStockForEvent's findMany returned to it
    shown,         \* the version connected clients received last
    overlapped,    \* history: two broadcasts had both read and not yet emitted
    failures, crashes

feedVars == <<version, own, seen, shown, overlapped>>
vars == <<mailVars, kind, pc, feedVars, failures, crashes>>

\* cut: the handler ended before its last step, and nothing resumes it.
Steps == {"ready", "mail", "find", "emit", "done", "cut"}
Running == {"mail", "find", "emit"}

\* Which handlers change the stock, add an email job (checkout: the reminder)
\* and broadcast the stock.
WritesStock(c) == kind[c] \notin {"paid", "cancelled"}
Mails(c) == kind[c] \notin {"lateCheckout", "rollback", "failed"}
\* Mutation: a handler without its broadcast.
EmitsPaidOnly(c) == kind[c] = "paid"
Emits(c) == kind[c] \in {"paid", "failed", "expired", "refunded"}

AfterMail(c) == IF Emits(c) THEN "find" ELSE "done"
AfterCommit(c) == IF Mails(c) THEN "mail" ELSE AfterMail(c)
Await(c, step) == pc' = [pc EXCEPT ![c] = step]

Init ==
    /\ MailInit
    /\ kind \in [Changes -> Arriving]
    /\ pc = [c \in Changes |-> "ready"]
    /\ version = 0 /\ shown = 0
    /\ own = [c \in Changes |-> 0]
    /\ seen = [c \in Changes |-> 0]
    /\ overlapped = FALSE
    /\ failures = 0 /\ crashes = 0

\* The transaction that makes the change.
Commit(c) ==
    /\ pc[c] = "ready"
    /\ version' = IF WritesStock(c) THEN version + 1 ELSE version
    /\ own' = [own EXCEPT ![c] = version']
    /\ Await(c, AfterCommit(c))
    /\ UNCHANGED <<mailVars, kind, seen, shown, overlapped, failures, crashes>>

AddMail(c) ==
    /\ pc[c] = "mail"
    /\ AddEmailJob(c)
    /\ Await(c, AfterMail(c))
    /\ UNCHANGED <<kind, feedVars, failures, crashes>>

\* Mutation: the stock is served from a cache.
FindCached(c) ==
    /\ pc[c] = "find"
    /\ seen' = [seen EXCEPT ![c] = shown]
    /\ Await(c, "emit")
    /\ UNCHANGED <<mailVars, kind, version, own, shown, overlapped, failures, crashes>>
\* emitStockForEvent: the categories' stock as the database has it by then.
FindStock(c) ==
    /\ pc[c] = "find"
    /\ seen' = [seen EXCEPT ![c] = version]
    /\ overlapped' = (overlapped \/ \E d \in Changes : pc[d] = "emit")
    /\ Await(c, "emit")
    /\ UNCHANGED <<mailVars, kind, version, own, shown, failures, crashes>>

\* emitStockUpdate: server.emit to every client, in the continuation of the
\* read.  (Its early return is for a gateway without a server; Nest gives it
\* one before any handler runs.)
EmitStock(c) ==
    /\ pc[c] = "emit"
    /\ shown' = seen[c]
    /\ Await(c, "done")
    /\ UNCHANGED <<mailVars, kind, version, own, seen, overlapped, failures, crashes>>

\* Mutation: a status in place of a step.
RetriedByStatus(c) == IF kind[c] = "failed" THEN "ready" ELSE "failed"
\* A handler that did not return is retried where somebody retries it; only a
\* failed payment is then handled again, the other handlers find the order in
\* a status that they skip.
Retried(c) == IF kind[c] = "failed" THEN "ready" ELSE "cut"

\* The awaited call of a running handler rejects.
Rejects(c) ==
    /\ pc[c] \in Running
    /\ failures < MaxFailures
    /\ failures' = failures + 1
    /\ Await(c, Retried(c))
    /\ UNCHANGED <<mailVars, kind, feedVars, crashes>>

Crash ==
    /\ crashes < MaxCrashes
    /\ crashes' = crashes + 1
    /\ pc' = [c \in Changes |-> IF pc[c] \in Running THEN Retried(c) ELSE pc[c]]
    /\ MailWorkerDies
    /\ UNCHANGED <<kind, feedVars, failures>>

\* The worker and Resend change nothing but the queue.
Worker(c) == MailStep(c) /\ UNCHANGED <<kind, pc, feedVars, failures, crashes>>
Handler(c) == AddMail(c) \/ FindStock(c) \/ EmitStock(c)

Next ==
    \/ \E c \in Changes : Commit(c) \/ Handler(c) \/ Rejects(c) \/ Worker(c)
    \/ Crash

Spec == Init /\ [][Next]_vars

\* The event loop resumes a handler whose call has returned; the worker takes a
\* job that waits, and a call of Resend returns or rejects in the end.
Fairness ==
    \A c \in Changes : WF_vars(Handler(c)) /\ WF_vars(Worker(c))

FairSpec == Spec /\ Fairness

-----------------------------------------------------------------------------
(* Properties *)

\* Every variable has its type.
TypeOK ==
    /\ MailOK
    /\ kind \in [Changes -> Kinds]
    /\ pc \in [Changes -> Steps]
    /\ version \in Nat /\ shown \in Nat
    /\ own \in [Changes -> Nat] /\ seen \in [Changes -> Nat]
    /\ overlapped \in BOOLEAN
    /\ failures \in Nat /\ crashes \in Nat

\* The handlers that end with emitStockForEvent: markPaid's and markFailed's
\* webhooks, the expiry job and the refund.
Announced == {c \in Changes : kind[c] \in {"paid", "failed", "expired", "refunded"}}

\* Clients never fall behind a change whose handler has returned, unless two
\* broadcasts overlapped: then the older read may be emitted last.
AnnouncedIsShown ==
    overlapped \/ \A c \in Announced : pc[c] = "done" => own[c] <= shown

\* What a handler that returned has promised to mail is never dropped on the
\* way: Resend accepted it, it is on its way, or the failed job is kept.
MailIsKept ==
    \A c \in Changes :
        Mails(c) /\ pc[c] = "done" /\ EmailEnabled
            => accepted[c] > 0 \/ mailJob[c] \in {"waiting", "active", "failed"}

\* A customer gets one email more than once only through an attempt that failed
\* or a crash, and never more often than attempts and stalls allow.
FewCopies ==
    \A c \in Changes :
        /\ accepted[c] <= 1 + mailTries[c] + mailStalls[c]
        /\ accepted[c] <= MailAttempts + MailMaxStalled

\* A committed change that is announced reaches the clients, unless its handler
\* is cut off.
ChangeIsAnnounced ==
    \A c \in Changes :
        (c \in Announced /\ pc[c] \in {"mail", "find"}) ~> (own[c] <= shown \/ pc[c] \in {"cut", "ready"})

\* Every email job ends: its email is accepted (or emails are off), or the job
\* is kept as failed.
MailsSettle ==
    \A c \in Changes :
        (mailJob[c] = "waiting") ~> (mailJob[c] \in {"removed", "failed"})

=============================================================================

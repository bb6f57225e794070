------------------------- MODULE NotificationsProofs -------------------------
(***************************************************************************)
(* What customers are told, for any number of changes, handlers, failures  *)
(* and crashes: the broadcast never falls behind a handler that returned   *)
(* (unless broadcasts overlap), and no email is dropped or sent too often. *)
(***************************************************************************)
EXTENDS Notifications, TLAPS

USE DEF vars, mailVars, feedVars

LEMMA StepsTyped ==
    /\ \A c \in Changes : AfterMail(c) \in Steps /\ AfterCommit(c) \in Steps /\ Retried(c) \in Steps
    /\ Running \subseteq Steps
<1>1. ASSUME NEW c \in Changes PROVE AfterMail(c) \in Steps /\ Retried(c) \in Steps
  BY DEF AfterMail, Retried, Steps
<1>2. ASSUME NEW c \in Changes PROVE AfterCommit(c) \in Steps
  BY <1>1 DEF AfterCommit, Steps
<1>3. Running \subseteq Steps
  BY DEF Running, Steps
<1> QED BY <1>1, <1>2, <1>3

LEMMA InitTyped == Init => TypeOK
<1> SUFFICES ASSUME Init PROVE TypeOK
  OBVIOUS
<1>1. MailOK
  BY DEF Init, MailInit, MailOK, MailState
<1>2. kind \in [Changes -> Kinds]
  BY KindType DEF Init
<1>3. /\ pc \in [Changes -> Steps]
      /\ own \in [Changes -> Nat] /\ seen \in [Changes -> Nat]
  BY DEF Init, Steps
<1> QED BY <1>1, <1>2, <1>3 DEF Init, TypeOK

LEMMA QueueKept ==
    ASSUME MailOK, NEW c \in Changes, AddEmailJob(c) \/ MailStep(c) \/ MailWorkerDies
    PROVE  MailOK'
<1>1. CASE AddEmailJob(c)
  BY <1>1 DEF AddEmailJob, Becomes, MailOK, MailState
<1>2. CASE ProcessMail(c)
  BY <1>2 DEF ProcessMail, Becomes, MailOK, MailState
<1>3. CASE ResendAccepts(c)
  BY <1>3 DEF ResendAccepts, Becomes, MailOK, MailState
<1>4. CASE ResendRefuses(c)
  BY <1>4 DEF ResendRefuses, Throws, Becomes, MailOK, MailState
<1>5. CASE MailCompletes(c)
  BY <1>5 DEF MailCompletes, Becomes, MailOK, MailState
<1>6. CASE ReplyIsLost(c)
  BY <1>6 DEF ReplyIsLost, Throws, Becomes, MailOK, MailState
<1>7. CASE MailWorkerDies
  BY <1>7 DEF MailWorkerDies, MailOK, MailState
<1> QED BY <1>1, <1>2, <1>3, <1>4, <1>5, <1>6, <1>7 DEF MailStep

LEMMA TypeKept == TypeOK /\ [Next]_vars => TypeOK'
<1> SUFFICES ASSUME TypeOK, [Next]_vars PROVE TypeOK'
  OBVIOUS
<1> USE StepsTyped
<1>1. ASSUME NEW c \in Changes, Commit(c) PROVE TypeOK'
  BY <1>1 DEF Commit, Await, TypeOK, MailOK
<1>2. ASSUME NEW c \in Changes, AddMail(c) PROVE TypeOK'
  BY <1>2, QueueKept DEF AddMail, Await, TypeOK
<1>3. ASSUME NEW c \in Changes, FindStock(c) PROVE TypeOK'
  BY <1>3 DEF FindStock, Await, TypeOK, MailOK, Running
<1>4. ASSUME NEW c \in Changes, EmitStock(c) PROVE TypeOK'
  BY <1>4 DEF EmitStock, Await, TypeOK, MailOK, Steps
<1>5. ASSUME NEW c \in Changes, Rejects(c) PROVE TypeOK'
  BY <1>5 DEF Rejects, Await, TypeOK, MailOK
<1>6. ASSUME NEW c \in Changes, Worker(c) PROVE TypeOK'
  BY <1>6, QueueKept DEF Worker, TypeOK
<1>7. CASE Crash
  <2>1. \A c \in Changes : pc'[c] \in Steps
    BY <1>7 DEF Crash, TypeOK
  <2>2. MailOK'
    <3>1. CASE Changes = {}
      BY <1>7, <3>1 DEF Crash, MailWorkerDies, TypeOK, MailOK
    <3> QED BY <1>7, <3>1, QueueKept DEF Crash, TypeOK
  <2> QED BY <1>7, <2>1, <2>2 DEF Crash, TypeOK
<1>8. CASE UNCHANGED vars
  BY <1>8 DEF TypeOK, MailOK
<1> QED BY <1>1, <1>2, <1>3, <1>4, <1>5, <1>6, <1>7, <1>8 DEF Next, Handler

\* Every variable keeps its type.
THEOREM TypeCorrect == Spec => []TypeOK
BY InitTyped, TypeKept, PTL DEF Spec

-----------------------------------------------------------------------------
(* The broadcast *)

\* A read that is about to be emitted includes the change of its handler.
ReadsAreCurrent ==
    /\ \A c \in Changes : own[c] <= version
    /\ shown <= version
    /\ \A c \in Changes : pc[c] = "emit" => own[c] <= seen[c] /\ seen[c] <= version

\* Without overlap one handler at a time holds a read, the newest one.
OneReadAtATime ==
    ~overlapped =>
        /\ \A c, d \in Changes : pc[c] = "emit" /\ pc[d] = "emit" => c = d
        /\ \A c \in Changes : pc[c] = "emit" => shown <= seen[c]
        /\ \A c \in Announced : pc[c] = "done" => own[c] <= shown

FeedInv == ReadsAreCurrent /\ OneReadAtATime

LEMMA FeedKept == TypeOK /\ FeedInv /\ [Next]_vars => FeedInv'
<1> SUFFICES ASSUME TypeOK, FeedInv, [Next]_vars PROVE FeedInv'
  OBVIOUS
<1> USE DEF FeedInv, ReadsAreCurrent, OneReadAtATime, Announced
<1>1. ASSUME NEW c \in Changes, Commit(c) PROVE FeedInv'
  <2>1. version' >= version /\ version' \in Nat
    BY <1>1 DEF Commit, TypeOK
  <2>2. \A d \in Changes : d # c => pc'[d] = pc[d] /\ own'[d] = own[d]
    BY <1>1 DEF Commit, Await, TypeOK
  <2>3. pc'[c] # "emit" /\ own'[c] = version' /\ (c \in Announced => pc'[c] # "done")
    BY <1>1 DEF Commit, Await, AfterCommit, AfterMail, Emits, TypeOK
  <2>4. UNCHANGED <<seen, shown, overlapped, kind>>
    BY <1>1 DEF Commit
  <2>5. ReadsAreCurrent'
    BY <2>1, <2>2, <2>3, <2>4 DEF TypeOK
  <2>6. OneReadAtATime'
    BY <2>2, <2>3, <2>4
  <2> QED BY <2>5, <2>6
<1>2. ASSUME NEW c \in Changes, AddMail(c) PROVE FeedInv'
  BY <1>2 DEF AddMail, Await, AfterMail, Emits, TypeOK
<1>3. ASSUME NEW c \in Changes, FindStock(c) PROVE FeedInv'
  <2>1. /\ \A d \in Changes : d # c => pc'[d] = pc[d] /\ seen'[d] = seen[d]
        /\ pc'[c] = "emit" /\ seen'[c] = version
        /\ UNCHANGED <<version, own, shown, kind>>
        /\ ~overlapped' => ~overlapped /\ \A d \in Changes : pc[d] # "emit"
    BY <1>3 DEF FindStock, Await, TypeOK
  <2>2. ReadsAreCurrent'
    BY <2>1 DEF TypeOK
  <2>3. OneReadAtATime'
    BY <2>1
  <2> QED BY <2>2, <2>3
<1>4. ASSUME NEW c \in Changes, EmitStock(c) PROVE FeedInv'
  BY <1>4 DEF EmitStock, Await, TypeOK
<1>5. ASSUME NEW c \in Changes, Rejects(c) PROVE FeedInv'
  BY <1>5 DEF Rejects, Await, Retried, TypeOK
<1>6. ASSUME NEW c \in Changes, Worker(c) PROVE FeedInv'
  BY <1>6 DEF Worker, TypeOK
<1>7. CASE Crash
  BY <1>7 DEF Crash, Retried, Running, TypeOK
<1>8. CASE UNCHANGED vars
  BY <1>8
<1> QED BY <1>1, <1>2, <1>3, <1>4, <1>5, <1>6, <1>7, <1>8 DEF Next, Handler

\* Clients have every announced change whose handler returned, unless two
\* broadcasts overlapped.
THEOREM ClientsKeepUp == Spec => []AnnouncedIsShown
<1>1. Init => FeedInv
  <2> SUFFICES ASSUME Init PROVE FeedInv
    OBVIOUS
  <2>1. /\ \A c \in Changes : pc[c] = "ready" /\ own[c] = 0
        /\ version = 0 /\ shown = 0
    BY DEF Init
  <2>2. \A c \in Announced : c \in Changes
    BY DEF Announced
  <2> QED BY <2>1, <2>2 DEF FeedInv, ReadsAreCurrent, OneReadAtATime
<1>2. FeedInv => AnnouncedIsShown
  BY DEF FeedInv, OneReadAtATime, AnnouncedIsShown
<1> QED BY <1>1, <1>2, FeedKept, TypeCorrect, PTL DEF Spec

-----------------------------------------------------------------------------
(* The email queue *)

\* What each state of a job says about the attempts made and the copies sent.
JobAccounts(c) ==
    /\ mailJob[c] = "none" => accepted[c] = 0 /\ mailTries[c] = 0 /\ mailStalls[c] = 0
    /\ mailJob[c] \in {"waiting", "active", "failed"} => accepted[c] <= mailTries[c] + mailStalls[c]
    /\ mailJob[c] \in {"answered", "removed"} => accepted[c] <= mailTries[c] + mailStalls[c] + 1
    /\ mailJob[c] # "failed" => mailTries[c] < MailAttempts /\ mailStalls[c] <= MailMaxStalled
    /\ mailTries[c] + mailStalls[c] <= MailAttempts + MailMaxStalled
    /\ EmailEnabled /\ mailJob[c] \in {"answered", "removed"} => accepted[c] > 0

\* A job is added by its handler alone, once.
AddedOnce(c) ==
    /\ pc[c] \in {"ready", "mail"} => mailJob[c] = "none"
    /\ ~Mails(c) => mailJob[c] = "none"
    /\ Mails(c) /\ pc[c] \in {"find", "emit", "done"} => mailJob[c] # "none"
    /\ pc[c] = "mail" => Mails(c)

QueueInv == \A c \in Changes : JobAccounts(c) /\ AddedOnce(c)

LEMMA AccountsKept ==
    ASSUME MailOK, NEW c \in Changes, JobAccounts(c),
           MailStep(c) \/ MailWorkerDies \/ (AddEmailJob(c) /\ mailJob[c] = "none")
    PROVE  JobAccounts(c)'
<1> USE QueueBounds DEF JobAccounts, MailOK, Becomes
<1>1. CASE AddEmailJob(c) /\ mailJob[c] = "none"
  BY <1>1 DEF AddEmailJob
<1>2. CASE ProcessMail(c)
  BY <1>2 DEF ProcessMail
<1>3. CASE ResendAccepts(c)
  BY <1>3 DEF ResendAccepts
<1>4. CASE ResendRefuses(c)
  BY <1>4 DEF ResendRefuses, Throws
<1>5. CASE MailCompletes(c)
  BY <1>5 DEF MailCompletes
<1>6. CASE ReplyIsLost(c)
  BY <1>6 DEF ReplyIsLost, Throws
<1>7. CASE MailWorkerDies
  BY <1>7 DEF MailWorkerDies, OnWorker
<1> QED BY <1>1, <1>2, <1>3, <1>4, <1>5, <1>6, <1>7 DEF MailStep

LEMMA WorkerAddsNone ==
    ASSUME MailOK, NEW c \in Changes, MailStep(c) \/ MailWorkerDies
    PROVE  mailJob'[c] = "none" <=> mailJob[c] = "none"
BY DEF MailStep, ProcessMail, ResendAccepts, ResendRefuses, MailCompletes, ReplyIsLost,
       Throws, Becomes, MailWorkerDies, OnWorker, MailOK

LEMMA QueueInvKept == TypeOK /\ QueueInv /\ [Next]_vars => QueueInv'
<1> SUFFICES ASSUME TypeOK, QueueInv, [Next]_vars, NEW d \in Changes
             PROVE  JobAccounts(d)' /\ AddedOnce(d)'
  BY DEF QueueInv
<1>0. JobAccounts(d) /\ AddedOnce(d) /\ MailOK
  BY DEF QueueInv, TypeOK
\* A step that leaves the queue alone keeps the accounts.
<1>1. UNCHANGED mailVars => JobAccounts(d)'
  BY <1>0 DEF JobAccounts
<1>2. ASSUME NEW c \in Changes, Commit(c) PROVE AddedOnce(d)'
  BY <1>0, <1>2 DEF Commit, Await, AfterCommit, AfterMail, AddedOnce, Mails, TypeOK
<1>3. ASSUME NEW c \in Changes, FindStock(c) \/ EmitStock(c) \/ Rejects(c) PROVE AddedOnce(d)'
  BY <1>0, <1>3 DEF FindStock, EmitStock, Rejects, Retried, Running, Await, AddedOnce, Mails, TypeOK
<1>4. ASSUME NEW c \in Changes, AddMail(c) PROVE JobAccounts(d)' /\ AddedOnce(d)'
  <2>1. CASE c = d
    <3>1. AddEmailJob(d) /\ mailJob[d] = "none" /\ Mails(d)
      BY <1>0, <1>4, <2>1 DEF AddMail, AddedOnce
    <3>2. JobAccounts(d)' /\ mailJob'[d] # "none"
      BY <1>0, <3>1, AccountsKept DEF AddEmailJob, Becomes, MailOK
    <3>3. pc'[d] = AfterMail(d) /\ kind' = kind
      BY <1>4, <2>1 DEF AddMail, Await, TypeOK
    <3> QED BY <3>1, <3>2, <3>3 DEF AddedOnce, AfterMail, Mails
  <2>2. CASE c # d
    <3>1. /\ mailJob'[d] = mailJob[d] /\ pc'[d] = pc[d] /\ kind' = kind
          /\ UNCHANGED <<mailTries, mailStalls, accepted>>
      BY <1>0, <1>4, <2>2 DEF AddMail, AddEmailJob, Becomes, Await, TypeOK, MailOK
    <3> QED BY <1>0, <3>1 DEF AddedOnce, Mails, JobAccounts
  <2> QED BY <2>1, <2>2
<1>5. ASSUME NEW c \in Changes, Worker(c) PROVE JobAccounts(d)' /\ AddedOnce(d)'
  <2>1. JobAccounts(d)' /\ (mailJob'[d] = "none" <=> mailJob[d] = "none")
    <3>1. CASE c = d
      <4>1. MailStep(d)
        BY <1>5, <3>1 DEF Worker
      <4> QED BY <1>0, <4>1, AccountsKept, WorkerAddsNone
    <3>2. CASE c # d
      <4>1. /\ mailJob'[d] = mailJob[d] /\ mailTries'[d] = mailTries[d]
            /\ mailStalls'[d] = mailStalls[d] /\ accepted'[d] = accepted[d]
        BY <1>0, <1>5, <3>2 DEF Worker, MailStep, ProcessMail, ResendAccepts, ResendRefuses,
               MailCompletes, ReplyIsLost, Throws, Becomes, MailOK
      <4> QED BY <1>0, <4>1 DEF JobAccounts
    <3> QED BY <3>1, <3>2
  <2>2. UNCHANGED <<pc, kind>>
    BY <1>5 DEF Worker
  <2> QED BY <1>0, <2>1, <2>2 DEF AddedOnce, Mails
<1>6. CASE Crash
  <2>1. MailWorkerDies
    BY <1>6 DEF Crash
  <2>2. JobAccounts(d)' /\ (mailJob'[d] = "none" <=> mailJob[d] = "none")
    BY <1>0, <2>1, AccountsKept, WorkerAddsNone
  <2>3. kind' = kind /\ pc'[d] = IF pc[d] \in Running THEN Retried(d) ELSE pc[d]
    BY <1>6 DEF Crash
  <2> QED BY <1>0, <2>2, <2>3 DEF AddedOnce, Mails, Retried, Running
<1>7. CASE UNCHANGED vars
  BY <1>0, <1>7 DEF AddedOnce, Mails, JobAccounts
<1>8. ASSUME NEW c \in Changes, Commit(c) \/ FindStock(c) \/ EmitStock(c) \/ Rejects(c)
      PROVE  UNCHANGED mailVars
  BY <1>8 DEF Commit, FindStock, EmitStock, Rejects
<1> QED BY <1>1, <1>2, <1>3, <1>4, <1>5, <1>6, <1>7, <1>8 DEF Next, Handler

LEMMA QueueInvHolds == Spec => [](TypeOK /\ QueueInv)
<1>1. Init => QueueInv
  <2> SUFFICES ASSUME Init, NEW c \in Changes PROVE JobAccounts(c) /\ AddedOnce(c)
    BY DEF QueueInv
  <2>1. /\ mailJob[c] = "none" /\ accepted[c] = 0 /\ mailTries[c] = 0 /\ mailStalls[c] = 0
        /\ pc[c] = "ready"
    BY DEF Init, MailInit
  <2> QED BY <2>1, QueueBounds DEF JobAccounts, AddedOnce
<1> QED BY <1>1, QueueInvKept, TypeCorrect, PTL DEF Spec

\* No email that a handler promised is dropped between the queue and Resend.
THEOREM NoMailIsDropped == Spec => []MailIsKept
<1>1. TypeOK /\ QueueInv => MailIsKept
  <2> SUFFICES ASSUME TypeOK, QueueInv, NEW c \in Changes, Mails(c), pc[c] = "done", EmailEnabled
               PROVE  accepted[c] > 0 \/ mailJob[c] \in {"waiting", "active", "failed"}
    BY DEF MailIsKept
  <2>1. mailJob[c] \in MailState \ {"none"}
    BY DEF QueueInv, AddedOnce, TypeOK, MailOK
  <2> QED BY <2>1 DEF MailState, QueueInv, JobAccounts
<1> QED BY <1>1, QueueInvHolds, PTL

\* Copies of an email are bounded by failed attempts, and these by the limits
\* of the queue.
THEOREM CopiesAreFew == Spec => []FewCopies
<1>1. TypeOK /\ QueueInv => FewCopies
  <2> SUFFICES ASSUME TypeOK, QueueInv, NEW c \in Changes
               PROVE  /\ accepted[c] <= 1 + mailTries[c] + mailStalls[c]
                      /\ accepted[c] <= MailAttempts + MailMaxStalled
    BY DEF FewCopies
  <2>1. /\ mailJob[c] \in MailState
        /\ accepted[c] \in Nat /\ mailTries[c] \in Nat /\ mailStalls[c] \in Nat
    BY DEF TypeOK, MailOK
  <2> QED BY <2>1, QueueBounds DEF MailState, QueueInv, JobAccounts
<1> QED BY <1>1, QueueInvHolds, PTL
=============================================================================

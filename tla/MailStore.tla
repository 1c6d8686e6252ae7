------------------------------ MODULE MailStore ------------------------------
(***************************************************************************)
(* The mail server of gtcpp when it saves all mails in one file            *)
(* (smtputil_smtpd.cpp, single_file_mode).  The worker threads store their *)
(* mails by group commit (piggyback_tr.cpp): a thread queues an entry that *)
(* lives on its stack; the thread that finds no transaction executing      *)
(* takes the whole queue and writes and syncs the mails of all; the others *)
(* wait on a condition until theirs is done.  Then the thread answers its  *)
(* client, with 250 if the mail is stored.                                 *)
(*                                                                         *)
(* Each section that holds the lock is one action.  The file is a sequence *)
(* of fragments, two for each mail, of which the first synced survive a    *)
(* loss of power.                                                          *)
(***************************************************************************)
EXTENDS Naturals, Sequences

CONSTANTS
    Threads,
    PiggybackSizes, \* the values of the option pgy
    MaxMails,       \* bound: mails of each thread
    MaxCrashes      \* bound: crashes

ASSUME PiggybackAssumption == PiggybackSizes \subseteq Nat \ {0}
ASSUME BoundsAssumption == MaxMails \in Nat /\ MaxCrashes \in Nat

VARIABLES
    piggyback_max,  \* how many entries may wait
    pc,             \* where each thread is
    count,          \* mails that each thread has taken
    queued,         \* queued_flag of each thread
    done, success,  \* the entry of each thread
    written,        \* success of the smtp_save_savefile of each thread
    q_waiting, executing_flag,
    q_executing,    \* q_executing of each thread
    at,             \* i of the loop over q_executing
    file_open,      \* single_file_fd is valid
    mbox,           \* the fragments in the file
    synced,         \* how many of them survive a loss of power
    acked,          \* the mails answered with 250
    crashes

entryVars == <<queued, done, success, written>>
queueVars == <<q_waiting, executing_flag, q_executing, at>>
fileVars == <<file_open, mbox, synced>>
vars == <<piggyback_max, pc, count, entryVars, queueVars, fileVars, acked, crashes>>

Mails == Threads \X Nat
Fragments == [mail : Mails, part : {"header", "body"}, whole : BOOLEAN]
Places == {"idle", "lock", "wait", "begin", "header", "body", "rewind",
           "throwing", "answer", "abort"}

TypeOK ==
    /\ piggyback_max \in PiggybackSizes
    /\ pc \in [Threads -> Places] /\ count \in [Threads -> Nat]
    /\ queued \in [Threads -> BOOLEAN] /\ written \in [Threads -> BOOLEAN]
    /\ done \in [Threads -> BOOLEAN] /\ success \in [Threads -> BOOLEAN]
    /\ q_waiting \in Seq(Threads) /\ executing_flag \in BOOLEAN
    /\ q_executing \in [Threads -> Seq(Threads)] /\ at \in [Threads -> Nat]
    /\ file_open \in BOOLEAN /\ mbox \in Seq(Fragments)
    /\ synced \in 0 .. Len(mbox)
    /\ acked \in SUBSET Mails /\ crashes \in 0 .. MaxCrashes

(* The mail that thread t has in hand.                                      *)
Mail(t) == <<t, count[t]>>
Fragment(m, p, w) == [mail |-> m, part |-> p, whole |-> w]
Batch(t) == {q_executing[t][i] : i \in 1 .. Len(q_executing[t])}
Waiting == {q_waiting[i] : i \in 1 .. Len(q_waiting)}

(* What the threads of a process have when it starts.                       *)
Idle == [t \in Threads |-> "idle"]
Never == [t \in Threads |-> FALSE]
NoBatch == [t \in Threads |-> <<>>]
First == [t \in Threads |-> 1]

Init ==
    /\ piggyback_max \in PiggybackSizes
    /\ pc = Idle /\ count = [t \in Threads |-> 0]
    /\ queued = Never /\ done = Never /\ success = Never /\ written = Never
    /\ q_waiting = <<>> /\ executing_flag = FALSE
    /\ q_executing = NoBatch /\ at = First
    /\ file_open = FALSE /\ mbox = <<>> /\ synced = 0
    /\ acked = {} /\ crashes = 0

-----------------------------------------------------------------------------
(* on_body: the thread has read a mail and calls execute_piggyback.         *)
Body(t) ==
    /\ pc[t] = "idle" /\ count[t] < MaxMails
    /\ pc' = [pc EXCEPT ![t] = "lock"]
    /\ count' = [count EXCEPT ![t] = @ + 1]
    /\ queued' = [queued EXCEPT ![t] = FALSE]
    /\ done' = [done EXCEPT ![t] = FALSE]
    /\ success' = [success EXCEPT ![t] = FALSE]
    /\ written' = [written EXCEPT ![t] = FALSE]
    /\ UNCHANGED <<piggyback_max, queueVars, fileVars, acked, crashes>>

(* One iteration of the loop under the lock begins by queueing the entry,   *)
(* unless it is queued or the queue is full.                                *)
Queues(t) == ~queued[t] /\ Len(q_waiting) < piggyback_max
IsQueued(t) == queued[t] \/ Queues(t)
Queue(t) == IF Queues(t) THEN Append(q_waiting, t) ELSE q_waiting

(* Mutant of IsDone: looks at the result and not at done_flag.              *)
IsDoneOnSuccess(t) == done[t] \/ success[t]

IsDone(t) == done[t]

(* The entry was executed by another thread.                                *)
Return(t) ==
    /\ pc[t] = "lock" /\ IsQueued(t) /\ IsDone(t)
    /\ pc' = [pc EXCEPT ![t] = "answer"]
    /\ UNCHANGED <<piggyback_max, count, entryVars, queueVars, fileVars, acked, crashes>>

MayLead == ~executing_flag

AfterSwap(t) == <<>>

(* No transaction executes: this thread executes one, for all in the queue. *)
Lead(t) ==
    /\ pc[t] = "lock" /\ IsQueued(t) /\ ~IsDone(t) /\ MayLead
    /\ pc' = [pc EXCEPT ![t] = "begin"]
    /\ queued' = [queued EXCEPT ![t] = TRUE]
    /\ executing_flag' = TRUE
    /\ q_executing' = [q_executing EXCEPT ![t] = Queue(t)]
    /\ q_waiting' = AfterSwap(t)
    /\ at' = [at EXCEPT ![t] = 1]
    /\ UNCHANGED <<piggyback_max, count, done, success, written, fileVars, acked,
                   crashes>>

Wait(t) ==
    /\ pc[t] = "lock" /\ ~(IsQueued(t) /\ (IsDone(t) \/ MayLead))
    /\ pc' = [pc EXCEPT ![t] = "wait"]
    /\ queued' = [queued EXCEPT ![t] = IsQueued(t)]
    /\ q_waiting' = Queue(t)
    /\ UNCHANGED <<piggyback_max, count, done, success, written, executing_flag,
                   q_executing, at, fileVars, acked, crashes>>

(* pthread_cond_wait may return without a reason.                           *)
WakeUp(t) ==
    /\ pc[t] = "wait"
    /\ pc' = [pc EXCEPT ![t] = "lock"]
    /\ UNCHANGED <<piggyback_max, count, entryVars, queueVars, fileVars, acked, crashes>>

-----------------------------------------------------------------------------
(* Mutant of Opened: the file is truncated.                                 *)
OpenedTruncated == <<>>

Opened == mbox

(* begin_transaction opens the file if it is not open.                      *)
Begin(t) ==
    /\ pc[t] = "begin"
    /\ pc' = [pc EXCEPT ![t] = "header"]
    /\ file_open' = TRUE
    /\ mbox' = Opened
    /\ UNCHANGED <<piggyback_max, count, entryVars, queueVars, synced, acked, crashes>>

(* It cannot be opened, and begin_transaction throws.                       *)
BeginThrows(t) ==
    /\ pc[t] = "begin" /\ ~file_open
    /\ pc' = [pc EXCEPT ![t] = "throwing"]
    /\ UNCHANGED <<piggyback_max, count, entryVars, queueVars, fileVars, acked, crashes>>

Proc(t) == q_executing[t][at[t]]

(* execute_procedure for one entry: the first fragment.                     *)
WriteHeader(t) ==
    /\ pc[t] = "header" /\ at[t] <= Len(q_executing[t])
    /\ pc' = [pc EXCEPT ![t] = "body"]
    /\ mbox' = Append(mbox, Fragment(Mail(Proc(t)), "header", TRUE))
    /\ UNCHANGED <<piggyback_max, count, entryVars, queueVars, file_open, synced,
                   acked, crashes>>

(* The second one: the mail is written.                                     *)
WriteBody(t) ==
    /\ pc[t] = "body"
    /\ pc' = [pc EXCEPT ![t] = "header"]
    /\ mbox' = Append(mbox, Fragment(Mail(Proc(t)), "body", TRUE))
    /\ written' = [written EXCEPT ![Proc(t)] = TRUE]
    /\ at' = [at EXCEPT ![t] = @ + 1]
    /\ UNCHANGED <<piggyback_max, count, queued, done, success, q_waiting,
                   executing_flag, q_executing, file_open, synced, acked, crashes>>

(* Either write fails, or stops in the middle.                              *)
WriteFails(t) ==
    /\ \/ pc[t] = "body"
       \/ pc[t] = "header" /\ at[t] <= Len(q_executing[t])
    /\ pc' = [pc EXCEPT ![t] = "header"]
    /\ \/ mbox' = mbox
       \/ mbox' = Append(mbox, Fragment(Mail(Proc(t)), pc[t], FALSE))
    /\ at' = [at EXCEPT ![t] = @ + 1]
    /\ UNCHANGED <<piggyback_max, count, entryVars, q_waiting, executing_flag,
                   q_executing, file_open, synced, acked, crashes>>

(* commit_transaction: fsync, then the success of all entries.              *)
Commit(t) ==
    /\ pc[t] = "header" /\ at[t] > Len(q_executing[t])
    /\ pc' = [pc EXCEPT ![t] = "rewind"]
    /\ synced' = Len(mbox)
    /\ success' = [u \in Threads |-> success[u] \/ u \in Batch(t)]
    /\ UNCHANGED <<piggyback_max, count, queued, done, written, queueVars,
                   file_open, mbox, acked, crashes>>

(* Mutant of CommitSuccess: the result of fsync is ignored.                 *)
CommitSuccessIgnored(t) == [u \in Threads |-> success[u] \/ u \in Batch(t)]

CommitSuccess(t) == success

CommitFails(t) ==
    /\ pc[t] = "header" /\ at[t] > Len(q_executing[t])
    /\ pc' = [pc EXCEPT ![t] = "rewind"]
    /\ success' = CommitSuccess(t)
    /\ UNCHANGED <<piggyback_max, count, queued, done, written, queueVars, fileVars,
                   acked, crashes>>

(* Mutant of Notified: wakes one thread only, where one is in wait.         *)
NotifiedOne(p) ==
    IF \A u \in Threads : p[u] # "wait" THEN p
    ELSE [p EXCEPT ![CHOOSE u \in Threads : p[u] = "wait"] = "lock"]

(* notify_all                                                               *)
Notified(p) == [u \in Threads |-> IF p[u] = "wait" THEN "lock" ELSE p[u]]

(* ~rewind_hook, after the transaction or while its exception passes.       *)
Rewind(t) ==
    /\ pc[t] \in {"rewind", "throwing"}
    /\ pc' = Notified([pc EXCEPT ![t] = IF pc[t] = "rewind" THEN "answer" ELSE "abort"])
    /\ done' = [u \in Threads |-> done[u] \/ u \in Batch(t)]
    /\ executing_flag' = FALSE
    /\ q_executing' = [q_executing EXCEPT ![t] = <<>>]
    /\ UNCHANGED <<piggyback_max, count, queued, success, written, q_waiting, at,
                   fileVars, acked, crashes>>

(* on_body answers: 250 if the transaction and the two writes succeeded.    *)
Stored(t) == success[t] /\ written[t]

Answer(t) ==
    /\ pc[t] = "answer"
    /\ pc' = [pc EXCEPT ![t] = "idle"]
    /\ acked' = IF Stored(t) THEN acked \cup {Mail(t)} ELSE acked
    /\ UNCHANGED <<piggyback_max, count, entryVars, queueVars, fileVars, crashes>>

-----------------------------------------------------------------------------
(* The process ends and is started again; n fragments are left in the file. *)
Restart(n) ==
    /\ pc' = Idle
    /\ queued' = Never /\ done' = Never /\ success' = Never /\ written' = Never
    /\ q_waiting' = <<>> /\ executing_flag' = FALSE
    /\ q_executing' = NoBatch /\ at' = First
    /\ file_open' = FALSE /\ mbox' = SubSeq(mbox, 1, n)
    /\ UNCHANGED <<piggyback_max, count, synced, acked>>

(* Nothing catches the exception of begin_transaction: start_routine aborts. *)
Abort(t) ==
    /\ pc[t] = "abort"
    /\ Restart(Len(mbox))
    /\ UNCHANGED crashes

PowerLoss ==
    /\ crashes < MaxCrashes
    /\ crashes' = crashes + 1
    /\ \E n \in synced .. Len(mbox) : Restart(n)

Step(t) ==
    \/ Return(t) \/ Lead(t) \/ Wait(t)
    \/ Begin(t) \/ WriteHeader(t) \/ WriteBody(t) \/ Commit(t)
    \/ Rewind(t) \/ Answer(t) \/ Abort(t)

Fault(t) == WakeUp(t) \/ BeginThrows(t) \/ WriteFails(t) \/ CommitFails(t)

Next ==
    \/ \E t \in Threads : Body(t) \/ Step(t) \/ Fault(t)
    \/ PowerLoss

Spec == Init /\ [][Next]_vars

(* Every thread that can run does.                                          *)
FairSpec == Spec /\ \A t \in Threads : WF_vars(Step(t))

-----------------------------------------------------------------------------
(* The mail m is in the first n fragments of the file, in one piece.        *)
InFile(m, n) ==
    \E i \in 1 .. n :
        /\ i + 1 <= n
        /\ mbox[i] = Fragment(m, "header", TRUE)
        /\ mbox[i + 1] = Fragment(m, "body", TRUE)

(* A mail answered with 250 is in the file whole, and stays there when the  *)
(* power fails: the thread that answers was not the one that wrote it, and  *)
(* other mails of its transaction may have failed.                          *)
AcknowledgedIsStored == \A m \in acked : InFile(m, synced)

(* The entries in the two queues are on the stacks of threads that have not *)
(* left execute_piggyback, and each is in one queue, once: nobody writes to *)
(* an entry that is gone.                                                   *)
EntriesAlive ==
    /\ \A t \in Threads : pc[t] \in {"idle", "answer", "abort"} =>
          /\ t \notin Waiting
          /\ \A u \in Threads : t \notin Batch(u)
    /\ \A t, u \in Threads :
          /\ Batch(t) \cap Waiting = {}
          /\ t # u => Batch(t) \cap Batch(u) = {}
    /\ \A i, j \in 1 .. Len(q_waiting) : q_waiting[i] = q_waiting[j] => i = j

(* No mail is written twice.                                                *)
WrittenOnce ==
    \A i, j \in 1 .. Len(mbox) :
        mbox[i].mail = mbox[j].mail /\ mbox[i].part = mbox[j].part => i = j

(* The second fragment of a mail follows the first one: transactions do not *)
(* mix in the file.                                                         *)
MailsInOnePiece ==
    \A i \in 1 .. Len(mbox) : mbox[i].part = "body" =>
        i > 1 /\ mbox[i - 1] = Fragment(mbox[i].mail, "header", TRUE)

(* The mail server implements StableStore: a mail is in hand until its      *)
(* thread answers, and durable when both fragments are among the synced.    *)
InHand == [t \in Threads |-> IF pc[t] = "idle" THEN {} ELSE {Mail(t)}]
Taken == UNION {{<<t, k>> : k \in 1 .. count[t]} : t \in Threads}
Durable == {m \in {mbox[i].mail : i \in DOMAIN mbox} : InFile(m, synced)}

Store == INSTANCE StableStore WITH
    Clients <- Threads, Mails <- Threads \X (1 .. MaxMails),
    hand <- InHand, taken <- Taken, stored <- Durable

(* Whichever thread writes, syncs or fails, and whenever the process ends   *)
(* or the power fails: what a sync has made durable stays so, and a thread  *)
(* acknowledges its own mail, once, and only when it is.                    *)
ImplementsStore == Store!Spec

(* Every mail is answered, or the process ends: no wakeup is lost.  A thread *)
(* that finds the queue full may be overtaken as often as others have mails. *)
Answered == \A t \in Threads : pc[t] = "lock" ~> pc[t] = "idle"
=============================================================================

--------------------------- MODULE MailStore_proofs ---------------------------
(***************************************************************************)
(* Proofs about MailStore, for any number of threads, mails and crashes and *)
(* any piggyback_max.                                                      *)
(***************************************************************************)
EXTENDS MailStore, SequenceTheorems, TLAPS

Leading == {"begin", "header", "body", "rewind", "throwing"}
Asleep == {"lock", "wait"}

Distinct(s) == \A i, j \in 1 .. Len(s) : s[i] = s[j] => i = j

(* The entries in the queues belong to threads that are inside.             *)
WaitingInv ==
    \A t \in Waiting :
        pc[t] \in Asleep /\ queued[t] /\ ~done[t] /\ ~success[t] /\ ~written[t]

BatchInv ==
    \A t \in Threads : \A u \in Batch(t) :
        /\ pc[t] \in Leading
        /\ u = t \/ pc[u] \in Asleep
        /\ queued[u] /\ ~done[u] /\ u \notin Waiting
        /\ pc[t] # "rewind" => ~success[u]

(* One transaction executes at most, and its leader is in it.               *)
LeaderInv ==
    /\ \A t \in Threads : pc[t] \in Leading => executing_flag /\ t \in Batch(t)
    /\ \A t, u \in Threads : pc[t] \in Leading /\ pc[u] \in Leading => t = u

OnceInv == Distinct(q_waiting) /\ \A t \in Threads : Distinct(q_executing[t])

(* A queued entry that is not done is in a queue.                           *)
QueuedInv ==
    \A t \in Threads : pc[t] \in Asleep /\ queued[t] /\ ~done[t] =>
        t \in Waiting \/ \E u \in Threads : t \in Batch(u)

Unqueued ==
    \A t \in Threads : pc[t] \in Asleep /\ ~queued[t] =>
        ~done[t] /\ ~success[t] /\ ~written[t]

QueueInv == WaitingInv /\ BatchInv /\ LeaderInv /\ OnceInv /\ QueuedInv /\ Unqueued

(* Where the leader is in its batch.                                        *)
PlaceInv ==
    \A t \in Threads :
        /\ pc[t] \in {"begin", "header"} => at[t] \in 1 .. Len(q_executing[t]) + 1
        /\ pc[t] = "body" =>
              /\ at[t] \in 1 .. Len(q_executing[t])
              /\ Len(mbox) > 0
              /\ mbox[Len(mbox)] = Fragment(Mail(Proc(t)), "header", TRUE)

(* Which mails are not in the file yet.                                     *)
Absent(t) == \A i \in 1 .. Len(mbox) : mbox[i].mail # Mail(t)
HeaderOnly(t) ==
    \A i \in 1 .. Len(mbox) : mbox[i].mail = Mail(t) => i = Len(mbox) /\ mbox[i].part = "header"

AbsentInv ==
    /\ \A i \in 1 .. Len(mbox) :
          mbox[i].mail[1] \in Threads /\ mbox[i].mail[2] <= count[mbox[i].mail[1]]
    /\ \A t \in Threads : pc[t] \in Asleep /\ ~queued[t] => Absent(t)
    /\ \A t \in Waiting : Absent(t)
    /\ \A t \in Threads : pc[t] \in {"begin", "header", "body"} =>
          \A j \in at[t] .. Len(q_executing[t]) :
              IF pc[t] = "body" /\ j = at[t]
              THEN HeaderOnly(q_executing[t][j]) ELSE Absent(q_executing[t][j])

StoredInv ==
    /\ \A t \in Threads : written[t] => InFile(Mail(t), Len(mbox))
    /\ \A t \in Threads : written[t] /\ success[t] => InFile(Mail(t), synced)

FileInv == PlaceInv /\ AbsentInv /\ StoredInv
FileProps == WrittenOnce /\ MailsInOnePiece /\ AcknowledgedIsStored
IInv == TypeOK /\ QueueInv /\ FileInv /\ FileProps

-----------------------------------------------------------------------------
(* The queue and the file.                                                  *)

LEMMA Queued ==
    ASSUME TypeOK, NEW t \in Threads
    PROVE  LET s == Queue(t) IN
           /\ s \in Seq(Threads)
           /\ {s[i] : i \in 1 .. Len(s)} = Waiting \cup (IF Queues(t) THEN {t} ELSE {})
           /\ Distinct(q_waiting) /\ (Queues(t) => t \notin Waiting) => Distinct(s)
<1> DEFINE s == Queue(t)
<1>0. q_waiting \in Seq(Threads)
  BY DEF TypeOK
<1>1. CASE ~Queues(t)
  BY <1>0, <1>1 DEF Queue, Waiting
<1>2. CASE Queues(t)
  <2>1. /\ s = Append(q_waiting, t) /\ Len(s) = Len(q_waiting) + 1
        /\ s[Len(s)] = t /\ \A i \in 1 .. Len(q_waiting) : s[i] = q_waiting[i]
        /\ Len(q_waiting) \in Nat /\ s \in Seq(Threads)
    BY <1>0, <1>2 DEF Queue
  <2>2. {s[i] : i \in 1 .. Len(s)} = Waiting \cup {t}
    BY <2>1 DEF Waiting
  <2>3. ASSUME Distinct(q_waiting), t \notin Waiting PROVE Distinct(s)
    BY <2>1, <2>3 DEF Distinct, Waiting
  <2> QED
    BY <1>2, <2>1, <2>2, <2>3
<1> QED
  BY <1>1, <1>2

(* A fragment is added to the file, or the file is cut.                     *)
Added(f) ==
    /\ Len(mbox') = Len(mbox) + 1 /\ mbox'[Len(mbox) + 1] = f
    /\ \A i \in 1 .. Len(mbox) : mbox'[i] = mbox[i]

LEMMA Adding ==
    ASSUME TypeOK, NEW f \in Fragments, mbox' = Append(mbox, f)
    PROVE  /\ Added(f) /\ mbox' \in Seq(Fragments) /\ Len(mbox) \in Nat
           /\ synced \in 0 .. Len(mbox')
<1>1. mbox \in Seq(Fragments) /\ Len(mbox) \in Nat /\ synced \in 0 .. Len(mbox)
  BY DEF TypeOK
<1>2. Added(f) /\ mbox' \in Seq(Fragments)
  BY <1>1 DEF Added
<1> QED
  BY <1>1, <1>2 DEF Added

LEMMA Cutting ==
    ASSUME TypeOK, NEW n \in 0 .. Len(mbox), mbox' = SubSeq(mbox, 1, n)
    PROVE  /\ mbox' \in Seq(Fragments) /\ Len(mbox') = n
           /\ \A i \in 1 .. n : mbox'[i] = mbox[i]
<1>1. mbox \in Seq(Fragments) /\ Len(mbox) \in Nat
  BY DEF TypeOK
<1>2. \A i \in 1 .. n : mbox[i] \in Fragments
  BY <1>1, ElementOfSeq
<1> QED
  BY <1>1, <1>2, SubSeqProperties

LEMMA TypeOfFragments ==
    ASSUME TypeOK, NEW u \in Threads, NEW p \in {"header", "body"}, NEW w \in BOOLEAN
    PROVE  Fragment(Mail(u), p, w) \in Fragments
  BY DEF TypeOK, Fragment, Fragments, Mail, Mails

(* The thread whose mail the leader t has before it.                        *)
LEMMA TheProc ==
    ASSUME TypeOK, QueueInv, PlaceInv, NEW t \in Threads,
           \/ pc[t] = "body"
           \/ pc[t] = "header" /\ at[t] <= Len(q_executing[t])
    PROVE  /\ at[t] \in 1 .. Len(q_executing[t]) /\ Len(q_executing[t]) \in Nat
           /\ Proc(t) \in Threads /\ Proc(t) \in Batch(t)
           /\ queued[Proc(t)] /\ ~done[Proc(t)] /\ Proc(t) \notin Waiting
           /\ ~success[Proc(t)]
           /\ \A j \in 1 .. Len(q_executing[t]) :
                 /\ q_executing[t][j] \in Threads
                 /\ j # at[t] => q_executing[t][j] # Proc(t)
<1>1. q_executing[t] \in Seq(Threads) /\ at[t] \in Nat
  BY DEF TypeOK
<1>0. Len(q_executing[t]) \in Nat
  BY <1>1, LenProperties
<1>2. at[t] \in 1 .. Len(q_executing[t])
  <2>1. CASE pc[t] = "body"
    BY <2>1 DEF PlaceInv
  <2>2. CASE pc[t] = "header" /\ at[t] <= Len(q_executing[t])
    <3>1. at[t] \in 1 .. Len(q_executing[t]) + 1
      BY <2>2 DEF PlaceInv
    <3> QED
      BY <1>0, <2>2, <3>1
  <2> QED
    BY <2>1, <2>2
<1>3. \A j \in 1 .. Len(q_executing[t]) : q_executing[t][j] \in Threads
  BY <1>1, ElementOfSeq
<1>4. Proc(t) \in Batch(t) /\ Proc(t) \in Threads
  BY <1>2, <1>3 DEF Proc, Batch
<1>5. \A j \in 1 .. Len(q_executing[t]) : j # at[t] => q_executing[t][j] # Proc(t)
  BY <1>2 DEF QueueInv, OnceInv, Distinct, Proc
<1> QED
  BY <1>0, <1>2, <1>3, <1>4, <1>5 DEF QueueInv, BatchInv

-----------------------------------------------------------------------------
(* Types.                                                                   *)

LEMMA Fresh ==
    /\ Idle \in [Threads -> Places] /\ Never \in [Threads -> BOOLEAN]
    /\ NoBatch \in [Threads -> Seq(Threads)] /\ First \in [Threads -> Nat]
    /\ [t \in Threads |-> 0] \in [Threads -> Nat] /\ <<>> \in Seq(Threads)
<1>1. <<>> \in Seq(Threads)
  OBVIOUS
<1> QED
  BY <1>1 DEF Idle, Never, NoBatch, First, Places

LEMMA TypeInit == Init => TypeOK
<1> SUFFICES ASSUME Init PROVE TypeOK
  OBVIOUS
<1>1. <<>> \in Seq(Fragments) /\ Len(<<>>) = 0
  OBVIOUS
<1>2. mbox \in Seq(Fragments) /\ synced \in 0 .. Len(mbox)
  BY <1>1 DEF Init
<1>3. /\ pc \in [Threads -> Places] /\ count \in [Threads -> Nat]
      /\ queued \in [Threads -> BOOLEAN] /\ written \in [Threads -> BOOLEAN]
      /\ done \in [Threads -> BOOLEAN] /\ success \in [Threads -> BOOLEAN]
  BY Fresh DEF Init
<1>4. /\ q_waiting \in Seq(Threads) /\ executing_flag \in BOOLEAN
      /\ q_executing \in [Threads -> Seq(Threads)] /\ at \in [Threads -> Nat]
      /\ file_open \in BOOLEAN
  BY Fresh DEF Init
<1>5. /\ acked \in SUBSET Mails /\ crashes \in 0 .. MaxCrashes
      /\ piggyback_max \in PiggybackSizes
  BY BoundsAssumption DEF Init
<1> QED
  BY <1>2, <1>3, <1>4, <1>5 DEF TypeOK

LEMMA RestartType ==
    ASSUME TypeOK, NEW n \in synced .. Len(mbox), Restart(n), crashes' \in 0 .. MaxCrashes
    PROVE  TypeOK'
<1>1. n \in 0 .. Len(mbox) /\ synced \in 0 .. n
  BY DEF TypeOK
<1>2. mbox' \in Seq(Fragments) /\ Len(mbox') = n
  BY <1>1, Cutting DEF Restart
<1> QED
  BY <1>1, <1>2, Fresh DEF TypeOK, Restart

LEMMA TypeStep == ASSUME TypeOK, QueueInv, PlaceInv, [Next]_vars PROVE TypeOK'
<1> USE DEF entryVars, queueVars, fileVars
<1>1. ASSUME NEW t \in Threads, Body(t) PROVE TypeOK'
  BY <1>1 DEF TypeOK, Body, Places
<1>2. ASSUME NEW t \in Threads, Return(t) PROVE TypeOK'
  BY <1>2 DEF TypeOK, Return, Places
<1>3. ASSUME NEW t \in Threads, Lead(t) PROVE TypeOK'
  <2>1. Queue(t) \in Seq(Threads) /\ <<>> \in Seq(Threads)
    BY Queued
  <2> QED
    BY <1>3, <2>1 DEF TypeOK, Lead, Places, AfterSwap
<1>4. ASSUME NEW t \in Threads, Wait(t) PROVE TypeOK'
  <2>1. Queue(t) \in Seq(Threads) /\ IsQueued(t) \in BOOLEAN
    BY Queued DEF IsQueued, TypeOK, Queues
  <2> QED
    BY <1>4, <2>1 DEF TypeOK, Wait, Places
<1>5. ASSUME NEW t \in Threads, WakeUp(t) PROVE TypeOK'
  BY <1>5 DEF TypeOK, WakeUp, Places
<1>6. ASSUME NEW t \in Threads, Begin(t) PROVE TypeOK'
  BY <1>6 DEF TypeOK, Begin, Places, Opened
<1>7. ASSUME NEW t \in Threads, BeginThrows(t) PROVE TypeOK'
  BY <1>7 DEF TypeOK, BeginThrows, Places
<1>8. ASSUME NEW t \in Threads, WriteHeader(t) PROVE TypeOK'
  <2>1. Proc(t) \in Threads
    BY <1>8, TheProc DEF WriteHeader
  <2> DEFINE f == Fragment(Mail(Proc(t)), "header", TRUE)
  <2>3. f \in Fragments /\ mbox' = Append(mbox, f)
    BY <1>8, <2>1, TypeOfFragments DEF WriteHeader
  <2> HIDE DEF f
  <2>2. mbox' \in Seq(Fragments) /\ synced \in 0 .. Len(mbox')
    BY <2>3, Adding
  <2> QED
    BY <1>8, <2>2 DEF TypeOK, WriteHeader, Places
<1>9. ASSUME NEW t \in Threads, WriteBody(t) PROVE TypeOK'
  <2>1. Proc(t) \in Threads
    BY <1>9, TheProc DEF WriteBody
  <2> DEFINE f == Fragment(Mail(Proc(t)), "body", TRUE)
  <2>3. f \in Fragments /\ mbox' = Append(mbox, f)
    BY <1>9, <2>1, TypeOfFragments DEF WriteBody
  <2> HIDE DEF f
  <2>2. mbox' \in Seq(Fragments) /\ synced \in 0 .. Len(mbox')
    BY <2>3, Adding
  <2>6. written \in [Threads -> BOOLEAN] /\ written' = [written EXCEPT ![Proc(t)] = TRUE]
    BY <1>9 DEF TypeOK, WriteBody
  <2>7. written' \in [Threads -> BOOLEAN]
    BY <2>6
  <2>8. at' \in [Threads -> Nat] /\ pc' \in [Threads -> Places]
    BY <1>9 DEF TypeOK, WriteBody, Places
  <2>5. UNCHANGED <<piggyback_max, count, queued, done, success, q_waiting, executing_flag,
                    q_executing, file_open, synced, acked, crashes>>
    BY <1>9 DEF WriteBody
  <2> QED
    BY <2>2, <2>5, <2>7, <2>8 DEF TypeOK
<1>10. ASSUME NEW t \in Threads, WriteFails(t) PROVE TypeOK'
  <2>1. Proc(t) \in Threads /\ pc[t] \in {"header", "body"}
    BY <1>10, TheProc DEF WriteFails
  <2>2. CASE mbox' = mbox
    BY <1>10, <2>2 DEF TypeOK, WriteFails, Places
  <2>3. CASE mbox' = Append(mbox, Fragment(Mail(Proc(t)), pc[t], FALSE))
    <3> DEFINE f == Fragment(Mail(Proc(t)), pc[t], FALSE)
    <3>2. f \in Fragments
      BY <2>1, TypeOfFragments
    <3> HIDE DEF f
    <3>1. mbox' \in Seq(Fragments) /\ synced \in 0 .. Len(mbox')
      BY <2>3, <3>2, Adding DEF f
    <3> QED
      BY <1>10, <3>1 DEF TypeOK, WriteFails, Places
  <2> QED
    BY <1>10, <2>2, <2>3 DEF WriteFails
<1>11. ASSUME NEW t \in Threads, Commit(t) PROVE TypeOK'
  <2>1. success' \in [Threads -> BOOLEAN] /\ pc' \in [Threads -> Places]
    BY <1>11 DEF TypeOK, Commit, Places
  <2>2. synced' \in 0 .. Len(mbox') /\ mbox' = mbox
    BY <1>11 DEF TypeOK, Commit
  <2> QED
    BY <1>11, <2>1, <2>2 DEF TypeOK, Commit
<1>12. ASSUME NEW t \in Threads, CommitFails(t) PROVE TypeOK'
  BY <1>12 DEF TypeOK, CommitFails, Places, CommitSuccess
<1>13. ASSUME NEW t \in Threads, Rewind(t) PROVE TypeOK'
  <2>1. done' \in [Threads -> BOOLEAN]
    BY <1>13 DEF TypeOK, Rewind
  <2>2. pc' \in [Threads -> Places]
    BY <1>13 DEF TypeOK, Rewind, Places, Notified
  <2>3. q_executing' \in [Threads -> Seq(Threads)]
    BY <1>13, Fresh DEF TypeOK, Rewind
  <2> QED
    BY <1>13, <2>1, <2>2, <2>3 DEF TypeOK, Rewind
<1>14. ASSUME NEW t \in Threads, Answer(t) PROVE TypeOK'
  BY <1>14 DEF TypeOK, Answer, Places, Mail, Mails
<1>15. ASSUME NEW t \in Threads, Abort(t) PROVE TypeOK'
  <2>1. Len(mbox) \in synced .. Len(mbox)
    BY DEF TypeOK
  <2>2. crashes' \in 0 .. MaxCrashes
    BY <1>15 DEF TypeOK, Abort
  <2> QED
    BY <1>15, <2>1, <2>2, RestartType DEF Abort
<1>16. CASE PowerLoss
  BY <1>16, RestartType, BoundsAssumption DEF TypeOK, PowerLoss
<1>17. CASE UNCHANGED vars
  BY <1>17 DEF TypeOK, vars
<1> QED
  BY <1>1, <1>2, <1>3, <1>4, <1>5, <1>6, <1>7, <1>8, <1>9, <1>10, <1>11, <1>12, <1>13,
     <1>14, <1>15, <1>16, <1>17 DEF Next, Step, Fault

-----------------------------------------------------------------------------
(* The queues.                                                              *)

LEMMA QueueInit == Init => QueueInv
  BY DEF Init, QueueInv, WaitingInv, BatchInv, LeaderInv, OnceInv, QueuedInv, Unqueued,
         Leading, Asleep, Distinct, Waiting, Batch, Idle, Never, NoBatch

LEMMA RestartQueue == ASSUME NEW n, Restart(n) PROVE QueueInv'
<1>1. /\ Waiting' = {} /\ q_waiting' = <<>>
      /\ \A t \in Threads : /\ Batch(t)' = {} /\ q_executing'[t] = <<>>
                           /\ pc'[t] = "idle"
  BY DEF Restart, Waiting, Batch, Idle, NoBatch
<1>2. WaitingInv' /\ BatchInv' /\ LeaderInv' /\ QueuedInv' /\ Unqueued'
  BY <1>1 DEF WaitingInv, BatchInv, LeaderInv, QueuedInv, Unqueued, Leading, Asleep
<1>3. OnceInv'
  BY <1>1 DEF OnceInv, Distinct
<1> QED
  BY <1>2, <1>3 DEF QueueInv

(* The sets of the queues, and what is known of their threads.              *)
LEMMA Members ==
    ASSUME TypeOK, QueueInv
    PROVE  /\ Waiting \subseteq Threads
           /\ \A u \in Threads : Batch(u) \subseteq Threads
           /\ \A u \in Threads : pc[u] \notin Leading => Batch(u) = {}
           /\ \A t, u \in Threads : Batch(t) # {} /\ Batch(u) # {} => t = u
<1>3. q_waiting \in Seq(Threads) /\ \A u \in Threads : q_executing[u] \in Seq(Threads)
  BY DEF TypeOK
<1>4. Waiting \subseteq Threads
  BY <1>3, ElementOfSeq DEF Waiting
<1>5. \A u \in Threads : Batch(u) \subseteq Threads
  BY <1>3, ElementOfSeq DEF Batch
<1>2. \A u \in Threads : pc[u] \notin Leading => Batch(u) = {}
  BY DEF QueueInv, BatchInv
<1> QED
  BY <1>2, <1>4, <1>5 DEF QueueInv, LeaderInv

(* Steps that leave the queues and the entries alone, with the threads where *)
(* they were as far as the queues go.                                       *)
Kept(t, p) ==
    /\ UNCHANGED <<queued, done, q_waiting, executing_flag, q_executing>>
    /\ pc' = [pc EXCEPT ![t] = p] /\ pc[t] # "rewind"
    /\ \/ pc[t] \in Leading /\ p \in Leading
       \/ pc[t] \in Asleep /\ p \in Asleep
       \/ pc[t] \in {"idle", "answer", "abort"} /\ p \in {"idle", "answer", "abort"}
    /\ \A u \in Threads :
          /\ success'[u] = success[u] \/ (u \in Batch(t) /\ p = "rewind")
          /\ written'[u] = written[u] \/ u \in Batch(t)

LEMMA QueueKept ==
    ASSUME TypeOK, QueueInv, NEW t \in Threads, NEW p, Kept(t, p)
    PROVE  QueueInv'
<1>0. pc \in [Threads -> Places] /\ Waiting' = Waiting /\ \A u : Batch(u)' = Batch(u)
  <2>1. q_waiting' = q_waiting /\ q_executing' = q_executing
    BY DEF Kept
  <2>2. Waiting' = Waiting
    BY <2>1 DEF Waiting
  <2>3. \A u : Batch(u)' = Batch(u)
    BY <2>1 DEF Batch
  <2> QED
    BY <2>2, <2>3 DEF TypeOK
<1>1. Waiting \subseteq Threads /\ \A u \in Threads : Batch(u) \subseteq Threads
  BY Members
<1>10. /\ pc' = [pc EXCEPT ![t] = p] /\ pc[t] # "rewind"
       /\ UNCHANGED <<queued, done, q_waiting, executing_flag, q_executing>>
  BY DEF Kept
<1>2. \A u \in Threads : /\ pc'[u] \in Leading <=> pc[u] \in Leading
                         /\ pc'[u] \in Asleep <=> pc[u] \in Asleep
                         /\ u # t => pc'[u] = pc[u]
  BY <1>0, <1>10 DEF Kept, Leading, Asleep
<1>9. \A u \in Threads : u \in Batch(t) => queued[u] /\ u \notin Waiting
  BY DEF QueueInv, BatchInv
<1>3. WaitingInv'
  BY <1>0, <1>1, <1>2, <1>9, <1>10 DEF Kept, QueueInv, WaitingInv
<1>4. BatchInv'
  <2> SUFFICES ASSUME NEW v \in Threads, NEW u \in Batch(v)
      PROVE  /\ pc'[v] \in Leading /\ (u = v \/ pc'[u] \in Asleep)
             /\ queued[u] /\ ~done[u] /\ u \notin Waiting
             /\ pc'[v] # "rewind" => ~success'[u]
    BY <1>0, <1>10 DEF BatchInv
  <2>1. /\ pc[v] \in Leading /\ (u = v \/ pc[u] \in Asleep)
        /\ queued[u] /\ ~done[u] /\ u \notin Waiting /\ u \in Threads
        /\ pc[v] # "rewind" => ~success[u]
    BY <1>1 DEF QueueInv, BatchInv
  <2>2. CASE v = t
    <3>1. pc'[v] # "rewind" => ~success'[u]
      BY <2>1, <2>2, <1>0, <1>10 DEF Kept
    <3> QED
      BY <2>1, <3>1, <1>2
  <2>3. CASE v # t
    <3>1. pc'[v] = pc[v]
      BY <2>3, <1>2
    <3>2. pc[t] \notin Leading
      BY <2>1, <2>3 DEF QueueInv, LeaderInv
    <3>3. u \notin Batch(t)
      BY <3>2 DEF QueueInv, BatchInv
    <3>4. success'[u] = success[u]
      BY <2>1, <3>3 DEF Kept
    <3> QED
      BY <1>2, <2>1, <3>1, <3>4
  <2> QED
    BY <2>2, <2>3
<1>5. LeaderInv'
  BY <1>0, <1>2, <1>10 DEF QueueInv, LeaderInv
<1>6. OnceInv'
  BY <1>10 DEF QueueInv, OnceInv, Distinct
<1>7. QueuedInv'
  BY <1>0, <1>2, <1>10 DEF QueueInv, QueuedInv
<1>8. Unqueued'
  BY <1>2, <1>9, <1>10 DEF Kept, QueueInv, Unqueued
<1> QED
  BY <1>3, <1>4, <1>5, <1>6, <1>7, <1>8 DEF QueueInv

LEMMA BodyQueue == ASSUME TypeOK, QueueInv, NEW t \in Threads, Body(t) PROVE QueueInv'
<1> USE DEF queueVars
<1>0. /\ pc \in [Threads -> Places] /\ queued \in [Threads -> BOOLEAN]
      /\ done \in [Threads -> BOOLEAN] /\ success \in [Threads -> BOOLEAN]
      /\ written \in [Threads -> BOOLEAN]
  BY DEF TypeOK
<1>1. Waiting' = Waiting /\ \A u : Batch(u)' = Batch(u)
  BY DEF Body, Waiting, Batch
<1>2. t \notin Waiting /\ \A u \in Threads : t \notin Batch(u)
  BY DEF Body, QueueInv, WaitingInv, BatchInv, Leading, Asleep
<1>3. /\ pc' = [pc EXCEPT ![t] = "lock"] /\ queued' = [queued EXCEPT ![t] = FALSE]
      /\ done' = [done EXCEPT ![t] = FALSE] /\ success' = [success EXCEPT ![t] = FALSE]
      /\ written' = [written EXCEPT ![t] = FALSE] /\ pc[t] = "idle"
      /\ UNCHANGED <<q_waiting, executing_flag, q_executing>>
  BY DEF Body
<1>4. \A u \in Threads : u # t =>
         /\ pc'[u] = pc[u] /\ queued'[u] = queued[u] /\ done'[u] = done[u]
         /\ success'[u] = success[u] /\ written'[u] = written[u]
  BY <1>0, <1>3
<1>5. ~queued'[t] /\ ~done'[t] /\ ~success'[t] /\ ~written'[t] /\ pc'[t] = "lock"
  BY <1>0, <1>3
<1>6. WaitingInv' /\ BatchInv' /\ LeaderInv' /\ QueuedInv' /\ Unqueued'
  BY <1>1, <1>2, <1>3, <1>4, <1>5, Members
     DEF QueueInv, WaitingInv, BatchInv, LeaderInv, QueuedInv, Unqueued, Leading, Asleep
<1>7. OnceInv'
  BY <1>3 DEF QueueInv, OnceInv, Distinct
<1> QED
  BY <1>6, <1>7 DEF QueueInv

LEMMA ReturnQueue == ASSUME TypeOK, QueueInv, NEW t \in Threads, Return(t) PROVE QueueInv'
<1> USE DEF queueVars, entryVars
<1>0. pc \in [Threads -> Places] /\ queued \in [Threads -> BOOLEAN] /\ done \in [Threads -> BOOLEAN]
  BY DEF TypeOK
<1>1. Waiting' = Waiting /\ \A u : Batch(u)' = Batch(u)
  BY DEF Return, Waiting, Batch
<1>2. /\ pc' = [pc EXCEPT ![t] = "answer"] /\ pc[t] = "lock" /\ done[t]
      /\ UNCHANGED <<queued, done, success, written, q_waiting, executing_flag, q_executing>>
  BY DEF Return, IsDone
<1>3. t \notin Waiting /\ \A u \in Threads : t \notin Batch(u)
  BY <1>2 DEF QueueInv, WaitingInv, BatchInv
<1>4. pc'[t] = "answer" /\ \A u \in Threads : u # t => pc'[u] = pc[u]
  BY <1>0, <1>2
<1>5. WaitingInv' /\ BatchInv' /\ LeaderInv' /\ QueuedInv' /\ Unqueued'
  BY <1>1, <1>2, <1>3, <1>4, Members
     DEF QueueInv, WaitingInv, BatchInv, LeaderInv, QueuedInv, Unqueued, Leading, Asleep
<1>6. OnceInv'
  BY <1>2 DEF QueueInv, OnceInv, Distinct
<1> QED
  BY <1>5, <1>6 DEF QueueInv

LEMMA LeadQueue == ASSUME TypeOK, QueueInv, NEW t \in Threads, Lead(t) PROVE QueueInv'
<1> DEFINE s == Queue(t)
<1>0. pc \in [Threads -> Places] /\ queued \in [Threads -> BOOLEAN]
      /\ q_executing \in [Threads -> Seq(Threads)]
  BY DEF TypeOK
<1>1. /\ pc' = [pc EXCEPT ![t] = "begin"] /\ queued' = [queued EXCEPT ![t] = TRUE]
      /\ executing_flag' /\ q_waiting' = <<>>
      /\ q_executing' = [q_executing EXCEPT ![t] = s]
      /\ pc[t] = "lock" /\ IsQueued(t) /\ ~done[t] /\ ~executing_flag
      /\ UNCHANGED <<done, success, written>>
  BY DEF Lead, AfterSwap, IsDone, MayLead
<1>12. \A u \in Threads : q_executing'[u] = IF u = t THEN s ELSE q_executing[u]
  BY <1>0, <1>1
<1>2. Waiting' = {} /\ Batch(t)' = {s[i] : i \in 1 .. Len(s)}
      /\ \A u \in Threads : u # t => Batch(u)' = Batch(u)
  <2> HIDE DEF s
  <2>1. Waiting' = {}
    BY <1>1 DEF Waiting
  <2> QED
    BY <1>12, <2>1 DEF Batch
<1>3. \A u \in Threads : pc[u] \notin Leading /\ Batch(u) = {}
  BY <1>1, Members DEF QueueInv, LeaderInv
<1>4. queued[t] => t \in Waiting
  BY <1>1, <1>3 DEF QueueInv, QueuedInv, Asleep
<1>5. Batch(t)' = Waiting \cup {t}
  BY <1>1, <1>2, <1>4, Queued DEF IsQueued
<1>6. Distinct(s)
  BY Queued DEF QueueInv, OnceInv, WaitingInv, Queues
<1>7. pc'[t] = "begin" /\ queued'[t]
      /\ \A u \in Threads : u # t => pc'[u] = pc[u] /\ queued'[u] = queued[u]
  BY <1>0, <1>1
<1>8. WaitingInv' /\ LeaderInv'
  BY <1>1, <1>2, <1>3, <1>5, <1>7 DEF WaitingInv, LeaderInv, Leading
<1>9. BatchInv'
  <2>1. ~queued[t] => ~success[t]
    BY <1>1 DEF QueueInv, Unqueued, Asleep
  <2>2. \A u \in Waiting \cup {t} :
           /\ queued'[u] /\ ~done'[u] /\ ~success'[u]
           /\ u = t \/ pc'[u] \in Asleep
    BY <1>1, <1>4, <1>7, <2>1, Members DEF QueueInv, WaitingInv
  <2>3. \A v \in Threads : \A u \in Batch(v)' : v = t /\ u \in Waiting \cup {t}
    BY <1>2, <1>3, <1>5
  <2>4. pc'[t] \in Leading /\ Waiting' = {}
    BY <1>2, <1>7 DEF Leading
  <2> SUFFICES ASSUME NEW v \in Threads, NEW u \in Batch(v)'
      PROVE  /\ pc'[v] \in Leading /\ (u = v \/ pc'[u] \in Asleep)
             /\ queued'[u] /\ ~done'[u] /\ u \notin Waiting' /\ ~success'[u]
    BY DEF BatchInv
  <2> QED
    BY <2>2, <2>3, <2>4
<1>10. OnceInv'
  <2>1. Distinct(<<>>)
    BY DEF Distinct
  <2>3. \A u \in Threads : Distinct(q_executing'[u])
    BY <1>6, <1>12 DEF QueueInv, OnceInv
  <2> QED
    BY <1>1, <2>1, <2>3 DEF OnceInv, Distinct
<1>11. QueuedInv' /\ Unqueued'
  BY <1>1, <1>3, <1>5, <1>7 DEF QueueInv, QueuedInv, Unqueued, Asleep
<1> QED
  BY <1>8, <1>9, <1>10, <1>11 DEF QueueInv

LEMMA WaitQueue == ASSUME TypeOK, QueueInv, NEW t \in Threads, Wait(t) PROVE QueueInv'
<1> DEFINE s == Queue(t)
<1>0. pc \in [Threads -> Places] /\ queued \in [Threads -> BOOLEAN]
  BY DEF TypeOK
<1>1. /\ pc' = [pc EXCEPT ![t] = "wait"] /\ queued' = [queued EXCEPT ![t] = IsQueued(t)]
      /\ q_waiting' = s /\ pc[t] = "lock"
      /\ UNCHANGED <<done, success, written, executing_flag, q_executing>>
  BY DEF Wait
<1>2. /\ Waiting' = Waiting \cup (IF Queues(t) THEN {t} ELSE {})
      /\ \A u : Batch(u)' = Batch(u)
  BY <1>1, Queued DEF Waiting, Batch
<1>3. pc'[t] = "wait" /\ (queued'[t] <=> queued[t] \/ Queues(t))
      /\ \A u \in Threads : u # t => pc'[u] = pc[u] /\ queued'[u] = queued[u]
  BY <1>0, <1>1 DEF IsQueued
<1>4. Queues(t) => /\ ~queued[t] /\ ~done[t] /\ ~success[t] /\ ~written[t]
                   /\ \A u \in Threads : t \notin Batch(u)
  BY <1>1 DEF Queues, QueueInv, Unqueued, BatchInv, Asleep
<1>5. WaitingInv' /\ LeaderInv' /\ Unqueued'
  BY <1>1, <1>2, <1>3, <1>4, Members
     DEF QueueInv, WaitingInv, LeaderInv, Unqueued, Leading, Asleep
<1>6. BatchInv'
  BY <1>1, <1>2, <1>3, <1>4, Members DEF QueueInv, BatchInv, Leading, Asleep
<1>7. QueuedInv'
  BY <1>1, <1>2, <1>3, Members DEF QueueInv, QueuedInv, Leading, Asleep
<1>8. OnceInv'
  <2>1. Distinct(s)
    BY Queued DEF QueueInv, OnceInv, WaitingInv, Queues
  <2> QED
    BY <1>1, <2>1 DEF QueueInv, OnceInv, Distinct
<1> QED
  BY <1>5, <1>6, <1>7, <1>8 DEF QueueInv

LEMMA RewindQueue == ASSUME TypeOK, QueueInv, NEW t \in Threads, Rewind(t) PROVE QueueInv'
<1>0. /\ pc \in [Threads -> Places] /\ done \in [Threads -> BOOLEAN]
      /\ q_executing \in [Threads -> Seq(Threads)]
  BY DEF TypeOK
<1>1. /\ pc[t] \in {"rewind", "throwing"} /\ ~executing_flag'
      /\ pc' = Notified([pc EXCEPT ![t] = IF pc[t] = "rewind" THEN "answer" ELSE "abort"])
      /\ done' = [u \in Threads |-> done[u] \/ u \in Batch(t)]
      /\ q_executing' = [q_executing EXCEPT ![t] = <<>>]
      /\ UNCHANGED <<queued, success, written, q_waiting>>
  BY DEF Rewind
<1>2. /\ Waiting' = Waiting /\ Batch(t)' = {}
      /\ \A u \in Threads : u # t => Batch(u)' = Batch(u)
  BY <1>0, <1>1 DEF Waiting, Batch
<1>3. /\ pc'[t] \in {"answer", "abort"}
      /\ \A u \in Threads : u # t => pc'[u] = IF pc[u] = "wait" THEN "lock" ELSE pc[u]
  BY <1>0, <1>1 DEF Notified
<1>4. /\ \A u \in Threads : u # t => pc[u] \notin Leading /\ Batch(u) = {}
      /\ t \in Batch(t) /\ pc[t] \in Leading
  BY <1>1, Members DEF QueueInv, LeaderInv, Leading
<1>5. /\ \A u \in Threads : done'[u] <=> done[u] \/ u \in Batch(t)
      /\ t \notin Waiting
  BY <1>0, <1>1, <1>4 DEF QueueInv, BatchInv
<1>9. \A u \in Threads : u # t =>
         /\ pc'[u] \notin Leading /\ Batch(u)' = {}
         /\ pc'[u] \in Asleep <=> pc[u] \in Asleep
  BY <1>2, <1>3, <1>4 DEF Leading, Asleep
<1>10. WaitingInv'
  BY <1>1, <1>2, <1>4, <1>5, <1>9, Members DEF QueueInv, WaitingInv, BatchInv
<1>11. BatchInv' /\ LeaderInv'
  BY <1>2, <1>3, <1>9 DEF BatchInv, LeaderInv, Leading
<1>12. QueuedInv'
  BY <1>1, <1>2, <1>3, <1>4, <1>5, <1>9 DEF QueueInv, QueuedInv, Asleep
<1>6. WaitingInv' /\ BatchInv' /\ LeaderInv' /\ QueuedInv'
  BY <1>10, <1>11, <1>12
<1>7. Unqueued'
  BY <1>1, <1>3, <1>5 DEF QueueInv, BatchInv, Unqueued, Asleep
<1>8. OnceInv'
  <2>1. \A u \in Threads : q_executing'[u] = IF u = t THEN <<>> ELSE q_executing[u]
    BY <1>0, <1>1
  <2>2. Distinct(<<>>)
    BY DEF Distinct
  <2> QED
    BY <1>1, <2>1, <2>2 DEF QueueInv, OnceInv, Distinct
<1> QED
  BY <1>6, <1>7, <1>8 DEF QueueInv

LEMMA QueueStep == ASSUME TypeOK, QueueInv, PlaceInv, [Next]_vars PROVE QueueInv'
<1> USE DEF entryVars, queueVars, fileVars
<1>1. ASSUME NEW t \in Threads, WakeUp(t) PROVE QueueInv'
  <2>1. Kept(t, "lock")
    BY <1>1 DEF Kept, WakeUp, Asleep
  <2> QED
    BY <2>1, QueueKept
<1>2. ASSUME NEW t \in Threads, Begin(t) PROVE QueueInv'
  <2>1. Kept(t, "header")
    BY <1>2 DEF Kept, Begin, Leading
  <2> QED
    BY <2>1, QueueKept
<1>3. ASSUME NEW t \in Threads, BeginThrows(t) PROVE QueueInv'
  <2>1. Kept(t, "throwing")
    BY <1>3 DEF Kept, BeginThrows, Leading
  <2> QED
    BY <2>1, QueueKept
<1>4. ASSUME NEW t \in Threads, WriteHeader(t) PROVE QueueInv'
  <2>1. Kept(t, "body")
    BY <1>4 DEF Kept, WriteHeader, Leading
  <2> QED
    BY <2>1, QueueKept
<1>5. ASSUME NEW t \in Threads, WriteBody(t) PROVE QueueInv'
  <2>1. Proc(t) \in Batch(t) /\ Proc(t) \in Threads
    BY <1>5, TheProc DEF WriteBody
  <2>2. \A u \in Threads : written'[u] = written[u] \/ u \in Batch(t)
    BY <1>5, <2>1 DEF TypeOK, WriteBody
  <2>3. Kept(t, "header")
    BY <1>5, <2>2 DEF Kept, WriteBody, Leading
  <2> QED
    BY <2>3, QueueKept
<1>6. ASSUME NEW t \in Threads, WriteFails(t) PROVE QueueInv'
  <2>1. Kept(t, "header")
    BY <1>6 DEF Kept, WriteFails, Leading
  <2> QED
    BY <2>1, QueueKept
<1>7. ASSUME NEW t \in Threads, Commit(t) PROVE QueueInv'
  <2>1. \A u \in Threads : success'[u] = success[u] \/ u \in Batch(t)
    BY <1>7 DEF TypeOK, Commit
  <2>2. Kept(t, "rewind")
    BY <1>7, <2>1 DEF Kept, Commit, Leading
  <2> QED
    BY <2>2, QueueKept
<1>8. ASSUME NEW t \in Threads, CommitFails(t) PROVE QueueInv'
  <2>1. Kept(t, "rewind")
    BY <1>8 DEF Kept, CommitFails, CommitSuccess, Leading
  <2> QED
    BY <2>1, QueueKept
<1>9. ASSUME NEW t \in Threads, Answer(t) PROVE QueueInv'
  <2>1. Kept(t, "idle")
    BY <1>9 DEF Kept, Answer
  <2> QED
    BY <2>1, QueueKept
<1>10. ASSUME NEW t \in Threads, Abort(t) PROVE QueueInv'
  BY <1>10, RestartQueue DEF Abort
<1>11. CASE PowerLoss
  BY <1>11, RestartQueue DEF PowerLoss
<1>12. CASE UNCHANGED vars
  <2>1. UNCHANGED <<pc, queued, done, success, written, q_waiting, executing_flag, q_executing>>
    BY <1>12 DEF vars
  <2>2. Waiting' = Waiting /\ \A u : Batch(u)' = Batch(u)
    BY <2>1 DEF Waiting, Batch
  <2> QED
    BY <2>1, <2>2 DEF QueueInv, WaitingInv, BatchInv, LeaderInv, OnceInv, QueuedInv, Unqueued
<1> QED
  BY <1>1, <1>2, <1>3, <1>4, <1>5, <1>6, <1>7, <1>8, <1>9, <1>10, <1>11, <1>12,
     BodyQueue, ReturnQueue, LeadQueue, WaitQueue, RewindQueue DEF Next, Step, Fault

-----------------------------------------------------------------------------
(* The file.                                                                *)

Found(m, n, file) ==
    \E i \in 1 .. n :
        /\ i + 1 <= n
        /\ file[i] = Fragment(m, "header", TRUE)
        /\ file[i + 1] = Fragment(m, "body", TRUE)

LEMMA InFileFound ==
    /\ \A m : InFile(m, Len(mbox)) <=> Found(m, Len(mbox), mbox)
    /\ \A m : InFile(m, synced) <=> Found(m, synced, mbox)
    /\ \A m : InFile(m, Len(mbox))' <=> Found(m, Len(mbox'), mbox')
    /\ \A m : InFile(m, synced)' <=> Found(m, synced', mbox')
  BY DEF InFile, Found

LEMMA FoundKept ==
    ASSUME NEW m, NEW n \in Nat, NEW k \in Nat, n <= k, NEW f, NEW g,
           \A i \in 1 .. n : g[i] = f[i], Found(m, n, f)
    PROVE  Found(m, k, g)
<1>1. PICK i \in 1 .. n : /\ i + 1 <= n
                         /\ f[i] = Fragment(m, "header", TRUE)
                         /\ f[i + 1] = Fragment(m, "body", TRUE)
  BY DEF Found
<1>2. i \in 1 .. k /\ i + 1 <= k /\ i + 1 \in 1 .. n
  BY <1>1
<1>3. g[i] = f[i] /\ g[i + 1] = f[i + 1]
  BY <1>2
<1> QED
  BY <1>1, <1>2, <1>3 DEF Found

LEMMA PlaceOf ==
    ASSUME TypeOK, PlaceInv, NEW t \in Threads, pc[t] \in {"begin", "header", "body"}
    PROVE  /\ q_executing[t] \in Seq(Threads) /\ Len(q_executing[t]) \in Nat
           /\ at[t] \in Nat /\ 1 <= at[t]
           /\ \A j \in at[t] .. Len(q_executing[t]) : q_executing[t][j] \in Threads
<1>1. q_executing[t] \in Seq(Threads) /\ at[t] \in Nat
  BY DEF TypeOK
<1>2. Len(q_executing[t]) \in Nat
  BY <1>1, LenProperties
<1>3. 1 <= at[t]
  <2>1. CASE pc[t] \in {"begin", "header"}
    <3>1. at[t] \in 1 .. Len(q_executing[t]) + 1
      BY <2>1 DEF PlaceInv
    <3> QED
      BY <1>2, <3>1
  <2>2. CASE pc[t] = "body"
    <3>1. at[t] \in 1 .. Len(q_executing[t])
      BY <2>2 DEF PlaceInv
    <3> QED
      BY <1>2, <3>1
  <2> QED
    BY <2>1, <2>2
<1>4. \A j \in at[t] .. Len(q_executing[t]) : q_executing[t][j] \in Threads
  BY <1>1, <1>2, <1>3, ElementOfSeq
<1> QED
  BY <1>1, <1>2, <1>3, <1>4

(* Steps that leave the file alone, and the threads where they were as far  *)
(* as their mails go.                                                       *)
Quiet ==
    /\ UNCHANGED <<count, mbox>>
    /\ \A u \in Threads :
          /\ pc'[u] \in {"begin", "header"} => pc[u] \in {"begin", "header"}
          /\ pc'[u] = "body" => pc[u] = "body"
          /\ pc'[u] \in {"begin", "header", "body"} =>
                at'[u] = at[u] /\ q_executing'[u] = q_executing[u]
          /\ pc'[u] \in Asleep /\ ~queued'[u] => pc[u] \in Asleep /\ ~queued[u]
          /\ u \in Waiting' => u \in Waiting \/ (pc[u] \in Asleep /\ ~queued[u])

LEMMA QuietFile ==
    ASSUME TypeOK, QueueInv, PlaceInv, AbsentInv, WrittenOnce, MailsInOnePiece, Quiet,
           Waiting' \subseteq Threads
    PROVE  PlaceInv' /\ AbsentInv' /\ WrittenOnce' /\ MailsInOnePiece'
<1>1. mbox' = mbox /\ count' = count
  BY DEF Quiet
<1>2. WrittenOnce' /\ MailsInOnePiece'
  BY <1>1 DEF WrittenOnce, MailsInOnePiece
<1>3. \A u \in Threads : /\ Mail(u)' = Mail(u) /\ Absent(u)' = Absent(u)
                         /\ HeaderOnly(u)' = HeaderOnly(u)
  BY <1>1 DEF Mail, Absent, HeaderOnly
<1>4. PlaceInv'
  <2> SUFFICES ASSUME NEW t \in Threads
      PROVE /\ pc'[t] \in {"begin", "header"} => at'[t] \in 1 .. Len(q_executing'[t]) + 1
            /\ pc'[t] = "body" =>
                  /\ at'[t] \in 1 .. Len(q_executing'[t])
                  /\ Len(mbox') > 0
                  /\ mbox'[Len(mbox')] = Fragment(Mail(Proc(t))', "header", TRUE)
    BY DEF PlaceInv
  <2>1. CASE pc'[t] \in {"begin", "header"}
    <3>1. pc[t] \in {"begin", "header"} /\ at'[t] = at[t] /\ q_executing'[t] = q_executing[t]
      BY <2>1 DEF Quiet
    <3> QED
      BY <2>1, <3>1 DEF PlaceInv
  <2>2. CASE pc'[t] = "body"
    <3>1. pc[t] = "body" /\ at'[t] = at[t] /\ q_executing'[t] = q_executing[t]
      BY <2>2 DEF Quiet
    <3>2. Mail(Proc(t))' = Mail(Proc(t))
      BY <1>1, <3>1 DEF Mail, Proc
    <3> QED
      BY <1>1, <2>2, <3>1, <3>2 DEF PlaceInv
  <2> QED
    BY <2>1, <2>2
<1>5. AbsentInv'
  <2>1. \A i \in 1 .. Len(mbox') :
           mbox'[i].mail[1] \in Threads /\ mbox'[i].mail[2] <= count'[mbox'[i].mail[1]]
    BY <1>1 DEF AbsentInv
  <2>2. \A t \in Threads : pc'[t] \in Asleep /\ ~queued'[t] => Absent(t)'
    BY <1>3 DEF Quiet, AbsentInv
  <2>3. \A t \in Waiting' : Absent(t)'
    BY <1>3 DEF Quiet, AbsentInv
  <2>4. ASSUME NEW t \in Threads, pc'[t] \in {"begin", "header", "body"},
               NEW j \in at'[t] .. Len(q_executing'[t])
        PROVE  IF pc'[t] = "body" /\ j = at'[t]
               THEN HeaderOnly(q_executing[t][j])' ELSE Absent(q_executing[t][j])'
    <3>1. /\ pc[t] \in {"begin", "header", "body"} /\ (pc'[t] = "body" <=> pc[t] = "body")
          /\ at'[t] = at[t] /\ q_executing'[t] = q_executing[t]
      BY <2>4 DEF Quiet
    <3>4. IF pc[t] = "body" /\ j = at[t]
          THEN HeaderOnly(q_executing[t][j]) ELSE Absent(q_executing[t][j])
      BY <2>4, <3>1 DEF AbsentInv
    <3>5. /\ Absent(q_executing[t][j])' = Absent(q_executing[t][j])
          /\ HeaderOnly(q_executing[t][j])' = HeaderOnly(q_executing[t][j])
      BY <1>1, <3>1 DEF Mail, Absent, HeaderOnly
    <3> QED
      BY <3>1, <3>4, <3>5
  <2> QED
    BY <2>1, <2>2, <2>3, <2>4 DEF AbsentInv
<1> QED
  BY <1>2, <1>4, <1>5

(* A mail is begun: those of its thread in the file are older.              *)
LEMMA BodyFile ==
    ASSUME TypeOK, QueueInv, FileInv, WrittenOnce, MailsInOnePiece, NEW t \in Threads, Body(t)
    PROVE  PlaceInv' /\ AbsentInv' /\ WrittenOnce' /\ MailsInOnePiece'
<1> USE DEF queueVars, fileVars
<1>1. /\ pc[t] = "idle" /\ pc' = [pc EXCEPT ![t] = "lock"]
      /\ count' = [count EXCEPT ![t] = @ + 1] /\ queued' = [queued EXCEPT ![t] = FALSE]
      /\ UNCHANGED <<mbox, at, q_executing, q_waiting>>
  BY DEF Body
<1>2. \A u \in Threads : u # t => /\ pc'[u] = pc[u] /\ count'[u] = count[u]
                                  /\ queued'[u] = queued[u]
  BY <1>1 DEF TypeOK
<1>3. pc'[t] = "lock" /\ count'[t] = count[t] + 1 /\ count \in [Threads -> Nat]
  BY <1>1 DEF TypeOK
<1>4. \A u \in Threads : u # t => /\ Mail(u)' = Mail(u) /\ Absent(u)' = Absent(u)
                                  /\ HeaderOnly(u)' = HeaderOnly(u)
  BY <1>1, <1>2 DEF Mail, Absent, HeaderOnly
<1>5. Absent(t)'
  <2> SUFFICES ASSUME NEW i \in 1 .. Len(mbox) PROVE mbox[i].mail # <<t, count'[t]>>
    BY <1>1 DEF Absent, Mail
  <2>1. mbox[i].mail[1] \in Threads /\ mbox[i].mail[2] <= count[mbox[i].mail[1]]
    BY DEF FileInv, AbsentInv
  <2>2. CASE mbox[i].mail = <<t, count'[t]>>
    BY <1>3, <2>1, <2>2
  <2> QED
    BY <2>2
<1>6. WrittenOnce' /\ MailsInOnePiece'
  BY <1>1 DEF WrittenOnce, MailsInOnePiece
<1>7. Waiting' = Waiting /\ Waiting \subseteq Threads /\ t \notin Waiting
      /\ \A u \in Threads : t \notin Batch(u)
  BY <1>1, Members DEF Waiting, QueueInv, WaitingInv, BatchInv, Leading, Asleep
<1>8. ASSUME NEW u \in Threads, pc'[u] \in {"begin", "header", "body"}
      PROVE  /\ u # t /\ pc[u] = pc'[u]
             /\ \A j \in at[u] .. Len(q_executing[u]) :
                   q_executing[u][j] \in Threads \ {t}
  <2>1. u # t /\ pc[u] = pc'[u]
    BY <1>2, <1>3, <1>8
  <2>2. /\ q_executing[u] \in Seq(Threads) /\ Len(q_executing[u]) \in Nat
        /\ at[u] \in Nat /\ 1 <= at[u]
        /\ \A j \in at[u] .. Len(q_executing[u]) : q_executing[u][j] \in Threads
    BY <1>8, <2>1, PlaceOf DEF FileInv
  <2>3. \A j \in at[u] .. Len(q_executing[u]) : q_executing[u][j] \in Batch(u)
    BY <2>2 DEF Batch
  <2> QED
    BY <1>7, <2>1, <2>2, <2>3
<1>9. PlaceInv'
  <2> SUFFICES ASSUME NEW u \in Threads
      PROVE /\ pc'[u] \in {"begin", "header"} => at[u] \in 1 .. Len(q_executing[u]) + 1
            /\ pc'[u] = "body" =>
                  /\ at[u] \in 1 .. Len(q_executing[u])
                  /\ Len(mbox) > 0
                  /\ mbox[Len(mbox)] = Fragment(Mail(Proc(u))', "header", TRUE)
    BY <1>1 DEF PlaceInv
  <2>1. CASE pc'[u] \in {"begin", "header"}
    BY <1>8, <2>1 DEF FileInv, PlaceInv
  <2>2. CASE pc'[u] = "body"
    <3>1. /\ pc[u] = "body" /\ at[u] \in 1 .. Len(q_executing[u]) /\ Len(mbox) > 0
          /\ mbox[Len(mbox)] = Fragment(Mail(Proc(u)), "header", TRUE)
      BY <1>8, <2>2 DEF FileInv, PlaceInv
    <3>2. Proc(u) \in Threads \ {t} /\ Proc(u)' = Proc(u)
      BY <1>1, <1>8, <2>2, <3>1 DEF Proc
    <3>3. Mail(Proc(u))' = Mail(Proc(u))
      BY <1>2, <3>2 DEF Mail
    <3> QED
      BY <2>2, <3>1, <3>3
  <2> QED
    BY <2>1, <2>2
<1>10. AbsentInv'
  <2>1. ASSUME NEW i \in 1 .. Len(mbox)
        PROVE  mbox[i].mail[1] \in Threads /\ mbox[i].mail[2] <= count'[mbox[i].mail[1]]
    <3>1. mbox[i].mail[1] \in Threads /\ mbox[i].mail[2] <= count[mbox[i].mail[1]]
      BY DEF FileInv, AbsentInv
    <3>2. mbox[i] \in Fragments
      BY ElementOfSeq DEF TypeOK
    <3>3. mbox[i].mail[2] \in Nat
      BY <3>2 DEF Fragments, Mails
    <3> QED
      BY <1>2, <1>3, <3>1, <3>3
  <2>2. \A u \in Threads : pc'[u] \in Asleep /\ ~queued'[u] => Absent(u)'
    BY <1>2, <1>4, <1>5 DEF FileInv, AbsentInv
  <2>3. \A u \in Waiting' : Absent(u)'
    BY <1>4, <1>7 DEF FileInv, AbsentInv
  <2>4. ASSUME NEW u \in Threads, pc'[u] \in {"begin", "header", "body"},
               NEW j \in at[u] .. Len(q_executing[u])
        PROVE  IF pc'[u] = "body" /\ j = at[u]
               THEN HeaderOnly(q_executing[u][j])' ELSE Absent(q_executing[u][j])'
    <3>1. q_executing[u][j] \in Threads \ {t} /\ pc'[u] = pc[u]
      BY <1>8, <2>4
    <3>2. IF pc[u] = "body" /\ j = at[u]
          THEN HeaderOnly(q_executing[u][j]) ELSE Absent(q_executing[u][j])
      BY <2>4, <3>1 DEF FileInv, AbsentInv
    <3>3. /\ Absent(q_executing[u][j])' = Absent(q_executing[u][j])
          /\ HeaderOnly(q_executing[u][j])' = HeaderOnly(q_executing[u][j])
      <4>1. Mail(q_executing[u][j])' = Mail(q_executing[u][j])
        BY <1>1, <1>2, <3>1 DEF Mail
      <4>2. Absent(q_executing[u][j])' = Absent(q_executing[u][j])
        BY <1>1, <4>1 DEF Absent
      <4>3. HeaderOnly(q_executing[u][j])' = HeaderOnly(q_executing[u][j])
        BY <1>1, <4>1 DEF HeaderOnly
      <4> QED
        BY <4>2, <4>3
    <3>4. CASE pc[u] = "body" /\ j = at[u]
      <4>1. HeaderOnly(q_executing[u][j])'
        BY <3>2, <3>3, <3>4
      <4> QED
        BY <3>1, <3>4, <4>1
    <3>5. CASE ~(pc[u] = "body" /\ j = at[u])
      <4>1. Absent(q_executing[u][j])'
        BY <3>2, <3>3, <3>5
      <4> QED
        BY <3>1, <3>5, <4>1
    <3> QED
      BY <3>4, <3>5
  <2> QED
    BY <1>1, <2>1, <2>2, <2>3, <2>4 DEF AbsentInv
<1> QED
  BY <1>6, <1>9, <1>10

(* The leader takes the queue: no mail of it is in the file.                *)
LEMMA LeadFile ==
    ASSUME TypeOK, QueueInv, FileInv, WrittenOnce, MailsInOnePiece, NEW t \in Threads, Lead(t)
    PROVE  PlaceInv' /\ AbsentInv' /\ WrittenOnce' /\ MailsInOnePiece'
<1> USE DEF fileVars
<1> DEFINE s == Queue(t)
<1>1. /\ pc[t] = "lock" /\ pc' = [pc EXCEPT ![t] = "begin"]
      /\ queued' = [queued EXCEPT ![t] = TRUE] /\ q_waiting' = <<>>
      /\ q_executing' = [q_executing EXCEPT ![t] = s] /\ at' = [at EXCEPT ![t] = 1]
      /\ IsQueued(t) /\ ~executing_flag
      /\ UNCHANGED <<mbox, count>>
  BY DEF Lead, AfterSwap, MayLead
<1>2. \A u \in Threads : /\ u # t => pc'[u] = pc[u] /\ queued'[u] = queued[u]
                         /\ pc[u] \notin Leading
  BY <1>1 DEF TypeOK, QueueInv, LeaderInv
<1>3. /\ pc'[t] = "begin" /\ q_executing'[t] = s /\ at'[t] = 1
      /\ s \in Seq(Threads) /\ Len(s) \in Nat
  BY <1>1, Queued, LenProperties DEF TypeOK
<1>4. \A u : Absent(u)' = Absent(u)
  BY <1>1 DEF Absent, Mail
<1>5. WrittenOnce' /\ MailsInOnePiece'
  BY <1>1 DEF WrittenOnce, MailsInOnePiece
<1>6. \A j \in 1 .. Len(s) : Absent(s[j])
  <2>1. \A j \in 1 .. Len(s) : s[j] \in Waiting \cup (IF Queues(t) THEN {t} ELSE {})
    BY Queued
  <2>2. Queues(t) => Absent(t)
    BY <1>1 DEF Queues, FileInv, AbsentInv, Asleep
  <2> HIDE DEF s
  <2> QED
    BY <2>1, <2>2 DEF FileInv, AbsentInv
<1>7. \A u \in Threads : u # t => pc'[u] \notin {"begin", "header", "body"}
  BY <1>2 DEF Leading
<1> HIDE DEF s
<1>8. PlaceInv'
  <2>1. at'[t] \in 1 .. Len(q_executing'[t]) + 1 /\ pc'[t] # "body"
    BY <1>3
  <2> QED
    BY <1>7, <2>1 DEF PlaceInv
<1>9. AbsentInv'
  <2>1. \A i \in 1 .. Len(mbox') :
           mbox'[i].mail[1] \in Threads /\ mbox'[i].mail[2] <= count'[mbox'[i].mail[1]]
    BY <1>1 DEF FileInv, AbsentInv
  <2>2. \A u \in Threads : pc'[u] \in Asleep /\ ~queued'[u] => Absent(u)'
    BY <1>2, <1>3, <1>4 DEF FileInv, AbsentInv, Asleep
  <2>3. Waiting' = {}
    BY <1>1 DEF Waiting
  <2>4. \A j \in at'[t] .. Len(q_executing'[t]) : Absent(q_executing[t][j])' /\ pc'[t] # "body"
    BY <1>1, <1>3, <1>6 DEF Absent, Mail
  <2> QED
    BY <1>7, <2>1, <2>2, <2>3, <2>4 DEF AbsentInv
<1> QED
  BY <1>5, <1>8, <1>9

(* The leader is about to write, or in the middle of it.                    *)
Writing(t) ==
    \/ pc[t] = "body"
    \/ pc[t] = "header" /\ at[t] <= Len(q_executing[t])

(* A fragment of the mail of Proc(t) is added, or none.                     *)
Appends(t, w) ==
    \/ mbox' = mbox
    \/ mbox' = Append(mbox, Fragment(Mail(Proc(t)), pc[t], w))

LEMMA AppendFile ==
    ASSUME TypeOK, QueueInv, FileInv, WrittenOnce, MailsInOnePiece, NEW t \in Threads,
           Writing(t), NEW w \in BOOLEAN, Appends(t, w), count' = count
    PROVE  /\ WrittenOnce' /\ MailsInOnePiece'
           /\ \A u \in Threads : u # Proc(t) /\ Absent(u) => Absent(u)'
           /\ pc[t] = "header" =>
                 \A i \in 1 .. Len(mbox') : mbox'[i].mail = Mail(Proc(t)) =>
                     i = Len(mbox') /\ mbox'[i].part = "header"
           /\ \A i \in 1 .. Len(mbox') :
                 mbox'[i].mail[1] \in Threads /\ mbox'[i].mail[2] <= count'[mbox'[i].mail[1]]
<1> DEFINE x == Proc(t)
           f == Fragment(Mail(x), pc[t], w)
<1>1. /\ at[t] \in 1 .. Len(q_executing[t]) /\ x \in Threads /\ x = q_executing[t][at[t]]
      /\ pc[t] \in {"header", "body"} /\ Len(mbox) \in Nat
  BY TheProc DEF FileInv, Writing, Proc, TypeOK
<1>2. IF pc[t] = "body" THEN HeaderOnly(x) ELSE Absent(x)
  <2>1. at[t] \in at[t] .. Len(q_executing[t])
    BY <1>1
  <2> QED
    BY <1>1, <2>1 DEF FileInv, AbsentInv
<1>3. f \in Fragments /\ f.mail = Mail(x) /\ f.part = pc[t]
  BY <1>1, TypeOfFragments DEF Fragment
<1>4. \A u : Mail(u)' = Mail(u)
  BY DEF Mail
<1>5. pc[t] = "body" => Len(mbox) > 0 /\ mbox[Len(mbox)] = Fragment(Mail(x), "header", TRUE)
  BY DEF FileInv, PlaceInv
<1>6. \A i \in 1 .. Len(mbox) :
         mbox[i].mail[1] \in Threads /\ mbox[i].mail[2] <= count[mbox[i].mail[1]]
  BY DEF FileInv, AbsentInv
<1>7. CASE mbox' = mbox
  <2>1. pc[t] = "header" => Absent(x)
    BY <1>2
  <2> QED
    BY <1>4, <1>6, <1>7, <2>1 DEF WrittenOnce, MailsInOnePiece, Absent
<1>8. CASE mbox' = Append(mbox, f)
  <2> HIDE DEF f
  <2>1. Added(f)
    BY <1>3, <1>8, Adding
  <2>2. /\ Len(mbox') = Len(mbox) + 1 /\ mbox'[Len(mbox) + 1] = f
        /\ \A i \in 1 .. Len(mbox) : mbox'[i] = mbox[i]
        /\ \A i \in 1 .. Len(mbox') : i \in 1 .. Len(mbox) \/ i = Len(mbox) + 1
    BY <1>1, <2>1 DEF Added
  <2>3. \A i \in 1 .. Len(mbox) : ~(mbox[i].mail = f.mail /\ mbox[i].part = f.part)
    BY <1>1, <1>2, <1>3 DEF Absent, HeaderOnly
  <2>4. WrittenOnce'
    BY <2>2, <2>3 DEF WrittenOnce
  <2>5. MailsInOnePiece'
    <3> SUFFICES ASSUME NEW i \in 1 .. Len(mbox'), mbox'[i].part = "body"
        PROVE  i > 1 /\ mbox'[i - 1] = Fragment(mbox'[i].mail, "header", TRUE)
      BY DEF MailsInOnePiece
    <3>1. CASE i \in 1 .. Len(mbox)
      <4>1. i > 1 /\ mbox[i - 1] = Fragment(mbox[i].mail, "header", TRUE)
        BY <2>2, <3>1 DEF MailsInOnePiece
      <4>2. i - 1 \in 1 .. Len(mbox)
        BY <1>1, <3>1, <4>1
      <4> QED
        BY <2>2, <3>1, <4>1, <4>2
    <3>2. CASE i = Len(mbox) + 1
      <4>1. pc[t] = "body"
        BY <1>3, <2>2, <3>2
      <4>2. i > 1 /\ i - 1 = Len(mbox) /\ Len(mbox) \in 1 .. Len(mbox)
        BY <1>1, <1>5, <3>2, <4>1
      <4> QED
        BY <1>3, <1>5, <2>2, <3>2, <4>1, <4>2
    <3> QED
      BY <2>2, <3>1, <3>2
  <2>6. \A u \in Threads : u # x /\ Absent(u) => Absent(u)'
    BY <1>3, <1>4, <2>2 DEF Absent, Mail
  <2>7. pc[t] = "header" =>
           \A i \in 1 .. Len(mbox') : mbox'[i].mail = Mail(x) =>
               i = Len(mbox') /\ mbox'[i].part = "header"
    BY <1>2, <1>3, <2>2 DEF Absent
  <2>8. \A i \in 1 .. Len(mbox') :
           mbox'[i].mail[1] \in Threads /\ mbox'[i].mail[2] <= count'[mbox'[i].mail[1]]
    <3>1. f.mail[1] \in Threads /\ f.mail[2] = count[f.mail[1]] /\ count[f.mail[1]] \in Nat
      BY <1>1, <1>3 DEF Mail, TypeOK
    <3> QED
      BY <1>6, <2>2, <3>1
  <2> QED
    BY <2>4, <2>5, <2>6, <2>7, <2>8
<1> QED
  BY <1>7, <1>8 DEF Appends

LEMMA WriteFile ==
    ASSUME TypeOK, QueueInv, FileInv, WrittenOnce, MailsInOnePiece, NEW t \in Threads,
           WriteHeader(t) \/ WriteBody(t) \/ WriteFails(t)
    PROVE  PlaceInv' /\ AbsentInv' /\ WrittenOnce' /\ MailsInOnePiece'
<1> USE DEF entryVars, queueVars, fileVars
<1> DEFINE x == Proc(t)
<1>1. Writing(t) /\ UNCHANGED <<count, queued, q_waiting, q_executing>>
  BY DEF WriteHeader, WriteBody, WriteFails, Writing
<1>2. PICK w \in BOOLEAN : Appends(t, w)
  BY DEF WriteHeader, WriteBody, WriteFails, Appends
<1>3. /\ WrittenOnce' /\ MailsInOnePiece'
      /\ \A u \in Threads : u # x /\ Absent(u) => Absent(u)'
      /\ pc[t] = "header" =>
            \A i \in 1 .. Len(mbox') : mbox'[i].mail = Mail(x) =>
                i = Len(mbox') /\ mbox'[i].part = "header"
      /\ \A i \in 1 .. Len(mbox') :
            mbox'[i].mail[1] \in Threads /\ mbox'[i].mail[2] <= count'[mbox'[i].mail[1]]
  BY <1>1, <1>2, AppendFile
<1>4. /\ at[t] \in 1 .. Len(q_executing[t]) /\ Len(q_executing[t]) \in Nat
      /\ x \in Threads /\ x = q_executing[t][at[t]]
      /\ queued[x] /\ x \notin Waiting
      /\ \A j \in 1 .. Len(q_executing[t]) :
            q_executing[t][j] \in Threads /\ (j # at[t] => q_executing[t][j] # x)
  BY <1>1, TheProc DEF FileInv, Writing, Proc
<1>5. \A u \in Threads : /\ u # t => pc'[u] = pc[u] /\ pc[u] \notin Leading
                         /\ pc'[t] \in {"header", "body"} /\ pc[t] \in {"header", "body"}
  BY DEF WriteHeader, WriteBody, WriteFails, TypeOK, QueueInv, LeaderInv, Leading
<1>6. \/ /\ pc[t] = "header" /\ pc'[t] = "body" /\ at'[t] = at[t]
         /\ mbox' = Append(mbox, Fragment(Mail(x), "header", TRUE))
      \/ pc'[t] = "header" /\ at'[t] = at[t] + 1
  BY DEF WriteHeader, WriteBody, WriteFails, TypeOK
<1>7. \A u \in Threads : u # t => pc'[u] \notin {"begin", "header", "body"}
  BY <1>5 DEF Leading
<1>10. \/ pc[t] = "header" /\ pc'[t] = "body" /\ at'[t] = at[t]
       \/ pc'[t] = "header" /\ at'[t] = at[t] + 1
  BY <1>6
<1>8. PlaceInv'
  <2>1. CASE pc'[t] = "header" /\ at'[t] = at[t] + 1
    <3>1. at'[t] \in 1 .. Len(q_executing[t]) + 1
      BY <1>4, <2>1
    <3> QED
      BY <1>1, <1>7, <2>1, <3>1 DEF PlaceInv
  <2>2. CASE /\ pc'[t] = "body" /\ at'[t] = at[t]
             /\ mbox' = Append(mbox, Fragment(Mail(x), "header", TRUE))
    <3> DEFINE f == Fragment(Mail(x), "header", TRUE)
    <3>1. f \in Fragments
      BY <1>4, TypeOfFragments
    <3> HIDE DEF f
    <3>2. Added(f) /\ Len(mbox) \in Nat
      BY <2>2, <3>1, Adding DEF f
    <3>3. Len(mbox') > 0 /\ mbox'[Len(mbox')] = f
      BY <3>2 DEF Added
    <3>4. f = Fragment(Mail(Proc(t)), "header", TRUE)'
      BY <1>1, <1>4, <2>2 DEF f, Fragment, Mail, Proc
    <3> QED
      BY <1>1, <1>4, <1>7, <2>2, <3>3, <3>4 DEF PlaceInv, Fragment
  <2> QED
    BY <1>6, <2>1, <2>2
<1>9. AbsentInv'
  <2>1. \A u \in Threads : pc'[u] \in Asleep /\ ~queued'[u] => Absent(u)'
    BY <1>1, <1>3, <1>4, <1>5 DEF FileInv, AbsentInv, Asleep
  <2>2. \A u \in Waiting' : Absent(u)'
    <3>1. Waiting' = Waiting /\ Waiting \subseteq Threads
      BY <1>1, Members DEF Waiting
    <3> QED
      BY <1>3, <1>4, <3>1 DEF FileInv, AbsentInv
  <2>3. ASSUME NEW j \in at'[t] .. Len(q_executing'[t])
        PROVE  IF pc'[t] = "body" /\ j = at'[t]
               THEN HeaderOnly(q_executing[t][j])' ELSE Absent(q_executing[t][j])'
    <3>1. CASE j = at[t]
      <4>1. pc[t] = "header" /\ pc'[t] = "body" /\ at'[t] = at[t]
        BY <1>1, <1>4, <1>10, <2>3, <3>1
      <4>2. HeaderOnly(q_executing[t][j])'
        BY <1>1, <1>3, <1>4, <3>1, <4>1 DEF HeaderOnly, Mail
      <4> QED
        BY <3>1, <4>1, <4>2
    <3>2. CASE j # at[t]
      <4>1. j \in at[t] .. Len(q_executing[t]) /\ j \in 1 .. Len(q_executing[t])
        BY <1>1, <1>4, <1>10, <2>3
      <4>2. pc[t] \in {"header", "body"}
        BY <1>5
      <4>3. Absent(q_executing[t][j])
        BY <3>2, <4>1, <4>2 DEF FileInv, AbsentInv
      <4>4. q_executing[t][j] \in Threads /\ q_executing[t][j] # x
        BY <1>4, <3>2, <4>1
      <4>5. Absent(q_executing[t][j])'
        <5> DEFINE u == q_executing[t][j]
        <5>1. u \in Threads /\ u # x /\ Absent(u)
          BY <4>3, <4>4
        <5>2. \A i \in 1 .. Len(mbox') : mbox'[i].mail # <<u, count'[u]>>
          BY <1>3, <5>1 DEF Absent, Mail
        <5> QED
          BY <1>1, <5>2 DEF Absent, Mail
      <4>6. pc'[t] = "body" => at'[t] = at[t]
        BY <1>6
      <4> QED
        BY <3>2, <4>5, <4>6
    <3> QED
      BY <3>1, <3>2
  <2> QED
    BY <1>3, <1>7, <2>1, <2>2, <2>3 DEF AbsentInv
<1> QED
  BY <1>3, <1>8, <1>9

(* The process starts again, with what is left of the file.                 *)
LEMMA RestartFile ==
    ASSUME TypeOK, FileInv, FileProps, NEW n \in synced .. Len(mbox), Restart(n)
    PROVE  FileInv' /\ FileProps'
<1>1. n \in 0 .. Len(mbox) /\ synced <= n /\ synced \in Nat /\ n \in Nat /\ n <= Len(mbox)
  BY DEF TypeOK
<1>2. /\ mbox' = SubSeq(mbox, 1, n) /\ count' = count /\ synced' = synced /\ acked' = acked
      /\ pc' = Idle /\ written' = Never /\ q_waiting' = <<>>
  BY DEF Restart
<1>3. Len(mbox') = n /\ \A i \in 1 .. n : mbox'[i] = mbox[i]
  BY <1>1, <1>2, Cutting
<1>4. \A t \in Threads : pc'[t] = "idle" /\ ~written'[t]
  BY <1>2 DEF Idle, Never
<1>5. PlaceInv' /\ StoredInv'
  BY <1>4 DEF PlaceInv, StoredInv
<1>6. AbsentInv'
  <2>1. \A i \in 1 .. Len(mbox') :
           mbox'[i].mail[1] \in Threads /\ mbox'[i].mail[2] <= count'[mbox'[i].mail[1]]
    BY <1>1, <1>2, <1>3 DEF FileInv, AbsentInv
  <2>2. Waiting' = {}
    BY <1>2 DEF Waiting
  <2> QED
    BY <1>4, <2>1, <2>2 DEF AbsentInv, Asleep
<1>7. WrittenOnce'
  BY <1>1, <1>3 DEF FileProps, WrittenOnce
<1>8. MailsInOnePiece'
  <2> SUFFICES ASSUME NEW i \in 1 .. Len(mbox'), mbox'[i].part = "body"
      PROVE  i > 1 /\ mbox'[i - 1] = Fragment(mbox'[i].mail, "header", TRUE)
    BY DEF MailsInOnePiece
  <2>1. i \in 1 .. Len(mbox) /\ mbox'[i] = mbox[i]
    BY <1>1, <1>3
  <2>2. i > 1 /\ mbox[i - 1] = Fragment(mbox[i].mail, "header", TRUE)
    BY <2>1 DEF FileProps, MailsInOnePiece
  <2>4. i - 1 \in 1 .. n
    BY <1>1, <1>3, <2>2
  <2>3. mbox'[i - 1] = mbox[i - 1]
    BY <1>3, <2>4
  <2> QED
    BY <2>1, <2>2, <2>3
<1>9. AcknowledgedIsStored'
  <2> SUFFICES ASSUME NEW m \in acked PROVE Found(m, synced', mbox')
    BY <1>2, InFileFound DEF AcknowledgedIsStored
  <2>1. Found(m, synced, mbox)
    BY InFileFound DEF FileProps, AcknowledgedIsStored
  <2>2. \A i \in 1 .. synced : mbox'[i] = mbox[i]
    BY <1>1, <1>3
  <2>3. Found(m, synced, mbox')
    BY <1>1, <2>1, <2>2, FoundKept
  <2> QED
    BY <1>2, <2>3
<1> QED
  BY <1>5, <1>6, <1>7, <1>8, <1>9 DEF FileInv, FileProps

(* Steps after which no more is written, and what was stored still is.      *)
Keeps ==
    /\ Len(mbox) <= Len(mbox') /\ Len(mbox') \in Nat
    /\ \A i \in 1 .. Len(mbox) : mbox'[i] = mbox[i]
    /\ synced' \in Nat /\ synced <= synced' /\ acked' = acked
    /\ \A u \in Threads : written'[u] =>
          written[u] /\ Mail(u)' = Mail(u) /\ (success'[u] => success[u])

LEMMA StoredKept ==
    ASSUME TypeOK, StoredInv, AcknowledgedIsStored, Keeps
    PROVE  StoredInv' /\ AcknowledgedIsStored'
<1>1. /\ Len(mbox) \in Nat /\ synced \in Nat /\ synced <= Len(mbox)
      /\ \A i \in 1 .. synced : mbox'[i] = mbox[i]
  BY DEF TypeOK, Keeps
<1>2. \A m : Found(m, Len(mbox), mbox) => Found(m, Len(mbox'), mbox')
  BY <1>1, FoundKept DEF Keeps
<1>3. \A m : Found(m, synced, mbox) => Found(m, synced', mbox')
  BY <1>1, FoundKept DEF Keeps
<1>4. ASSUME NEW u \in Threads, written'[u]
      PROVE  InFile(Mail(u), Len(mbox))' /\ (success'[u] => InFile(Mail(u), synced)')
  <2>1. written[u] /\ Mail(u)' = Mail(u) /\ (success'[u] => success[u])
    BY <1>4 DEF Keeps
  <2>2. Found(Mail(u), Len(mbox'), mbox') /\ (success'[u] => Found(Mail(u), synced', mbox'))
    BY <1>2, <1>3, <2>1, InFileFound DEF StoredInv
  <2> QED
    BY <2>1, <2>2 DEF InFile, Found
<1>5. StoredInv'
  BY <1>4 DEF StoredInv
<1>6. AcknowledgedIsStored'
  BY <1>3, InFileFound DEF Keeps, AcknowledgedIsStored
<1> QED
  BY <1>5, <1>6

LEMMA FileStep ==
    ASSUME TypeOK, QueueInv, FileInv, FileProps, [Next]_vars, TypeOK'
    PROVE  PlaceInv' /\ AbsentInv' /\ WrittenOnce' /\ MailsInOnePiece'
<1> USE DEF entryVars, queueVars, fileVars
<1> DEFINE Goal == PlaceInv /\ AbsentInv /\ WrittenOnce /\ MailsInOnePiece
<1>0. Waiting' \subseteq Threads
  <2>1. q_waiting' \in Seq(Threads)
    BY DEF TypeOK
  <2>2. \A i \in 1 .. Len(q_waiting') : q_waiting'[i] \in Threads
    BY <2>1, ElementOfSeq
  <2> QED
    BY <2>2 DEF Waiting
<1>1. Quiet => Goal'
  BY <1>0, QuietFile DEF FileInv, FileProps
<1>2. ASSUME NEW t \in Threads, Return(t) PROVE Quiet
  BY <1>2 DEF Return, Quiet, TypeOK, Waiting, Asleep
<1>3. ASSUME NEW t \in Threads, Wait(t) PROVE Quiet
  <2>1. Waiting' = Waiting \cup (IF Queues(t) THEN {t} ELSE {})
    BY <1>3, Queued DEF Wait, Waiting
  <2>2. /\ \A u \in Threads : u # t => pc'[u] = pc[u] /\ queued'[u] = queued[u]
        /\ pc'[t] = "wait" /\ pc[t] = "lock" /\ (~queued'[t] => ~queued[t])
        /\ Queues(t) => ~queued[t]
        /\ UNCHANGED <<count, mbox, at, q_executing>>
    BY <1>3 DEF Wait, TypeOK, IsQueued, Queues
  <2> QED
    BY <2>1, <2>2 DEF Quiet, Asleep
<1>4. ASSUME NEW t \in Threads, WakeUp(t) PROVE Quiet
  BY <1>4 DEF WakeUp, Quiet, TypeOK, Waiting, Asleep
<1>5. ASSUME NEW t \in Threads, Begin(t) PROVE Quiet
  BY <1>5 DEF Begin, Opened, Quiet, TypeOK, Waiting, Asleep
<1>6. ASSUME NEW t \in Threads, BeginThrows(t) PROVE Quiet
  BY <1>6 DEF BeginThrows, Quiet, TypeOK, Waiting, Asleep
<1>7. ASSUME NEW t \in Threads, Commit(t) \/ CommitFails(t) PROVE Quiet
  <2>1. /\ pc' = [pc EXCEPT ![t] = "rewind"] /\ pc \in [Threads -> Places]
        /\ UNCHANGED <<queued, count, mbox, at, q_executing, q_waiting>>
    BY <1>7 DEF Commit, CommitFails, TypeOK
  <2>2. Waiting' = Waiting
    BY <2>1 DEF Waiting
  <2> QED
    BY <2>1, <2>2 DEF Quiet, Asleep
<1>8. ASSUME NEW t \in Threads, Rewind(t) PROVE Quiet
  <2>1. /\ pc'[t] \in {"answer", "abort"}
        /\ \A u \in Threads : u # t =>
              /\ pc'[u] = IF pc[u] = "wait" THEN "lock" ELSE pc[u]
              /\ q_executing'[u] = q_executing[u]
        /\ UNCHANGED <<queued, count, mbox, at, q_waiting>>
    BY <1>8 DEF Rewind, Notified, TypeOK
  <2>2. Waiting' = Waiting
    BY <2>1 DEF Waiting
  <2> QED
    BY <2>1, <2>2 DEF Quiet, Asleep
<1>9. ASSUME NEW t \in Threads, Answer(t) PROVE Quiet
  BY <1>9 DEF Answer, Quiet, TypeOK, Waiting, Asleep
<1>10. ASSUME UNCHANGED vars PROVE Quiet
  BY <1>10 DEF vars, Quiet, Waiting
<1>11. ASSUME NEW t \in Threads, Abort(t) PROVE Goal'
  <2>1. Len(mbox) \in synced .. Len(mbox) /\ Restart(Len(mbox))
    BY <1>11 DEF Abort, TypeOK
  <2> QED
    BY <2>1, RestartFile DEF FileInv, FileProps
<1>12. ASSUME PowerLoss PROVE Goal'
  BY <1>12, RestartFile DEF PowerLoss, FileInv, FileProps
<1>13. ASSUME NEW t \in Threads, Body(t) \/ Lead(t) PROVE Goal'
  BY <1>13, BodyFile, LeadFile DEF FileProps
<1>14. ASSUME NEW t \in Threads, WriteHeader(t) \/ WriteBody(t) \/ WriteFails(t) PROVE Goal'
  BY <1>14, WriteFile DEF FileProps
<1> HIDE DEF Goal
<1>15. Goal'
  BY <1>1, <1>2, <1>3, <1>4, <1>5, <1>6, <1>7, <1>8, <1>9, <1>10, <1>11, <1>12, <1>13, <1>14
     DEF Next, Step, Fault
<1> QED
  BY <1>15 DEF Goal

(* A mail is written, and where it stands is known.                         *)
LEMMA BodyStored ==
    ASSUME TypeOK, QueueInv, FileInv, FileProps, NEW t \in Threads, WriteBody(t)
    PROVE  StoredInv' /\ AcknowledgedIsStored'
<1> DEFINE x == Proc(t)
           f == Fragment(Mail(x), "body", TRUE)
<1>1. /\ pc[t] = "body" /\ mbox' = Append(mbox, f) /\ written' = [written EXCEPT ![x] = TRUE]
      /\ UNCHANGED <<count, success, synced, acked>>
  BY DEF WriteBody
<1>2. /\ x \in Threads /\ ~success[x] /\ Len(mbox) > 0
      /\ mbox[Len(mbox)] = Fragment(Mail(x), "header", TRUE)
      /\ Len(mbox) \in Nat /\ synced \in Nat /\ synced <= Len(mbox)
  <2>1. x \in Threads /\ ~success[x]
    BY <1>1, TheProc DEF FileInv
  <2>2. Len(mbox) > 0 /\ mbox[Len(mbox)] = Fragment(Mail(x), "header", TRUE)
    BY <1>1 DEF FileInv, PlaceInv
  <2> QED
    BY <2>1, <2>2 DEF TypeOK
<1>3. f \in Fragments
  BY <1>2, TypeOfFragments
<1>4. Added(f)
  BY <1>1, <1>3, Adding
<1>5. /\ Len(mbox') = Len(mbox) + 1 /\ mbox'[Len(mbox) + 1] = f
      /\ \A i \in 1 .. Len(mbox) : mbox'[i] = mbox[i]
      /\ \A i \in 1 .. synced : mbox'[i] = mbox[i]
  BY <1>2, <1>4 DEF Added
<1>6. Found(Mail(x), Len(mbox'), mbox')
  <2>1. /\ Len(mbox) \in 1 .. Len(mbox') /\ Len(mbox) + 1 <= Len(mbox')
        /\ mbox'[Len(mbox)] = Fragment(Mail(x), "header", TRUE)
    <3>1. Len(mbox) \in 1 .. Len(mbox) /\ Len(mbox) \in 1 .. Len(mbox) + 1
      BY <1>2
    <3>2. mbox'[Len(mbox)] = mbox[Len(mbox)]
      BY <1>5, <3>1
    <3>3. Len(mbox) \in 1 .. Len(mbox') /\ Len(mbox) + 1 <= Len(mbox')
      BY <1>2, <1>5, <3>1
    <3> QED
      BY <1>2, <3>2, <3>3
  <2>2. mbox'[Len(mbox) + 1] = Fragment(Mail(x), "body", TRUE)
    BY <1>5
  <2> QED
    BY <2>1, <2>2 DEF Found
<1>12. Len(mbox') \in Nat /\ Len(mbox) <= Len(mbox')
  BY <1>2, <1>5
<1>7. \A m : Found(m, Len(mbox), mbox) => Found(m, Len(mbox'), mbox')
  BY <1>2, <1>5, <1>12, FoundKept
<1>8. \A m : Found(m, synced, mbox) => Found(m, synced', mbox')
  <2>1. \A m : Found(m, synced, mbox) => Found(m, synced, mbox')
    BY <1>2, <1>5, FoundKept
  <2> QED
    BY <1>1, <2>1
<1>9. ASSUME NEW u \in Threads, written'[u]
      PROVE  InFile(Mail(u), Len(mbox))' /\ (success'[u] => InFile(Mail(u), synced)')
  <2>1. Mail(u)' = Mail(u)
    BY <1>1 DEF Mail
  <2>2. CASE u = x
    BY <1>1, <1>2, <1>6, <2>1, <2>2 DEF InFile, Found
  <2>3. CASE u # x
    <3>1. written[u]
      BY <1>1, <1>9, <2>3 DEF TypeOK
    <3>2. Found(Mail(u), Len(mbox'), mbox') /\ (success'[u] => Found(Mail(u), synced', mbox'))
      BY <1>1, <1>7, <1>8, <3>1, InFileFound DEF FileInv, StoredInv
    <3> QED
      BY <2>1, <3>2 DEF InFile, Found
  <2> QED
    BY <2>2, <2>3
<1>10. StoredInv'
  BY <1>9 DEF StoredInv
<1>11. AcknowledgedIsStored'
  BY <1>1, <1>8, InFileFound DEF FileProps, AcknowledgedIsStored
<1> QED
  BY <1>10, <1>11

(* The whole file is synced; the entries of the batch succeed.              *)
LEMMA CommitStored ==
    ASSUME TypeOK, FileInv, FileProps, NEW t \in Threads, Commit(t)
    PROVE  StoredInv' /\ AcknowledgedIsStored'
<1>1. synced' = Len(mbox) /\ UNCHANGED <<mbox, count, written, acked>>
  BY DEF Commit
<1>2. Len(mbox) \in Nat /\ synced \in Nat /\ synced <= Len(mbox)
  BY DEF TypeOK
<1>3. ASSUME NEW u \in Threads, written'[u]
      PROVE  InFile(Mail(u), Len(mbox))' /\ InFile(Mail(u), synced)'
  <2>1. Mail(u)' = Mail(u) /\ Found(Mail(u), Len(mbox), mbox)
    BY <1>1, <1>3, InFileFound DEF Mail, FileInv, StoredInv
  <2> QED
    BY <1>1, <2>1 DEF InFile, Found
<1>4. ASSUME NEW m \in acked PROVE Found(m, synced', mbox')
  <2>1. Found(m, synced, mbox)
    BY InFileFound DEF FileProps, AcknowledgedIsStored
  <2> QED
    BY <1>1, <1>2, <2>1, FoundKept
<1> QED
  BY <1>1, <1>3, <1>4, InFileFound DEF StoredInv, AcknowledgedIsStored

(* A mail is acknowledged.                                                  *)
LEMMA AnswerStored ==
    ASSUME TypeOK, FileInv, FileProps, NEW t \in Threads, Answer(t)
    PROVE  StoredInv' /\ AcknowledgedIsStored'
<1> USE DEF entryVars, queueVars, fileVars
<1>1. /\ acked' = IF Stored(t) THEN acked \cup {Mail(t)} ELSE acked
      /\ UNCHANGED <<mbox, synced, count, written, success>>
  BY DEF Answer
<1>2. Stored(t) => InFile(Mail(t), synced)
  BY DEF Stored, FileInv, StoredInv
<1>3. StoredInv'
  BY <1>1 DEF FileInv, StoredInv, InFile, Mail
<1>4. \A m \in acked' : InFile(m, synced)
  BY <1>1, <1>2 DEF FileProps, AcknowledgedIsStored
<1>5. AcknowledgedIsStored'
  BY <1>1, <1>4 DEF AcknowledgedIsStored, InFile
<1> QED
  BY <1>3, <1>5

LEMMA StoredStep ==
    ASSUME TypeOK, QueueInv, FileInv, FileProps, [Next]_vars
    PROVE  StoredInv' /\ AcknowledgedIsStored'
<1> USE DEF entryVars, queueVars, fileVars
<1> DEFINE Goal == StoredInv /\ AcknowledgedIsStored
<1>0. Len(mbox) \in Nat /\ synced \in Nat
  BY DEF TypeOK
<1>1. Keeps => Goal'
  BY StoredKept DEF FileInv, FileProps
<1>2. ASSUME UNCHANGED <<mbox, synced, acked, count, written, success>> PROVE Keeps
  BY <1>0, <1>2 DEF Keeps, Mail
<1>3. ASSUME NEW t \in Threads, Body(t) PROVE Keeps
  <2>1. \A u \in Threads : /\ u # t => /\ written'[u] = written[u] /\ success'[u] = success[u]
                                        /\ count'[u] = count[u]
                           /\ ~written'[t]
    BY <1>3 DEF Body, TypeOK
  <2>2. UNCHANGED <<mbox, synced, acked>>
    BY <1>3 DEF Body
  <2>3. \A u \in Threads : written'[u] =>
           written[u] /\ Mail(u)' = Mail(u) /\ (success'[u] => success[u])
    BY <2>1 DEF Mail
  <2> QED
    BY <1>0, <2>2, <2>3 DEF Keeps
<1>4. ASSUME NEW t \in Threads, WriteHeader(t) \/ WriteFails(t) PROVE Keeps
  <2>1. UNCHANGED <<synced, acked, count, written, success>>
    BY <1>4 DEF WriteHeader, WriteFails
  <2>2. pc[t] \in {"header", "body"} /\ Proc(t) \in Threads
    BY <1>4, TheProc DEF WriteHeader, WriteFails, FileInv
  <2>3. PICK w \in BOOLEAN :
            mbox' = mbox \/ mbox' = Append(mbox, Fragment(Mail(Proc(t)), pc[t], w))
    BY <1>4 DEF WriteHeader, WriteFails
  <2>4. Fragment(Mail(Proc(t)), pc[t], w) \in Fragments
    BY <2>2, TypeOfFragments
  <2>5. CASE mbox' = mbox
    BY <1>2, <2>1, <2>5
  <2>6. CASE mbox' = Append(mbox, Fragment(Mail(Proc(t)), pc[t], w))
    <3>1. Added(Fragment(Mail(Proc(t)), pc[t], w))
      BY <2>4, <2>6, Adding
    <3> QED
      BY <1>0, <2>1, <3>1 DEF Added, Keeps, Mail
  <2> QED
    BY <2>3, <2>5, <2>6
<1>5. ASSUME NEW t \in Threads, Return(t) \/ Lead(t) \/ Wait(t) \/ WakeUp(t) \/ Begin(t)
                 \/ BeginThrows(t) \/ CommitFails(t) \/ Rewind(t)
      PROVE  Keeps
  BY <1>2, <1>5 DEF Return, Lead, Wait, WakeUp, Begin, Opened, BeginThrows, CommitFails,
                    CommitSuccess, Rewind
<1>6. ASSUME NEW t \in Threads, WriteBody(t) \/ Commit(t) \/ Answer(t) PROVE Goal'
  BY <1>6, BodyStored, CommitStored, AnswerStored
<1>7. ASSUME NEW t \in Threads, Abort(t) PROVE Goal'
  <2>1. Len(mbox) \in synced .. Len(mbox) /\ Restart(Len(mbox))
    BY <1>7 DEF Abort, TypeOK
  <2> QED
    BY <2>1, RestartFile DEF FileInv, FileProps
<1>8. ASSUME PowerLoss PROVE Goal'
  BY <1>8, RestartFile DEF PowerLoss, FileInv, FileProps
<1>9. ASSUME UNCHANGED vars PROVE Keeps
  BY <1>2, <1>9 DEF vars
<1> HIDE DEF Goal
<1>10. Goal'
  BY <1>1, <1>3, <1>4, <1>5, <1>6, <1>7, <1>8, <1>9 DEF Next, Step, Fault
<1> QED
  BY <1>10 DEF Goal

-----------------------------------------------------------------------------
(* The invariant.                                                           *)

LEMMA StoreInit == Init => IInv
<1> SUFFICES ASSUME Init PROVE IInv
  OBVIOUS
<1>1. /\ mbox = <<>> /\ Len(mbox) = 0 /\ acked = {} /\ Waiting = {}
      /\ \A t \in Threads : pc[t] = "idle" /\ ~written[t]
  BY DEF Init, Idle, Never, Waiting
<1>2. FileInv /\ FileProps
  BY <1>1 DEF FileInv, FileProps, PlaceInv, AbsentInv, StoredInv, WrittenOnce, MailsInOnePiece,
              AcknowledgedIsStored, Asleep
<1> QED
  BY <1>2, TypeInit, QueueInit DEF IInv

LEMMA StoreStep == IInv /\ [Next]_vars => IInv'
<1> SUFFICES ASSUME IInv, [Next]_vars PROVE IInv'
  OBVIOUS
<1>1. TypeOK' /\ QueueInv'
  BY TypeStep, QueueStep DEF IInv, FileInv
<1>2. PlaceInv' /\ AbsentInv' /\ WrittenOnce' /\ MailsInOnePiece'
  BY <1>1, FileStep DEF IInv
<1>3. StoredInv' /\ AcknowledgedIsStored'
  BY StoredStep DEF IInv
<1> QED
  BY <1>1, <1>2, <1>3 DEF IInv, FileInv, FileProps

(* The state of the mail store keeps its type.                              *)
THEOREM StoreTypeCorrect == Spec => []TypeOK
<1>1. IInv => TypeOK
  BY DEF IInv
<1> QED
  BY <1>1, StoreInit, StoreStep, PTL DEF Spec

(* Of the entries on the stacks of the threads, the queues hold those of    *)
(* threads that are still in execute_piggyback, and each of them once.      *)
THEOREM EntriesAreAlive == Spec => []EntriesAlive
<1>1. IInv => EntriesAlive
  <2> SUFFICES ASSUME IInv PROVE EntriesAlive
    OBVIOUS
  <2>1. TypeOK /\ QueueInv
    BY DEF IInv
  <2>2. ASSUME NEW t \in Threads, pc[t] \in {"idle", "answer", "abort"}
        PROVE  t \notin Waiting /\ \A u \in Threads : t \notin Batch(u)
    BY <2>1, <2>2 DEF QueueInv, WaitingInv, BatchInv, Asleep, Leading
  <2>3. ASSUME NEW t \in Threads, NEW u \in Threads
        PROVE  Batch(t) \cap Waiting = {} /\ (t # u => Batch(t) \cap Batch(u) = {})
    BY <2>1, Members DEF QueueInv, BatchInv
  <2> QED
    BY <2>1, <2>2, <2>3 DEF EntriesAlive, QueueInv, OnceInv, Distinct
<1> QED
  BY <1>1, StoreInit, StoreStep, PTL DEF Spec

(* Each mail is in the file once, however often transactions fail and the    *)
(* process ends.                                                            *)
THEOREM MailsWrittenOnce == Spec => []WrittenOnce
<1>1. IInv => WrittenOnce
  BY DEF IInv, FileProps
<1> QED
  BY <1>1, StoreInit, StoreStep, PTL DEF Spec

(* No mail is torn by another one.                                          *)
THEOREM MailsAreWhole == Spec => []MailsInOnePiece
<1>1. IInv => MailsInOnePiece
  BY DEF IInv, FileProps
<1> QED
  BY <1>1, StoreInit, StoreStep, PTL DEF Spec

(* A mail answered with 250 is in the file and survives a loss of power.    *)
THEOREM AcknowledgedAreStored == Spec => []AcknowledgedIsStored
<1>1. IInv => AcknowledgedIsStored
  BY DEF IInv, FileProps
<1> QED
  BY <1>1, StoreInit, StoreStep, PTL DEF Spec

-----------------------------------------------------------------------------
(* The mail server implements StableStore.                                  *)

(* A thread that is busy has taken a mail, and all mails in the file were   *)
(* taken by some thread.                                                    *)
IsTaken(m) == \E t \in Threads : \E k \in 1 .. count[t] : m = <<t, k>>

TakenInv ==
    /\ \A t \in Threads : pc[t] # "idle" => count[t] # 0
    /\ \A i \in 1 .. Len(mbox) : IsTaken(mbox[i].mail)

LEMMA TakenIs == /\ \A m : m \in Taken <=> IsTaken(m)
                 /\ \A m : m \in Taken' <=> IsTaken(m)'
<1>1. \A m : m \in Taken => IsTaken(m)
  BY DEF Taken, IsTaken
<1>2. \A m : IsTaken(m) => m \in Taken
  BY DEF Taken, IsTaken
<1>3. \A m : m \in Taken' => IsTaken(m)'
  BY DEF Taken, IsTaken
<1>4. \A m : IsTaken(m)' => m \in Taken'
  BY DEF Taken, IsTaken
<1> QED
  BY <1>1, <1>2, <1>3, <1>4

LEMMA TakenInit == Init => TakenInv
<1> SUFFICES ASSUME Init PROVE TakenInv
  OBVIOUS
<1>1. mbox = <<>> /\ Len(mbox) = 0 /\ \A t \in Threads : pc[t] = "idle"
  BY DEF Init, Idle
<1> QED
  BY <1>1 DEF TakenInv

(* No mail is taken back.                                                   *)
LEMMA StaysTaken ==
    ASSUME TypeOK, count' \in [Threads -> Nat], \A t \in Threads : count[t] <= count'[t],
           NEW m, IsTaken(m)
    PROVE  IsTaken(m)'
<1>1. PICK t \in Threads : \E k \in 1 .. count[t] : m = <<t, k>>
  BY DEF IsTaken
<1>2. PICK k \in 1 .. count[t] : m = <<t, k>>
  BY <1>1
<1>3. count[t] \in Nat /\ count'[t] \in Nat /\ count[t] <= count'[t]
  BY DEF TypeOK
<1>4. k \in 1 .. count'[t]
  BY <1>3
<1> QED
  BY <1>2, <1>4 DEF IsTaken

(* Steps that take no mail: the busy threads were busy.                     *)
SameHands ==
    /\ count' = count
    /\ \A u \in Threads : pc'[u] = "idle" <=> pc[u] = "idle"

LEMMA StepHands ==
    ASSUME TypeOK, NEW t \in Threads,
           \/ Return(t) \/ Lead(t) \/ Wait(t) \/ WakeUp(t) \/ Begin(t) \/ BeginThrows(t)
           \/ WriteHeader(t) \/ WriteBody(t) \/ WriteFails(t) \/ Commit(t) \/ CommitFails(t)
           \/ Rewind(t)
    PROVE  SameHands /\ acked' = acked
<1> USE DEF TypeOK, SameHands
<1>1. CASE Return(t)
  BY <1>1 DEF Return
<1>2. CASE Lead(t)
  BY <1>2 DEF Lead
<1>3. CASE Wait(t)
  BY <1>3 DEF Wait
<1>4. CASE WakeUp(t)
  BY <1>4 DEF WakeUp
<1>5. CASE Begin(t)
  BY <1>5 DEF Begin
<1>6. CASE BeginThrows(t)
  BY <1>6 DEF BeginThrows
<1>7. CASE WriteHeader(t) \/ WriteBody(t)
  BY <1>7 DEF WriteHeader, WriteBody
<1>8. CASE WriteFails(t)
  BY <1>8 DEF WriteFails
<1>9. CASE Commit(t) \/ CommitFails(t)
  BY <1>9 DEF Commit, CommitFails
<1>10. CASE Rewind(t)
  BY <1>10 DEF Rewind, Notified
<1> QED
  BY <1>1, <1>2, <1>3, <1>4, <1>5, <1>6, <1>7, <1>8, <1>9, <1>10

(* What the steps do with the file: it keeps its beginning.                 *)
LEMMA StepFile ==
    ASSUME TypeOK, NEW t \in Threads,
           \/ Return(t) \/ Lead(t) \/ Wait(t) \/ WakeUp(t) \/ Begin(t) \/ BeginThrows(t)
           \/ Commit(t) \/ CommitFails(t) \/ Rewind(t) \/ Body(t) \/ Answer(t)
    PROVE  mbox' = mbox /\ (~Commit(t) => synced' = synced)
<1> USE DEF fileVars
<1>1. CASE Return(t) \/ Lead(t) \/ Wait(t) \/ WakeUp(t) \/ BeginThrows(t)
  BY <1>1 DEF Return, Lead, Wait, WakeUp, BeginThrows
<1>2. CASE Begin(t)
  BY <1>2 DEF Begin, Opened
<1>3. CASE Commit(t) \/ CommitFails(t)
  BY <1>3 DEF Commit, CommitFails
<1>4. CASE Rewind(t) \/ Body(t) \/ Answer(t)
  BY <1>4 DEF Rewind, Body, Answer
<1> QED
  BY <1>1, <1>2, <1>3, <1>4

LEMMA StepWrites ==
    ASSUME IInv, TakenInv, NEW t \in Threads, WriteHeader(t) \/ WriteBody(t) \/ WriteFails(t)
    PROVE  /\ synced' = synced
           /\ \/ mbox' = mbox
              \/ \E f \in Fragments : Added(f) /\ IsTaken(f.mail) /\ Len(mbox) \in Nat
<1>1. TypeOK /\ QueueInv /\ PlaceInv
  BY DEF IInv, FileInv
<1>2. Writing(t) /\ synced' = synced
  BY DEF WriteHeader, WriteBody, WriteFails, Writing
<1>3. PICK w \in BOOLEAN : Appends(t, w)
  BY DEF WriteHeader, WriteBody, WriteFails, Appends
<1>4. Proc(t) \in Threads /\ Proc(t) \in Batch(t)
  BY <1>1, <1>2, TheProc DEF Writing
<1>5. pc[Proc(t)] # "idle"
  <2>1. Proc(t) = t \/ pc[Proc(t)] \in Asleep
    BY <1>1, <1>4 DEF QueueInv, BatchInv
  <2> QED
    BY <1>2, <2>1 DEF Asleep, Writing
<1>6. count[Proc(t)] \in Nat /\ count[Proc(t)] # 0
  BY <1>1, <1>4, <1>5 DEF TypeOK, TakenInv
<1>7. IsTaken(Mail(Proc(t)))
  <2>1. count[Proc(t)] \in 1 .. count[Proc(t)]
    BY <1>6
  <2> QED
    BY <1>4, <2>1 DEF IsTaken, Mail
<1> DEFINE f == Fragment(Mail(Proc(t)), pc[t], w)
<1>8. f \in Fragments /\ f.mail = Mail(Proc(t))
  <2>1. pc[t] \in {"header", "body"}
    BY <1>2 DEF Writing
  <2> QED
    BY <1>1, <1>4, <2>1, TypeOfFragments DEF Fragment
<1> HIDE DEF f
<1>9. CASE mbox' = Append(mbox, f)
  <2>1. Added(f) /\ Len(mbox) \in Nat
    BY <1>1, <1>8, <1>9, Adding
  <2> QED
    BY <1>2, <1>7, <1>8, <2>1
<1> QED
  BY <1>2, <1>3, <1>9 DEF Appends, f

LEMMA RestartStep ==
    ASSUME TypeOK, PowerLoss \/ \E t \in Threads : Abort(t)
    PROVE  \E n \in synced .. Len(mbox) : Restart(n)
  BY DEF TypeOK, Abort, PowerLoss

LEMMA TakenStep == ASSUME IInv, TakenInv, TypeOK', [Next]_vars PROVE TakenInv'
<1> DEFINE Gone == \A i \in 1 .. Len(mbox') : IsTaken(mbox'[i].mail)
<1>0. TypeOK /\ Len(mbox) \in Nat
  BY DEF IInv, TypeOK
<1>1. ASSUME \A t \in Threads : count[t] <= count'[t], Gone,
             \A t \in Threads : pc'[t] # "idle" => count'[t] # 0
      PROVE  TakenInv'
  <2>1. \A m : IsTaken(m) => IsTaken(m)'
    BY <1>0, <1>1, StaysTaken DEF TypeOK
  <2>2. ASSUME NEW i \in 1 .. Len(mbox')
        PROVE  \E t \in Threads : \E k \in 1 .. count'[t] : mbox'[i].mail = <<t, k>>
    <3>1. PICK m : m = mbox'[i].mail
      OBVIOUS
    <3>2. IsTaken(m)'
      BY <1>1, <2>1, <3>1
    <3> QED
      BY <3>1, <3>2 DEF IsTaken
  <2> QED
    BY <1>1, <2>2 DEF TakenInv, IsTaken
<1>2. ASSUME SameHands, Gone PROVE TakenInv'
  <2>1. \A t \in Threads : count[t] <= count'[t]
    BY <1>0, <1>2 DEF SameHands, TypeOK
  <2>2. \A t \in Threads : pc'[t] # "idle" => count'[t] # 0
    BY <1>2 DEF SameHands, TakenInv
  <2> QED
    BY <1>1, <1>2, <2>1, <2>2
<1>3. mbox' = mbox => Gone
  BY DEF TakenInv
<1>4. ASSUME NEW t \in Threads,
             \/ Return(t) \/ Lead(t) \/ Wait(t) \/ WakeUp(t) \/ Begin(t) \/ BeginThrows(t)
             \/ Commit(t) \/ CommitFails(t) \/ Rewind(t)
      PROVE  TakenInv'
  <2>1. SameHands
    BY <1>0, <1>4, StepHands
  <2>2. mbox' = mbox
    BY <1>0, <1>4, StepFile
  <2> QED
    BY <1>2, <1>3, <2>1, <2>2
<1>5. ASSUME NEW t \in Threads, WriteHeader(t) \/ WriteBody(t) \/ WriteFails(t) PROVE TakenInv'
  <2>1. SameHands
    BY <1>0, <1>5, StepHands
  <2>2. CASE mbox' = mbox
    BY <1>2, <1>3, <2>1, <2>2
  <2>3. ASSUME NEW f \in Fragments, Added(f), IsTaken(f.mail) PROVE Gone
    <3>1. \A i \in 1 .. Len(mbox') : i \in 1 .. Len(mbox) \/ i = Len(mbox) + 1
      BY <1>0, <2>3 DEF Added
    <3> QED
      BY <2>3, <3>1 DEF Added, TakenInv
  <2> QED
    BY <1>2, <1>5, <2>1, <2>2, <2>3, StepWrites
<1>6. ASSUME NEW t \in Threads, Body(t) PROVE TakenInv'
  <2>1. /\ \A u \in Threads : u # t => count'[u] = count[u] /\ pc'[u] = pc[u]
        /\ count'[t] = count[t] + 1 /\ mbox' = mbox
    BY <1>0, <1>6, StepFile DEF Body, TypeOK
  <2>2. \A u \in Threads : count[u] \in Nat
    BY <1>0 DEF TypeOK
  <2>3. \A u \in Threads : count[u] <= count'[u] /\ (pc'[u] # "idle" => count'[u] # 0)
    BY <2>1, <2>2 DEF TakenInv
  <2> QED
    BY <1>1, <1>3, <2>1, <2>3
<1>7. ASSUME NEW t \in Threads, Answer(t) PROVE TakenInv'
  <2>1. /\ \A u \in Threads : pc'[u] # "idle" => pc[u] # "idle"
        /\ count' = count /\ mbox' = mbox
    BY <1>0, <1>7, StepFile DEF Answer, TypeOK
  <2>2. \A u \in Threads : count[u] \in Nat
    BY <1>0 DEF TypeOK
  <2>3. \A u \in Threads : count[u] <= count'[u] /\ (pc'[u] # "idle" => count'[u] # 0)
    BY <2>1, <2>2 DEF TakenInv
  <2> QED
    BY <1>1, <1>3, <2>1, <2>3
<1>8. ASSUME PowerLoss \/ \E t \in Threads : Abort(t) PROVE TakenInv'
  <2>1. PICK n \in synced .. Len(mbox) : Restart(n)
    BY <1>0, <1>8, RestartStep
  <2>2. n \in 0 .. Len(mbox)
    BY <1>0 DEF TypeOK
  <2>3. Len(mbox') = n /\ \A i \in 1 .. n : mbox'[i] = mbox[i]
    BY <1>0, <2>1, <2>2, Cutting DEF Restart
  <2>4. \A i \in 1 .. n : i \in 1 .. Len(mbox)
    BY <1>0, <2>2
  <2>5. Gone
    BY <2>3, <2>4 DEF TakenInv
  <2>6. \A u \in Threads : pc'[u] = "idle" /\ count'[u] = count[u] /\ count[u] \in Nat
    BY <1>0, <2>1 DEF Restart, Idle, TypeOK
  <2> QED
    BY <1>1, <2>5, <2>6
<1>9. ASSUME UNCHANGED vars PROVE TakenInv'
  <2>1. SameHands /\ mbox' = mbox
    BY <1>9 DEF vars, SameHands, fileVars
  <2> QED
    BY <1>2, <1>3, <2>1
<1> QED
  BY <1>4, <1>5, <1>6, <1>7, <1>8, <1>9 DEF Next, Step, Fault

(* The durable mails of a file f of which n fragments are synced.           *)
DurableOf(f, n) == {m \in {f[i].mail : i \in DOMAIN f} : Found(m, n, f)}

LEMMA DurableIs ==
    /\ Durable = DurableOf(mbox, synced)
    /\ Durable' = DurableOf(mbox', synced')
  BY DEF Durable, DurableOf, InFile, Found

LEMMA DurableFound ==
    ASSUME NEW f \in Seq(Fragments), NEW n \in 0 .. Len(f), NEW m
    PROVE  m \in DurableOf(f, n) <=> Found(m, n, f)
<1>1. ASSUME Found(m, n, f) PROVE m \in {f[i].mail : i \in DOMAIN f}
  <2>1. PICK i \in 1 .. n : f[i] = Fragment(m, "header", TRUE)
    BY <1>1 DEF Found
  <2>2. i \in DOMAIN f
    OBVIOUS
  <2>3. f[i].mail = m
    BY <2>1 DEF Fragment
  <2> QED
    BY <2>2, <2>3
<1> QED
  BY <1>1 DEF DurableOf

(* A file that keeps what is synced keeps its durable mails.                *)
LEMMA DurableKept ==
    ASSUME TypeOK, TypeOK', synced' = synced, \A i \in 1 .. synced : mbox'[i] = mbox[i]
    PROVE  Durable' = Durable
<1>1. /\ mbox \in Seq(Fragments) /\ synced \in 0 .. Len(mbox) /\ synced \in Nat
      /\ mbox' \in Seq(Fragments) /\ synced \in 0 .. Len(mbox')
  BY DEF TypeOK
<1>2. \A i \in 1 .. synced : mbox[i] = mbox'[i]
  OBVIOUS
<1>3. \A m : Found(m, synced, mbox) <=> Found(m, synced, mbox')
  BY <1>1, <1>2, FoundKept
<1>4. \A m : m \in Durable <=> Found(m, synced, mbox)
  BY <1>1, DurableIs, DurableFound
<1>5. \A m : m \in Durable' <=> Found(m, synced, mbox')
  BY <1>1, DurableIs, DurableFound
<1> QED
  BY <1>3, <1>4, <1>5

LEMMA DurableIsTaken == ASSUME TypeOK, TakenInv PROVE Durable \subseteq Taken
<1>1. mbox \in Seq(Fragments) /\ DOMAIN mbox = 1 .. Len(mbox)
  BY DEF TypeOK
<1>2. \A m \in Durable : IsTaken(m)
  BY <1>1 DEF Durable, TakenInv
<1> QED
  BY <1>2, TakenIs

LEMMA SameInHand == ASSUME SameHands PROVE InHand' = InHand /\ Taken' = Taken
  BY DEF SameHands, InHand, Taken, Mail

LEMMA StoreMapInit == Init => Store!Init
<1> SUFFICES ASSUME Init PROVE Store!Init
  OBVIOUS
<1>1. /\ \A t \in Threads : pc[t] = "idle" /\ count[t] = 0
      /\ mbox = <<>> /\ acked = {}
  BY DEF Init, Idle
<1>2. InHand = Store!Nothing
  BY <1>1 DEF InHand, Store!Nothing
<1>3. Taken = {}
  <2>1. \A m : ~IsTaken(m)
    BY <1>1 DEF IsTaken
  <2> QED
    BY <2>1, TakenIs
<1>4. Durable = {}
  <2>1. DOMAIN mbox = {}
    BY <1>1
  <2> QED
    BY <2>1 DEF Durable
<1> QED
  BY <1>1, <1>2, <1>3, <1>4 DEF Store!Init

LEMMA MapSync ==
    ASSUME TypeOK, TypeOK', TakenInv, TakenInv', NEW t \in Threads, Commit(t)
    PROVE  Store!Sync
<1>1. SameHands /\ acked' = acked /\ mbox' = mbox
  BY StepHands, StepFile
<1>2. synced' = Len(mbox) /\ Len(mbox) \in Nat /\ mbox \in Seq(Fragments)
      /\ synced \in Nat /\ synced <= Len(mbox)
  BY DEF Commit, TypeOK
<1>3. Durable \subseteq Durable'
  <2>1. \A i \in 1 .. synced : mbox[i] = mbox[i]
    OBVIOUS
  <2>2. \A m : Found(m, synced, mbox) => Found(m, Len(mbox), mbox)
    BY <1>2, <2>1, FoundKept
  <2>3. synced \in 0 .. Len(mbox) /\ Len(mbox) \in 0 .. Len(mbox)
    BY <1>2
  <2>4. \A m : m \in Durable => Found(m, synced, mbox)
    BY <1>2, <2>3, DurableIs, DurableFound
  <2>5. \A m : Found(m, Len(mbox), mbox) => m \in Durable'
    BY <1>1, <1>2, <2>3, DurableIs, DurableFound
  <2> QED
    BY <2>2, <2>4, <2>5
<1>4. InHand' = InHand /\ Taken' = Taken
  BY <1>1, SameInHand
<1>5. Durable' \subseteq Taken
  <2>1. \A i \in 1 .. Len(mbox) : mbox[i].mail \in Taken
    BY TakenIs DEF TakenInv
  <2>2. DOMAIN mbox = 1 .. Len(mbox)
    BY <1>2
  <2>3. Durable' \subseteq {mbox'[i].mail : i \in DOMAIN mbox'}
    BY DurableIs DEF DurableOf
  <2> QED
    BY <1>1, <2>1, <2>2, <2>3
<1> QED
  BY <1>1, <1>3, <1>4, <1>5 DEF Store!Sync

LEMMA MapTake ==
    ASSUME TypeOK, TypeOK', NEW t \in Threads, Body(t)
    PROVE  \E m \in Threads \X (1 .. MaxMails) : Store!Take(t, m)
<1> DEFINE k == count[t] + 1
<1> PICK m : m = <<t, k>>
  OBVIOUS
<1>1. /\ pc[t] = "idle" /\ pc'[t] = "lock" /\ count[t] \in Nat /\ count[t] < MaxMails
      /\ count'[t] = k /\ acked' = acked
      /\ \A u \in Threads : u # t => pc'[u] = pc[u] /\ count'[u] = count[u]
  BY DEF Body, TypeOK
<1>2. MaxMails \in Nat
  BY BoundsAssumption
<1>3. k \in 1 .. MaxMails /\ k \in 1 .. count'[t] /\ k \notin 1 .. count[t]
  BY <1>1, <1>2
<1>4. Durable' = Durable
  <2>1. mbox' = mbox /\ synced' = synced
    BY DEF Body, fileVars
  <2> QED
    BY <2>1, DurableKept
<1>5. InHand[t] = {} /\ InHand' = [InHand EXCEPT ![t] = {m}]
  <2>1. InHand[t] = {} /\ InHand'[t] = {m}
    BY <1>1 DEF InHand, Mail
  <2>2. \A u \in Threads : u # t => InHand'[u] = InHand[u]
    BY <1>1 DEF InHand, Mail
  <2>3. DOMAIN InHand = Threads /\ DOMAIN InHand' = Threads
        /\ InHand' = [u \in Threads |-> InHand'[u]]
    BY DEF InHand
  <2> QED
    BY <2>1, <2>2, <2>3
<1>6. m \notin Taken
  BY <1>3, TakenIs DEF IsTaken
<1>7. Taken' = Taken \cup {m}
  <2>1. \A x : IsTaken(x)' => IsTaken(x) \/ x = m
    <3> SUFFICES ASSUME NEW x, NEW u \in Threads, NEW j \in 1 .. count'[u], x = <<u, j>>
                 PROVE  IsTaken(x) \/ x = m
      BY DEF IsTaken
    <3>1. CASE u # t
      BY <1>1, <3>1 DEF IsTaken
    <3>2. CASE u = t
      <4>1. j \in 1 .. count[t] \/ j = k
        BY <1>1, <3>2
      <4> QED
        BY <3>2, <4>1 DEF IsTaken
    <3> QED
      BY <3>1, <3>2
  <2>2. IsTaken(m)'
    BY <1>3 DEF IsTaken
  <2>3. \A x : IsTaken(x) => IsTaken(x)'
    <3>1. \A u \in Threads : count[u] <= count'[u]
      <4>1. \A u \in Threads : count[u] \in Nat
        BY DEF TypeOK
      <4> QED
        BY <1>1, <4>1
    <3> QED
      BY <3>1, StaysTaken DEF TypeOK
  <2> QED
    BY <2>1, <2>2, <2>3, TakenIs
<1>8. Store!Take(t, m)
  BY <1>1, <1>4, <1>5, <1>6, <1>7 DEF Store!Take
<1>9. m \in Threads \X (1 .. MaxMails)
  BY <1>3
<1> QED
  BY <1>8, <1>9

LEMMA MapAnswer ==
    ASSUME IInv, TypeOK', NEW t \in Threads, Answer(t)
    PROVE  Store!Acknowledge(t) \/ Store!Refuse(t)
<1>0. TypeOK /\ StoredInv
  BY DEF IInv, FileInv
<1>1. /\ pc[t] = "answer" /\ pc'[t] = "idle" /\ count' = count
      /\ \A u \in Threads : u # t => pc'[u] = pc[u]
      /\ acked' = IF Stored(t) THEN acked \cup {Mail(t)} ELSE acked
  BY <1>0 DEF Answer, TypeOK
<1>2. Durable' = Durable
  <2>1. mbox' = mbox /\ synced' = synced
    BY DEF Answer, fileVars
  <2> QED
    BY <1>0, <2>1, DurableKept
<1>3. Taken' = Taken
  BY <1>1 DEF Taken
<1>4. InHand[t] = {Mail(t)} /\ InHand' = [InHand EXCEPT ![t] = {}]
  <2>1. InHand[t] = {Mail(t)} /\ InHand'[t] = {}
    BY <1>1 DEF InHand
  <2>2. \A u \in Threads : u # t => InHand'[u] = InHand[u]
    BY <1>1 DEF InHand, Mail
  <2>3. DOMAIN InHand = Threads /\ DOMAIN InHand' = Threads
        /\ InHand' = [u \in Threads |-> InHand'[u]]
    BY DEF InHand
  <2> QED
    BY <2>1, <2>2, <2>3
<1>5. CASE Stored(t)
  <2>1. Found(Mail(t), synced, mbox)
    BY <1>0, <1>5, InFileFound DEF Stored, StoredInv
  <2>2. mbox \in Seq(Fragments) /\ synced \in 0 .. Len(mbox)
    BY <1>0 DEF TypeOK
  <2>3. Mail(t) \in Durable
    BY <2>1, <2>2, DurableIs, DurableFound
  <2>4. InHand[t] # {} /\ InHand[t] \subseteq Durable /\ acked' = acked \cup InHand[t]
    BY <1>1, <1>4, <1>5, <2>3
  <2> QED
    BY <1>2, <1>3, <1>4, <2>4 DEF Store!Acknowledge
<1>6. CASE ~Stored(t)
  <2>1. InHand[t] # {} /\ acked' = acked
    BY <1>1, <1>4, <1>6
  <2> QED
    BY <1>2, <1>3, <1>4, <2>1 DEF Store!Refuse
<1> QED
  BY <1>5, <1>6

LEMMA MapRestart ==
    ASSUME TypeOK, TypeOK', PowerLoss \/ \E t \in Threads : Abort(t)
    PROVE  Store!Restart
<1>1. PICK n \in synced .. Len(mbox) : Restart(n)
  BY RestartStep
<1>2. n \in 0 .. Len(mbox) /\ synced \in Nat /\ synced <= n /\ n \in Nat
  BY DEF TypeOK
<1>3. \A i \in 1 .. n : mbox'[i] = mbox[i]
  BY <1>1, <1>2, Cutting DEF Restart
<1>4. \A i \in 1 .. synced : mbox'[i] = mbox[i]
  BY <1>2, <1>3
<1>5. Durable' = Durable
  BY <1>1, <1>4, DurableKept DEF Restart
<1>6. Taken' = Taken /\ acked' = acked
  BY <1>1 DEF Restart, Taken
<1>7. InHand' = Store!Nothing
  BY <1>1 DEF Restart, Idle, InHand, Store!Nothing
<1> QED
  BY <1>5, <1>6, <1>7 DEF Store!Restart

LEMMA StoreMapNext ==
    ASSUME IInv, TakenInv, IInv', TakenInv', [Next]_vars
    PROVE  [Store!Next]_Store!vars
<1>0. TypeOK /\ TypeOK'
  BY DEF IInv
<1>1. ASSUME SameHands, acked' = acked, synced' = synced,
             \A i \in 1 .. synced : mbox'[i] = mbox[i]
      PROVE  UNCHANGED Store!vars
  BY <1>0, <1>1, DurableKept, SameInHand DEF Store!vars
<1>2. ASSUME NEW t \in Threads,
             \/ Return(t) \/ Lead(t) \/ Wait(t) \/ WakeUp(t) \/ Begin(t) \/ BeginThrows(t)
             \/ CommitFails(t) \/ Rewind(t)
      PROVE  UNCHANGED Store!vars
  <2>1. SameHands /\ acked' = acked
    BY <1>0, <1>2, StepHands
  <2>2. mbox' = mbox /\ synced' = synced
    <3>1. CASE CommitFails(t)
      BY <3>1 DEF CommitFails, fileVars
    <3>2. CASE Rewind(t)
      BY <3>2 DEF Rewind, fileVars
    <3>3. CASE Return(t) \/ Lead(t) \/ Wait(t) \/ WakeUp(t) \/ BeginThrows(t)
      BY <3>3 DEF Return, Lead, Wait, WakeUp, BeginThrows, fileVars
    <3>4. CASE Begin(t)
      BY <3>4 DEF Begin, Opened
    <3> QED
      BY <1>2, <3>1, <3>2, <3>3, <3>4
  <2> QED
    BY <1>1, <2>1, <2>2
<1>3. ASSUME NEW t \in Threads, WriteHeader(t) \/ WriteBody(t) \/ WriteFails(t)
      PROVE  UNCHANGED Store!vars
  <2>1. SameHands /\ acked' = acked
    BY <1>0, <1>3, StepHands
  <2>2. synced' = synced /\ \A i \in 1 .. Len(mbox) : mbox'[i] = mbox[i]
    BY <1>3, StepWrites DEF Added
  <2>3. \A i \in 1 .. synced : i \in 1 .. Len(mbox)
    BY <1>0 DEF TypeOK
  <2> QED
    BY <1>1, <2>1, <2>2, <2>3
<1>4. ASSUME NEW t \in Threads, Commit(t) PROVE Store!Next
  BY <1>0, <1>4, MapSync DEF Store!Next
<1>5. ASSUME NEW t \in Threads, Body(t) PROVE Store!Next
  BY <1>0, <1>5, MapTake DEF Store!Next
<1>6. ASSUME NEW t \in Threads, Answer(t) PROVE Store!Next
  BY <1>0, <1>6, MapAnswer DEF Store!Next
<1>7. ASSUME PowerLoss \/ \E t \in Threads : Abort(t) PROVE Store!Next
  BY <1>0, <1>7, MapRestart DEF Store!Next
<1>8. ASSUME UNCHANGED vars PROVE UNCHANGED Store!vars
  BY <1>1, <1>8 DEF vars, SameHands, fileVars
<1> QED
  BY <1>2, <1>3, <1>4, <1>5, <1>6, <1>7, <1>8 DEF Next, Step, Fault

(* The mail server implements StableStore: through every interleaving of    *)
(* the threads, every failing write or sync and every crash, durable mails  *)
(* stay, and only a durable mail is acknowledged.                           *)
THEOREM ServerImplementsStore == Spec => ImplementsStore
<1>1. Init => IInv /\ TakenInv /\ Store!Init
  BY StoreInit, TakenInit, StoreMapInit
<1>2. IInv /\ TakenInv /\ [Next]_vars => IInv' /\ TakenInv'
  <2>1. IInv' => TypeOK'
    BY DEF IInv
  <2> QED
    BY <2>1, StoreStep, TakenStep
<1>3. IInv /\ TakenInv /\ IInv' /\ TakenInv' /\ [Next]_vars => [Store!Next]_Store!vars
  BY StoreMapNext
<1> QED
  BY <1>1, <1>2, <1>3, PTL DEF Spec, ImplementsStore, Store!Spec
=============================================================================

--------------------------- MODULE SessionProofs ---------------------------
(***************************************************************************)
(* Theorems about SessionClient, for any number of users, calls, tokens,   *)
(* sign-ins and restarts.                                                  *)
(*                                                                         *)
(* The argument: every credential a task of the current epoch carries      *)
(* belongs to the account of `credentials`, an epoch ends whenever that    *)
(* account does, and a token that is not yet published is held by one task *)
(* alone and was never spent.                                              *)
(***************************************************************************)
EXTENDS SessionClient, TLAPS

Issues == [user : Users, root : Tokens]
Entries == [by : Tasks, act : {"clear", "set"}, token : 0 .. MaxTokens,
            asserts : BOOLEAN]
Messages == [kind : {"login", "refresh", "logout"}, token : 0 .. MaxTokens]

(* A token that is not published yet.                                      *)
Holds(r) == r.pc = "saving" \/ (r.pc = "asking" /\ r.ans = "ok")

HasToken(r) ==
  \/ Holds(r)
  \/ r.pc \in {"clearing", "revoking", "leaving", "sent", "replayed"}
  \/ r.pc = "asking" /\ r.op = "refresh"

ServerOK ==
  /\ issued \in Seq(Issues) /\ Len(issued) <= MaxTokens
  /\ live \subseteq 1 .. Len(issued) /\ lapsed \subseteq 1 .. Len(issued)
  /\ suspended \subseteq Users

(* A record of task t, whatever the epoch.                                 *)
RecOK(t, r) ==
  /\ r \in TaskRecords /\ r.token <= Len(issued)
  /\ t \in Flights => r.op \in {"none", "refresh"}
  /\ t \in Calls => r.op # "refresh"
  /\ r.op = "none" <=> r.pc = "idle"
  /\ r.pc = "reading" => t = Boot /\ r.op = "initialize" /\ r.epoch = 0
  /\ r.pc = "starting" => r.op = "login"
  /\ r.pc = "clearing" => r.op = "refresh"
  /\ r.pc \in {"asking", "saving"} => r.op \in {"login", "refresh"}
  /\ r.pc = "leaving" => r.op = "logout"
  /\ r.pc \in {"joined", "sent", "recovering", "replayed"}
       => t \in Calls /\ r.op \in {"initialize", "login"} \cup Ops
  /\ HasToken(r) => r.token # NoToken

SameAccount(k) == UserOf(k) = UserOf(credentials.refresh)

(* What a task of the current epoch may rely on.                           *)
EpochOK(t, r) ==
  /\ r.op = "login" /\ r.pc \in {"starting", "asking", "saving"}
       => credentials = NoCredentials /\ cache = None /\ snapshot.status = "loading"
  /\ r.op = "refresh" /\ r.pc \in {"clearing", "asking", "saving"}
       => refreshFlight = t /\ credentials.refresh # NoToken /\ SameAccount(r.token)
  /\ r.pc = "clearing" => r.token = credentials.refresh /\ r.token \notin spent
  /\ r.pc \in {"sent", "replayed"} => credentials.access # NoToken /\ SameAccount(r.token)
  /\ r.pc \in {"joined", "recovering"}
       => credentials.refresh # NoToken /\ (r.ans = "ok" => credentials.access # NoToken)

TaskOK(t, r) ==
  /\ RecOK(t, r)
  /\ r.epoch <= epoch
  /\ r.pc \in {"revoking", "dropping", "leaving"} => r.epoch # epoch
  /\ Holds(r) => r.token \notin spent /\ r.token # credentials.refresh
  /\ r.epoch = epoch => EpochOK(t, r)

Signing(r, e) ==
  r.op = "login" /\ r.pc \in {"starting", "asking", "saving"} /\ r.epoch = e

TasksOK ==
  /\ DOMAIN task = Tasks /\ task = [t \in Tasks |-> task[t]]
  /\ \A t \in Tasks : TaskOK(t, task[t])
  /\ \A t, s \in Tasks : Holds(task[t]) /\ Holds(task[s]) /\ task[t].token = task[s].token
                         => t = s
  /\ \A t, s \in Tasks : Signing(task[t], epoch) /\ Signing(task[s], epoch) => t = s

MemoryOK ==
  /\ epoch \in Nat /\ credentials \in Credentials /\ snapshot \in Snapshots
  /\ refreshFlight \in Flights \cup {None} /\ cache \in Users \cup {None}
  /\ credentials.refresh <= Len(issued)
  /\ credentials.access # NoToken => credentials.access = credentials.refresh
  /\ credentials.refresh # NoToken /\ credentials.access = NoToken => Flying
  /\ credentials.refresh \in spent => Flying
  /\ refreshFlight # None => task[refreshFlight].pc # "idle"
  /\ snapshot.status = "authenticated"
       => credentials.access # NoToken /\ UserOf(credentials.refresh) = snapshot.user
  /\ snapshot.status # "authenticated" => snapshot.user = None
  /\ snapshot.status = "signedOut" => credentials = NoCredentials
  /\ cache # None => credentials.refresh # NoToken /\ UserOf(credentials.refresh) = cache

(* An operation of the storage queue, and the task that waits for it.       *)
EntryOK(q, ts) ==
  /\ ts[q.by].stored = "none"
  /\ ts[q.by].pc \in {"starting", "clearing", "saving", "dropping", "leaving"}
  /\ q.act = "set" => ts[q.by].pc = "saving" /\ q.token = ts[q.by].token

StorageOK ==
  /\ queue \in Seq(Entries) /\ busy \in BOOLEAN /\ (busy => queue # <<>>)
  /\ \A i \in 1 .. Len(queue) : EntryOK(queue[i], task)
  /\ \A i, j \in 1 .. Len(queue) : queue[i].by = queue[j].by => i = j
  /\ durable \in 0 .. Len(issued) /\ durable \notin spent
  /\ \A t \in Tasks : task[t].pc = "clearing" /\ task[t].stored = "ok" => durable = NoToken

(* Until initialize() has read the storage nothing else runs.              *)
BootOK ==
  task[Boot].pc = "reading" /\ epoch = 0 =>
    /\ \A t \in Tasks \ {Boot} : task[t] = Idle
    /\ credentials = NoCredentials /\ snapshot = Loading /\ cache = None

HistoryOK ==
  /\ late \subseteq Messages /\ \A m \in late : m.token <= Len(issued)
  /\ \A m \in late : m.kind # "login" => m.token # NoToken
  /\ spent \subseteq 1 .. Len(issued) /\ storeFailed \in BOOLEAN
  /\ ended \subseteq Tokens
  /\ logins \in 0 .. MaxLogins /\ crashes \in 0 .. MaxCrashes

Inv == ServerOK /\ TasksOK /\ MemoryOK /\ StorageOK /\ BootOK /\ HistoryOK

-----------------------------------------------------------------------------
(* The server: what an answer tells, and what it leaves behind.            *)
Extends(r) ==
  /\ r.issued \in Seq(Issues) /\ Len(r.issued) <= MaxTokens
  /\ Len(issued) <= Len(r.issued)
  /\ \A i \in 1 .. Len(issued) : r.issued[i] = issued[i]
  /\ r.live \subseteq 1 .. Len(r.issued) /\ r.lapsed \subseteq 1 .. Len(r.issued)
  /\ r.suspended \subseteq Users

IssuesTo(r, u) ==
  Len(r.issued) = Len(issued) + 1 /\ r.token = Len(issued) + 1 /\ r.issued[r.token].user = u

LEMMA IssuedOK ==
  ASSUME ServerOK, NEW k \in 1 .. Len(issued)
  PROVE  UserOf(k) \in Users /\ RootOf(k) \in Tokens
<1>1. issued[k] \in Issues
  BY DEF ServerOK
<1>2. \A x \in Issues : x.user \in Users /\ x.root \in Tokens
  BY DEF Issues
<1> QED BY <1>1, <1>2 DEF UserOf, RootOf

LEMMA SameOK ==
  ASSUME SessionAssumption, ServerOK, NEW ans, NEW k
  PROVE  Extends(Same(ans, k)) /\ Same(ans, k).token = k /\ Same(ans, k).ans = ans
BY DEF ServerOK, Extends, Same

LEMMA IssueOK ==
  ASSUME SessionAssumption, ServerOK, NEW rest \in SUBSET (1 .. Len(issued)),
         NEW u \in Users, NEW root, root \in Tokens \/ root = Len(issued) + 1,
         Len(Issue(rest, u, root).issued) <= MaxTokens
  PROVE  /\ Extends(Issue(rest, u, root)) /\ IssuesTo(Issue(rest, u, root), u)
         /\ Issue(rest, u, root).ans = "ok"
<1> DEFINE r == Issue(rest, u, root)
           x == [user |-> u, root |-> root]
<1>1. /\ r.issued = Append(issued, x) /\ r.live = rest \cup {Len(issued) + 1}
      /\ r.lapsed = lapsed /\ r.suspended = suspended /\ r.ans = "ok"
      /\ r.token = Len(issued) + 1
  BY DEF Issue, Same
<1>2. Len(issued) \in Nat /\ Len(Append(issued, x)) = Len(issued) + 1
  BY DEF ServerOK
<1>3. x \in Issues
  BY <1>1, <1>2 DEF Issues, Tokens, SessionAssumption
<1>4. Append(issued, x) \in Seq(Issues)
  BY <1>3 DEF ServerOK
<1>5. /\ \A i \in 1 .. Len(issued) : Append(issued, x)[i] = issued[i]
      /\ Append(issued, x)[Len(issued) + 1] = x
  BY <1>2 DEF ServerOK
<1>6. x.user = u /\ Len(r.issued) <= MaxTokens
  OBVIOUS
<1> HIDE DEF r, x
<1>7. Extends(r)
  <2>1. r.live \subseteq 1 .. Len(issued) + 1 /\ r.lapsed \subseteq 1 .. Len(issued) + 1
    <3>1. /\ r.live = rest \cup {Len(issued) + 1} /\ r.lapsed = lapsed
          /\ lapsed \subseteq 1 .. Len(issued) /\ rest \subseteq 1 .. Len(issued)
      BY <1>1 DEF ServerOK
    <3>2. \A n \in Nat : 1 .. n \subseteq 1 .. n + 1 /\ n + 1 \in 1 .. n + 1
      OBVIOUS
    <3>3. 1 .. Len(issued) \subseteq 1 .. Len(issued) + 1
          /\ Len(issued) + 1 \in 1 .. Len(issued) + 1
      BY <1>2, <3>2
    <3> QED BY <3>1, <3>3, Zenon
  <2>2. Len(r.issued) = Len(issued) + 1
    BY <1>1, <1>2
  <2> QED BY <1>1, <1>2, <1>4, <1>5, <1>6, <2>1, <2>2 DEF ServerOK, Extends
<1>8. IssuesTo(r, u)
  BY <1>1, <1>2, <1>5, <1>6 DEF IssuesTo
<1> QED BY <1>1, <1>7, <1>8 DEF r

LEMMA LapsingOK ==
  ASSUME SessionAssumption, ServerOK, NEW k \in 1 .. Len(issued)
  PROVE  Extends(Lapsing(k)) /\ Lapsing(k).token = k /\ Lapsing(k).ans = "401"
BY DEF ServerOK, Extends, Lapsing, Same

LEMMA SuspendingOK ==
  ASSUME SessionAssumption, ServerOK, NEW u \in Users, NEW k
  PROVE  /\ Extends(Suspending(u, k)) /\ Suspending(u, k).token = k
         /\ Suspending(u, k).ans = "suspended"
BY DEF ServerOK, Extends, Suspending, Same

Answers == {"ok", "401", "suspended", "error"}

LEMMA LoginsOK ==
  ASSUME SessionAssumption, ServerOK, NEW r \in Logins, Len(r.issued) <= MaxTokens
  PROVE  /\ Extends(r) /\ r.ans \in Answers
         /\ \/ r.ans = "ok" /\ \E u \in Users : IssuesTo(r, u)
            \/ r.ans # "ok" /\ r.token = NoToken
<1>1. CASE r = Same("error", NoToken)
  BY <1>1, SameOK DEF Answers
<1>2. CASE \E u \in Users : r = Suspending(u, NoToken)
  BY <1>2, SuspendingOK DEF Answers
<1>3. CASE \E u \in Users \ suspended : r = Issue(live, u, Len(issued) + 1)
  <2>1. live \in SUBSET (1 .. Len(issued))
    BY DEF ServerOK
  <2> QED BY <1>3, <2>1, IssueOK DEF Answers
<1> QED BY <1>1, <1>2, <1>3 DEF Logins

LEMMA RotationsOK ==
  ASSUME SessionAssumption, ServerOK, NEW k \in 1 .. Len(issued), NEW r \in Rotations(k),
         Len(r.issued) <= MaxTokens
  PROVE  /\ Extends(r) /\ r.ans \in Answers
         /\ \/ r.ans = "ok" /\ IssuesTo(r, UserOf(k))
            \/ r.ans # "ok" /\ r.token = k
<1>0. UserOf(k) \in Users /\ RootOf(k) \in Tokens
  BY IssuedOK
<1>1. CASE r = [Same("error", k) EXCEPT !.live = {i \in live : UserOf(i) # UserOf(k)}]
  BY <1>1 DEF Same, Answers, Extends, ServerOK
<1>2. CASE r = Suspending(UserOf(k), k)
  BY <1>0, <1>2, SuspendingOK DEF Answers
<1>3. CASE r = Issue(live \ {k}, UserOf(k), RootOf(k))
  <2>1. live \ {k} \in SUBSET (1 .. Len(issued))
    BY DEF ServerOK
  <2> QED BY <1>0, <1>3, <2>1, IssueOK DEF Answers
<1> QED BY <1>1, <1>2, <1>3 DEF Rotations

LEMMA AdmittedOK ==
  ASSUME SessionAssumption, ServerOK, NEW k \in 1 .. Len(issued), NEW done,
         Extends(done), done.token = k, done.ans = "ok", NEW r \in Admitted(k, done)
  PROVE  Extends(r) /\ r.ans \in Answers /\ r.token = k
<1>1. UserOf(k) \in Users
  BY IssuedOK
<1>2. CASE r = Lapsing(k)
  BY <1>2, LapsingOK DEF Answers
<1>3. CASE r = Suspending(UserOf(k), k)
  BY <1>1, <1>3, SuspendingOK DEF Answers
<1>4. CASE r = done
  BY <1>4 DEF Answers
<1> QED BY <1>2, <1>3, <1>4 DEF Admitted

(* What the server makes of a message, whatever it decides.                *)
Sendable(m) ==
  /\ m.kind \in {"login", "refresh", "logout", "api"}
  /\ m.kind # "login" => m.token \in 1 .. Len(issued)

LEMMA OutcomeOK ==
  ASSUME SessionAssumption, ServerOK, NEW m, Sendable(m), NEW r \in Outcomes(m)
  PROVE  /\ Extends(r) /\ r.ans \in Answers /\ r.token \in 0 .. Len(r.issued)
         /\ m.kind = "login" => \/ r.ans = "ok" /\ \E u \in Users : IssuesTo(r, u)
                                \/ r.ans # "ok" /\ r.token = NoToken
         /\ m.kind = "refresh" => \/ r.ans = "ok" /\ IssuesTo(r, UserOf(m.token))
                                  \/ r.ans # "ok" /\ r.token = m.token
         /\ m.kind \in {"logout", "api"} => r.token = m.token
<1>0. Len(r.issued) <= MaxTokens /\ Len(issued) \in Nat
  BY DEF Outcomes, ServerOK
<1>1. CASE m.kind = "login"
  <2>1. r \in Logins
    BY <1>1, Zenon DEF Outcomes
  <2>2. Extends(r) /\ r.ans \in Answers
        /\ (\/ r.ans = "ok" /\ \E u \in Users : IssuesTo(r, u)
            \/ r.ans # "ok" /\ r.token = NoToken)
    BY <1>0, <2>1, LoginsOK
  <2>3. r.token \in 0 .. Len(r.issued)
    BY <1>0, <2>2 DEF IssuesTo, Extends, NoToken
  <2> QED BY <1>1, <2>2, <2>3
<1>2. CASE m.kind = "refresh"
  <2>1. r \in Rotations(m.token)
    <3>1. m.kind # "login"
      BY <1>2
    <3> QED BY <1>2, <3>1, Zenon DEF Outcomes
  <2>2. m.token \in 1 .. Len(issued)
    BY <1>2 DEF Sendable
  <2>3. Extends(r) /\ r.ans \in Answers
        /\ (\/ r.ans = "ok" /\ IssuesTo(r, UserOf(m.token))
            \/ r.ans # "ok" /\ r.token = m.token)
    BY <1>0, <2>1, <2>2, RotationsOK
  <2>4. r.token \in 0 .. Len(r.issued)
    BY <1>0, <2>2, <2>3 DEF IssuesTo, Extends
  <2> QED BY <1>2, <2>3, <2>4
<1>3. CASE m.kind = "logout"
  <2>1. r \in Revocations(m.token)
    <3>1. m.kind # "login" /\ m.kind # "refresh"
      BY <1>3
    <3> QED BY <1>3, <3>1, Zenon DEF Outcomes
  <2>2. m.token \in 1 .. Len(issued)
    BY <1>3 DEF Sendable
  <2> DEFINE done == [Same("ok", m.token) EXCEPT !.live = live \ {m.token}]
  <2>3. Extends(done) /\ done.token = m.token /\ done.ans = "ok"
    BY DEF Same, Extends, ServerOK
  <2>4. r \in Admitted(m.token, done)
    BY <2>1 DEF Revocations
  <2> HIDE DEF done
  <2>5. Extends(r) /\ r.ans \in Answers /\ r.token = m.token
    BY <2>2, <2>3, <2>4, AdmittedOK
  <2> QED BY <1>0, <1>3, <2>2, <2>5 DEF Extends
<1>4. CASE m.kind = "api"
  <2>1. r \in Admitted(m.token, Same("ok", m.token))
    <3>1. m.kind # "login" /\ m.kind # "refresh" /\ m.kind # "logout"
      BY <1>4
    <3> QED BY <1>4, <3>1, Zenon DEF Outcomes
  <2>2. m.token \in 1 .. Len(issued)
    BY <1>4 DEF Sendable
  <2>3. Extends(r) /\ r.ans \in Answers /\ r.token = m.token
    BY <2>1, <2>2, SameOK, AdmittedOK
  <2> QED BY <1>0, <1>4, <2>2, <2>3 DEF Extends
<1> QED BY <1>1, <1>2, <1>3, <1>4 DEF Sendable

-----------------------------------------------------------------------------
(* Tasks.  No operation of the storage waits for a task that is Free.      *)
Waiting == {"starting", "clearing", "saving", "dropping", "leaving"}
Free(t) == task[t].stored # "none" \/ task[t].pc \notin Waiting

LEMMA FreeOK ==
  ASSUME Inv, NEW t, Free(t)
  PROVE  \A i \in 1 .. Len(queue) : queue[i].by # t
BY DEF Inv, StorageOK, EntryOK, Free, Waiting

LEMMA TaskFacts ==
  ASSUME SessionAssumption, Inv, NEW t \in Tasks
  PROVE  /\ TaskOK(t, task[t]) /\ task[t] \in TaskRecords
         /\ Idle \in TaskRecords /\ TaskOK(t, Idle) /\ ~Holds(Idle)
<1>1. TaskOK(t, task[t])
  BY DEF Inv, TasksOK
<1>2. Idle \in TaskRecords
  BY DEF Idle, TaskRecords, NoToken, SessionAssumption
<1>3. RecOK(t, Idle) /\ ~Holds(Idle)
  BY <1>2 DEF RecOK, Idle, HasToken, Holds, NoToken, Inv, ServerOK
<1>4. TaskOK(t, Idle)
  BY <1>3 DEF TaskOK, EpochOK, Idle, Inv, MemoryOK
<1> QED BY <1>1, <1>2, <1>3, <1>4 DEF TaskOK, RecOK

LEMMA IdleOK ==
  ASSUME SessionAssumption, NEW t, task'[t] = Idle, Len(issued') \in Nat, epoch' \in Nat
  PROVE  TaskOK(t, task[t])'
<1>1. Idle \in TaskRecords
  BY DEF Idle, TaskRecords, NoToken, SessionAssumption
<1>2. RecOK(t, task[t])'
  BY <1>1 DEF RecOK, Idle, HasToken, Holds, NoToken
<1> QED BY <1>2 DEF TaskOK, EpochOK, Idle, Holds

(* The queue when t has one more operation in it, none, or what it had.     *)
Queued(t, r) ==
  \/ queue' = queue /\ Free(t)
  \/ /\ queue' = queue /\ r.stored = task[t].stored
     /\ r.pc = task[t].pc /\ r.token = task[t].token
  \/ \E q \in Entries :
       /\ queue' = Append(queue, q) /\ q.by = t /\ Free(t)
       /\ r.stored = "none" /\ r.pc \in Waiting
       /\ q.act = "set" => r.pc = "saving" /\ q.token = r.token

(* Every other task keeps its place in the storage queue.                  *)
LEMMA QueueKept ==
  ASSUME SessionAssumption, Inv, NEW t \in Tasks, NEW r, r = task'[t], Queued(t, r),
         busy' = busy, durable' = durable, durable' \notin spent', issued' = issued,
         ~(r.pc = "clearing" /\ r.stored = "ok"),
         \A s \in Tasks \ {t} : /\ task'[s].stored = task[s].stored
                                /\ task'[s].pc = task[s].pc
                                /\ task'[s].token = task[s].token
  PROVE  StorageOK'
<1>0. CASE /\ queue' = queue /\ r.stored = task[t].stored
           /\ r.pc = task[t].pc /\ r.token = task[t].token
  <2>1. \A q \in Entries : EntryOK(q, task) => EntryOK(q, task')
    BY <1>0 DEF EntryOK, Entries
  <2>2. \A i \in 1 .. Len(queue) : EntryOK(queue[i], task')
    BY <2>1 DEF Inv, StorageOK
  <2>3. \A s \in Tasks : task'[s].pc = "clearing" /\ task'[s].stored = "ok"
                         => durable' = NoToken
    BY DEF Inv, StorageOK
  <2> QED BY <1>0, <2>2, <2>3 DEF Inv, StorageOK
<1> SUFFICES ASSUME Free(t) PROVE StorageOK'
  BY <1>0 DEF Queued
<1>1. \A i \in 1 .. Len(queue) : queue[i].by # t /\ queue[i] \in Entries /\ EntryOK(queue[i], task)
  BY FreeOK DEF Inv, StorageOK
<1>2. queue \in Seq(Entries) /\ Len(queue) \in Nat
  BY DEF Inv, StorageOK
<1>3. \A q \in Entries : q.by # t /\ EntryOK(q, task) => EntryOK(q, task')
  BY DEF EntryOK, Entries
<1>4. /\ durable' \in 0 .. Len(issued') /\ durable' \notin spent' /\ busy' \in BOOLEAN
      /\ \A s \in Tasks : task'[s].pc = "clearing" /\ task'[s].stored = "ok"
                          => durable' = NoToken
      /\ \A i, j \in 1 .. Len(queue) : queue[i].by = queue[j].by => i = j
      /\ busy => queue # <<>>
  BY DEF Inv, StorageOK
<1>5. CASE queue' = queue
  <2>1. \A i \in 1 .. Len(queue) : EntryOK(queue[i], task')
    BY <1>1, <1>3, <1>5
  <2> QED BY <1>2, <1>4, <1>5, <2>1 DEF StorageOK
<1>6. CASE queue' # queue
  <2>1. PICK q \in Entries :
          /\ queue' = Append(queue, q) /\ q.by = t
          /\ r.stored = "none" /\ r.pc \in Waiting
          /\ q.act = "set" => r.pc = "saving" /\ q.token = r.token
    BY <1>6 DEF Queued
  <2>2. EntryOK(q, task')
    BY <2>1 DEF EntryOK, Waiting
  <2>3. /\ queue' \in Seq(Entries) /\ Len(queue') = Len(queue) + 1
        /\ \A i \in 1 .. Len(queue) : queue'[i] = queue[i]
        /\ queue'[Len(queue) + 1] = q
    BY <1>2, <2>1
  <2>4. \A i \in 1 .. Len(queue') : i \in 1 .. Len(queue) \/ i = Len(queue) + 1
    BY <1>2, <2>3
  <2>5. \A i \in 1 .. Len(queue') : EntryOK(queue'[i], task')
    <3> SUFFICES ASSUME NEW i \in 1 .. Len(queue') PROVE EntryOK(queue'[i], task')
      OBVIOUS
    <3>1. CASE i \in 1 .. Len(queue)
      BY <1>1, <1>3, <2>3, <3>1
    <3>2. CASE i = Len(queue) + 1
      BY <2>2, <2>3, <3>2
    <3> QED BY <2>4, <3>1, <3>2
  <2>6. \A i, j \in 1 .. Len(queue') : queue'[i].by = queue'[j].by => i = j
    BY <1>1, <1>4, <2>1, <2>3, <2>4
  <2>7. queue' # <<>>
    BY <1>2, <2>3
  <2> QED BY <1>4, <2>3, <2>5, <2>6, <2>7 DEF StorageOK
<1> QED BY <1>5, <1>6

(* A task that is left alone, in a context that stays.                      *)
context == <<issued, epoch, credentials, cache, snapshot, refreshFlight, spent>>

LEMMA SameContext ==
  ASSUME NEW t, NEW r, TaskOK(t, r), UNCHANGED context, task'[t] = r
  PROVE  TaskOK(t, task[t])'
BY DEF context, TaskOK, RecOK, EpochOK, SameAccount, UserOf

(* Tokens held by one task stay with it.                                   *)
LEMMA TasksKept ==
  ASSUME SessionAssumption, Inv, NEW t \in Tasks,
         DOMAIN task' = Tasks, task' = [s \in Tasks |-> task'[s]],
         \A s \in Tasks : TaskOK(s, task[s])',
         \A s \in Tasks \ {t} : Holds(task'[s])
           => Holds(task[s]) /\ task'[s].token = task[s].token,
         Holds(task'[t]) =>
           \/ Holds(task[t]) /\ task'[t].token = task[t].token
           \/ \A s \in Tasks : task[s].token # task'[t].token,
         \A s \in Tasks \ {t} : Signing(task'[s], epoch') => Signing(task[s], epoch),
         Signing(task'[t], epoch') =>
           \/ Signing(task[t], epoch)
           \/ \A s \in Tasks \ {t} : ~Signing(task'[s], epoch')
  PROVE  TasksOK'
<1>1. \A s, u \in Tasks : Holds(task'[s]) /\ Holds(task'[u]) /\ task'[s].token = task'[u].token
                          => s = u
  BY DEF TasksOK, Inv
<1>2. \A s, u \in Tasks : Signing(task'[s], epoch') /\ Signing(task'[u], epoch') => s = u
  BY DEF TasksOK, Inv
<1> QED BY <1>1, <1>2 DEF TasksOK

(* A step of one task that touches nothing but its record and the queue.    *)
LEMMA PutOK ==
  ASSUME SessionAssumption, Inv, NEW t \in Tasks, NEW r,
         task' = [task EXCEPT ![t] = r], Queued(t, r), TaskOK(t, r),
         UNCHANGED <<server, memory, busy, durable, late, history, bounds>>,
         Holds(r) => Holds(task[t]) /\ r.token = task[t].token,
         Signing(r, epoch) => Signing(task[t], epoch),
         r.pc \notin {"idle", "reading"}, r.epoch = task[t].epoch \/ refreshFlight # t,
         ~(r.pc = "clearing" /\ r.stored = "ok"),
         task[t].pc \notin {"idle", "reading"} \/ credentials # NoCredentials
  PROVE  Inv'
<1> USE DEF server, memory, history, bounds
<1>1. DOMAIN task = Tasks /\ task = [s \in Tasks |-> task[s]]
  BY DEF Inv, TasksOK
<1>2. /\ task'[t] = r /\ \A s \in Tasks \ {t} : task'[s] = task[s]
      /\ DOMAIN task' = Tasks /\ task' = [s \in Tasks |-> task'[s]]
  BY <1>1
<1>3. \A s \in Tasks : TaskOK(s, task[s])'
  BY <1>2, SameContext, TaskFacts DEF context
<1>4. TasksOK'
  <2>1. /\ \A s \in Tasks \ {t} :
             /\ Holds(task'[s]) => Holds(task[s]) /\ task'[s].token = task[s].token
             /\ Signing(task'[s], epoch') => Signing(task[s], epoch)
        /\ Holds(task'[t]) => Holds(task[t]) /\ task'[t].token = task[t].token
        /\ Signing(task'[t], epoch') => Signing(task[t], epoch)
    BY <1>2
  <2>2. \A s, u \in Tasks : Holds(task'[s]) /\ Holds(task'[u])
                            /\ task'[s].token = task'[u].token => s = u
    BY <2>1 DEF TasksOK, Inv
  <2>3. \A s, u \in Tasks : Signing(task'[s], epoch') /\ Signing(task'[u], epoch') => s = u
    BY <2>1 DEF TasksOK, Inv
  <2> QED BY <1>2, <1>3, <2>2, <2>3 DEF TasksOK
<1>5. MemoryOK'
  <2>1. Flying => Flying'
    BY <1>2, SessionAssumption DEF Flying, Inv, MemoryOK, SessionAssumption, Tasks
  <2>2. refreshFlight' # None => task'[refreshFlight'].pc # "idle"
    BY <1>2 DEF Inv, MemoryOK, Tasks
  <2> QED BY <2>1, <2>2 DEF Inv, MemoryOK, UserOf
<1>6. StorageOK'
  BY <1>2, QueueKept DEF Inv, StorageOK
<1>7. BootOK'
  BY <1>2 DEF Inv, BootOK, SessionAssumption, Tasks, Idle
<1>8. ServerOK' /\ HistoryOK'
  BY DEF Inv, ServerOK, HistoryOK
<1> QED BY <1>4, <1>5, <1>6, <1>7, <1>8 DEF Inv

(* What may be shown while the credentials stay.                           *)
Shown ==
  /\ snapshot' \in Snapshots /\ cache' \in Users \cup {None}
  /\ snapshot'.status = "authenticated"
       => credentials.access # NoToken /\ UserOf(credentials.refresh) = snapshot'.user
  /\ snapshot'.status # "authenticated" => snapshot'.user = None
  /\ snapshot'.status = "signedOut" => credentials = NoCredentials
  /\ cache' # None => credentials.refresh # NoToken /\ UserOf(credentials.refresh) = cache'

LEMMA ShownKept ==
  ASSUME Inv, UNCHANGED <<snapshot, cache>>
  PROVE  Shown
BY DEF Inv, MemoryOK, Shown

(* The end of a task that is no refresh of the current epoch.              *)
LEMMA FinishOK ==
  ASSUME SessionAssumption, Inv, NEW t \in Tasks, NEW result \in {"ok", "failed"},
         Finish(t, result), Free(t), task[t].pc # "idle",
         t \in Flights => result = "failed" /\ ~Current(t),
         UNCHANGED <<server, epoch, credentials, queue, busy, durable, late, spent,
                     storeFailed, bounds>>,
         ended' \subseteq Tokens, Shown,
         \/ UNCHANGED <<snapshot, cache>>
         \/ credentials # NoCredentials
         \/ \A s \in Tasks \ {t} : task[s] = Idle
  PROVE  Inv'
<1> USE DEF server, memory, history, bounds
<1>1. DOMAIN task = Tasks /\ task = [s \in Tasks |-> task[s]]
  BY DEF Inv, TasksOK
<1>2. /\ task' = [s \in Tasks |-> task'[s]] /\ DOMAIN task' = Tasks /\ task'[t] = Idle
      /\ \A s \in Tasks \ {t} :
           \/ task'[s] = task[s]
           \/ /\ task[s].pc \in {"joined", "recovering"}
              /\ task[s].epoch = task[t].epoch /\ t \in Flights
              /\ task'[s] = [task[s] EXCEPT !.ans = result]
  BY DEF Finish
<1>3. ASSUME NEW s \in Tasks \ {t}
      PROVE  /\ task'[s] \in TaskRecords /\ task'[s].op = task[s].op
             /\ task'[s].pc = task[s].pc /\ task'[s].epoch = task[s].epoch
             /\ task'[s].token = task[s].token /\ task'[s].stored = task[s].stored
             /\ \/ task'[s].ans = task[s].ans
                \/ task[s].pc \in {"joined", "recovering"} /\ task[s].epoch # epoch
  <2>1. task[s] \in TaskRecords
    BY TaskFacts
  <2>2. [task[s] EXCEPT !.ans = result] \in TaskRecords
    BY <2>1 DEF TaskRecords
  <2> QED BY <1>2, <2>1, <2>2 DEF TaskRecords, Current
<1>4. refreshFlight' = IF refreshFlight = t THEN None ELSE refreshFlight
  BY DEF Finish
<1>5. ASSUME NEW s \in Tasks
      PROVE  TaskOK(s, task[s])'
  <2>1. CASE s = t
    BY <1>2, <2>1, IdleOK DEF Inv, ServerOK, MemoryOK
  <2>2. CASE s # t
    <3>1. RecOK(s, task[s])'
      BY <1>3, <2>2, TaskFacts DEF TaskOK, RecOK, Holds, HasToken
    <3>2. refreshFlight = s => refreshFlight' = s
      BY <1>4, <2>2
    <3>3. ASSUME task[s].epoch = epoch
          PROVE  EpochOK(s, task[s])'
      <4>1. EpochOK(s, task[s]) /\ task'[s].ans = task[s].ans
        BY <1>3, <2>2, <3>3, TaskFacts DEF TaskOK
      <4>2. UNCHANGED <<snapshot, cache>> \/ credentials # NoCredentials
            \/ task[s].op = "none"
        BY <2>2 DEF Idle
      <4> QED BY <1>3, <2>2, <3>2, <4>1, <4>2 DEF EpochOK, SameAccount, UserOf
    <3> QED BY <1>3, <2>2, <3>1, <3>3, TaskFacts DEF TaskOK, Holds
  <2> QED BY <2>1, <2>2
<1>6. TasksOK'
  <2>1. ~Holds(task'[t]) /\ ~Signing(task'[t], epoch')
    BY <1>2, TaskFacts DEF Signing, Idle
  <2>2. \A s \in Tasks \ {t} :
          /\ Holds(task'[s]) => Holds(task[s]) /\ task'[s].token = task[s].token
          /\ Signing(task'[s], epoch') => Signing(task[s], epoch)
    BY <1>3 DEF Holds, Signing
  <2> QED BY <1>2, <1>5, <2>1, <2>2, TasksKept
<1>7. MemoryOK'
  <2>1. Flying => Flying'
    BY <1>2, <1>3, <1>4 DEF Flying, Inv, MemoryOK, SessionAssumption, Tasks, Current
  <2>2. refreshFlight' # None => task'[refreshFlight'].pc # "idle"
    BY <1>2, <1>3, <1>4 DEF Inv, MemoryOK, Tasks
  <2> QED BY <1>4, <2>1, <2>2 DEF Inv, MemoryOK, UserOf, Shown
<1>8. StorageOK'
  BY <1>2, <1>3, QueueKept DEF Inv, StorageOK, Queued, Idle
<1>9. BootOK'
  BY <1>2, <1>3 DEF Inv, BootOK, SessionAssumption, Tasks, Idle
<1>10. ServerOK' /\ HistoryOK'
  BY DEF Inv, ServerOK, HistoryOK
<1> QED BY <1>6, <1>7, <1>8, <1>9, <1>10 DEF Inv

(* The account leaves: whoever relied on it is of an earlier epoch now.     *)
LEMMA EpochEnds ==
  ASSUME SessionAssumption, Inv, NEW t \in Tasks, NEW r, NEW q,
         task' = [task EXCEPT ![t] = r], TaskOK(t, task[t])',
         epoch' = epoch + 1, credentials' = NoCredentials, cache' = None,
         snapshot' \in Snapshots, snapshot'.status \in {"loading", "signedOut"},
         snapshot'.user = None,
         q = [by |-> t, act |-> "clear", token |-> NoToken, asserts |-> FALSE],
         queue' = Append(queue, q), Free(t),
         r.stored = "none", r.pc \in {"starting", "dropping", "leaving"},
         UNCHANGED <<server, refreshFlight, busy, durable, late, history, crashes>>,
         logins' \in 0 .. MaxLogins
  PROVE  Inv'
<1> USE DEF server, history
<1>1. DOMAIN task = Tasks /\ task = [s \in Tasks |-> task[s]] /\ epoch \in Nat
  BY DEF Inv, TasksOK, MemoryOK
<1>2. /\ task'[t] = r /\ \A s \in Tasks \ {t} : task'[s] = task[s]
      /\ DOMAIN task' = Tasks /\ task' = [s \in Tasks |-> task'[s]]
  BY <1>1
<1>3. ASSUME NEW s \in Tasks
      PROVE  TaskOK(s, task[s])'
  <2>1. CASE s = t
    BY <2>1
  <2>2. CASE s # t
    <3>1. TaskOK(s, task[s]) /\ task'[s] = task[s]
      BY <1>2, <2>2, TaskFacts
    <3>2. task[s].epoch \in Nat
      BY TaskFacts DEF TaskRecords
    <3> QED BY <1>1, <3>1, <3>2 DEF TaskOK, RecOK, Holds, HasToken, NoCredentials
  <2> QED BY <2>1, <2>2
<1>4. TasksOK'
  <2>1. ~Holds(task'[t]) /\ \A s \in Tasks \ {t} : task'[s] = task[s]
    BY <1>2 DEF Holds
  <2>2. \A s \in Tasks \ {t} : Holds(task'[s])
          => Holds(task[s]) /\ task'[s].token = task[s].token
    BY <2>1
  <2>3. DOMAIN task' = Tasks /\ task' = [s \in Tasks |-> task'[s]]
    BY <1>2
  <2>4. \A s \in Tasks \ {t} : ~Signing(task'[s], epoch')
    BY <1>1, <2>1, TaskFacts DEF TaskOK, Signing, TaskRecords
  <2> QED BY <1>3, <2>1, <2>2, <2>3, <2>4, TasksKept
<1>5. MemoryOK'
  <2>1. NoCredentials \in Credentials /\ 0 \notin spent /\ epoch + 1 \in Nat
    BY <1>1 DEF NoCredentials, NoToken, Credentials, SessionAssumption, Inv, HistoryOK
  <2>2. refreshFlight' # None => task'[refreshFlight'].pc # "idle"
    BY <1>2 DEF Inv, MemoryOK, Tasks
  <2>3. Len(issued) \in Nat /\ NoCredentials.refresh = 0 /\ NoCredentials.access = 0
    BY DEF NoCredentials, NoToken, Inv, ServerOK
  <2> QED BY <2>1, <2>2, <2>3 DEF Inv, MemoryOK, NoToken
<1>6. StorageOK'
  <2>1. q \in Entries /\ q.by = t /\ q.act = "clear"
    BY DEF Entries, NoToken, SessionAssumption
  <2>2. Queued(t, r)
    BY <2>1, Zenon DEF Queued, Waiting
  <2> QED BY <1>2, <2>2, QueueKept DEF Inv, StorageOK
<1>7. BootOK'
  BY <1>1 DEF BootOK
<1>8. ServerOK' /\ HistoryOK'
  BY DEF Inv, ServerOK, HistoryOK
<1> QED BY <1>4, <1>5, <1>6, <1>7, <1>8 DEF Inv

LEMMA ForgetOK ==
  ASSUME SessionAssumption, Inv, NEW t \in Tasks, NEW why \in {"expired", "suspended", None},
         Forget(t, why), Free(t), task[t].pc # "idle",
         UNCHANGED <<server, busy, durable, late, history, bounds>>
  PROVE  Inv'
<1>1. CASE Current(t)
  <2> DEFINE r == At(t, "dropping")
  <2>1. /\ epoch' = epoch + 1 /\ credentials' = NoCredentials /\ cache' = None
        /\ snapshot' = SignedOut(why) /\ UNCHANGED refreshFlight
        /\ queue' = Append(queue, [by |-> t, act |-> "clear", token |-> NoToken,
                                  asserts |-> FALSE])
        /\ task' = [task EXCEPT ![t] = r]
    BY <1>1 DEF Forget, Goto
  <2>2. /\ snapshot' \in Snapshots /\ snapshot'.status = "signedOut"
        /\ snapshot'.user = None
    BY <2>1 DEF SignedOut, Snapshots
  <2>3. /\ r \in TaskRecords /\ r.pc = "dropping" /\ r.stored = "none"
        /\ r.op = task[t].op /\ r.epoch = task[t].epoch /\ r.token = task[t].token
    BY TaskFacts DEF At, TaskRecords
  <2> HIDE DEF r
  <2>4. task'[t] = r /\ issued' = issued /\ epoch \in Nat
    BY <2>1 DEF Inv, TasksOK, MemoryOK, server
  <2>5. TaskOK(t, task[t])'
    <3>1. RecOK(t, task[t])'
      BY <2>3, <2>4, TaskFacts DEF TaskOK, RecOK, HasToken, Holds
    <3> QED BY <2>1, <2>3, <2>4, <3>1, TaskFacts DEF TaskOK, Holds, TaskRecords
  <2>6. logins' \in 0 .. MaxLogins /\ crashes' = crashes
    BY DEF Inv, HistoryOK, bounds
  <2> QED BY <2>1, <2>2, <2>3, <2>5, <2>6, EpochEnds
<1>2. CASE ~Current(t)
  <2>1. /\ Finish(t, "failed")
        /\ UNCHANGED <<epoch, credentials, cache, snapshot, queue>>
    BY <1>2 DEF Forget
  <2>2. Shown /\ ended' \subseteq Tokens
    BY <2>1, ShownKept DEF history, Inv, HistoryOK
  <2> QED BY <1>2, <2>1, <2>2, FinishOK DEF history, bounds
<1> QED BY <1>1, <1>2

-----------------------------------------------------------------------------
(* The ways a continuation goes on.                                        *)
others == <<server, busy, durable, late, history, bounds>>

LEMMA AtOK ==
  ASSUME SessionAssumption, Inv, NEW t \in Tasks,
         NEW pc \in {"asking", "saving", "revoking", "dropping", "joined", "sent",
                    "recovering", "replayed"}
  PROVE  LET r == At(t, pc) IN
         /\ r \in TaskRecords /\ r.pc = pc /\ r.stored = "none" /\ r.ans = "none"
         /\ r.op = task[t].op /\ r.epoch = task[t].epoch /\ r.token = task[t].token
         /\ \A k \in 0 .. MaxTokens :
              /\ [r EXCEPT !.token = k] \in TaskRecords /\ [r EXCEPT !.token = k].token = k
              /\ [r EXCEPT !.token = k].pc = pc /\ [r EXCEPT !.token = k].stored = "none"
              /\ [r EXCEPT !.token = k].ans = "none" /\ [r EXCEPT !.token = k].op = task[t].op
              /\ [r EXCEPT !.token = k].epoch = task[t].epoch
<1> DEFINE r == At(t, pc)
<1>1. task[t] \in TaskRecords
  BY TaskFacts
<1>2. /\ r \in TaskRecords /\ r.pc = pc /\ r.stored = "none" /\ r.ans = "none"
      /\ r.op = task[t].op /\ r.epoch = task[t].epoch /\ r.token = task[t].token
  BY <1>1 DEF At, TaskRecords
<1> HIDE DEF r
<1>3. ASSUME NEW k \in 0 .. MaxTokens
      PROVE  /\ [r EXCEPT !.token = k] \in TaskRecords /\ [r EXCEPT !.token = k].token = k
             /\ [r EXCEPT !.token = k].pc = pc /\ [r EXCEPT !.token = k].stored = "none"
             /\ [r EXCEPT !.token = k].ans = "none"
             /\ [r EXCEPT !.token = k].op = task[t].op
             /\ [r EXCEPT !.token = k].epoch = task[t].epoch
  BY <1>2 DEF TaskRecords
<1> QED BY <1>2, <1>3 DEF r

LEMMA CallFacts ==
  ASSUME SessionAssumption, Inv
  PROVE  /\ \A c \in Calls : c \in Tasks /\ c \notin Flights
         /\ \A f \in Flights : f \in Tasks /\ f \notin Calls
         /\ Boot \in Calls
         /\ \A t \in Tasks : t \in Calls \/ t \in Flights
BY DEF SessionAssumption, Tasks

LEMMA ReasonOK ==
  ASSUME NEW t
  PROVE  Reason(t) \in {"expired", "suspended", None}
BY DEF Reason

LEMMA FailOK ==
  ASSUME SessionAssumption, Inv, NEW c \in Calls, Fail(c), Free(c), task[c].pc # "idle",
         UNCHANGED others
  PROVE  Inv'
<1>1. CASE task[c].op \in {"initialize", "login"}
  <2>1. Forget(c, Reason(c))
    BY <1>1 DEF Fail
  <2> QED BY <2>1, ReasonOK, ForgetOK, CallFacts DEF others
<1>2. CASE task[c].op \notin {"initialize", "login"}
  <2>1. Finish(c, "failed") /\ UNCHANGED <<epoch, credentials, snapshot, cache, queue>>
    BY <1>2 DEF Fail
  <2>2. Shown /\ ended' \subseteq Tokens
    BY <2>1, ShownKept DEF others, history, Inv, HistoryOK
  <2> QED BY <2>1, <2>2, FinishOK, CallFacts DEF others, history, bounds
<1> QED BY <1>1, <1>2

LEMMA SucceedOK ==
  ASSUME SessionAssumption, Inv, NEW c \in Calls, Succeed(c), Current(c),
         task[c].pc \in {"sent", "replayed"}, UNCHANGED others
  PROVE  Inv'
<1> DEFINE u == UserOf(task[c].token)
<1>1. /\ credentials.access # NoToken /\ credentials.refresh # NoToken
      /\ credentials # NoCredentials /\ u = UserOf(credentials.refresh)
  BY TaskFacts, CallFacts DEF TaskOK, EpochOK, Current, SameAccount, NoCredentials,
     Inv, MemoryOK
<1>2. u \in Users
  <2>1. credentials.refresh \in 1 .. Len(issued)
    BY <1>1 DEF Inv, MemoryOK, Credentials, NoToken, ServerOK
  <2> QED BY <1>1, <2>1, IssuedOK DEF Inv
<1>3. Finish(c, "ok") /\ UNCHANGED <<epoch, credentials, queue>>
  BY DEF Succeed
<1>4. Shown
  <2>1. Authenticated(u) \in Snapshots /\ Authenticated(u).user = u
        /\ Authenticated(u).status = "authenticated"
    BY <1>2 DEF Authenticated, Snapshots
  <2>2. (cache' = u \/ cache' = cache) /\ (snapshot' = Authenticated(u) \/ snapshot' = snapshot)
    BY DEF Succeed
  <2> HIDE DEF u
  <2> QED BY <1>1, <1>2, <2>1, <2>2 DEF Shown, Inv, MemoryOK
<1>5. ended' \subseteq Tokens
  BY DEF others, history, Inv, HistoryOK
<1>6. Free(c) /\ task[c].pc # "idle"
  BY DEF Free, Waiting
<1> QED BY <1>1, <1>3, <1>4, <1>5, <1>6, FinishOK, CallFacts DEF others, history, bounds

(* A request is sent with the access token of the account.                 *)
LEMMA SendOK ==
  ASSUME SessionAssumption, Inv, NEW c \in Calls, NEW pc \in {"sent", "replayed"},
         task[c].pc \in {"joined", "recovering", "sent"}, Current(c),
         credentials.access # NoToken, Send(c, pc, credentials.access),
         UNCHANGED <<others, memory, queue>>
  PROVE  Inv'
<1> DEFINE r == [At(c, pc) EXCEPT !.token = credentials.access]
<1>1. /\ credentials.access \in 0 .. MaxTokens /\ credentials.access <= Len(issued)
      /\ credentials.access = credentials.refresh
  BY DEF Inv, MemoryOK, Credentials
<1>2. /\ r \in TaskRecords /\ r.token = credentials.access /\ r.pc = pc
      /\ r.stored = "none" /\ r.op = task[c].op /\ r.epoch = task[c].epoch
  BY <1>1, AtOK, CallFacts
<1>3. task' = [task EXCEPT ![c] = r]
  BY DEF Send
<1> HIDE DEF r
<1>4. TaskOK(c, r)
  <2>1. TaskOK(c, task[c])
    BY TaskFacts, CallFacts
  <2>2. RecOK(c, r)
    BY <1>1, <1>2, <2>1 DEF TaskOK, RecOK, HasToken, Holds
  <2>3. EpochOK(c, r)
    BY <1>1, <1>2 DEF EpochOK, SameAccount
  <2> QED BY <1>2, <2>1, <2>2, <2>3 DEF TaskOK, Holds
<1>5. Queued(c, r)
  BY DEF Queued, Free, Waiting
<1> QED BY <1>2, <1>3, <1>4, <1>5, PutOK, CallFacts DEF Signing, Holds, others, history, bounds

LEMMA ReplayOK ==
  ASSUME SessionAssumption, Inv, NEW c \in Calls, Replay(c), Current(c),
         task[c].pc \in {"recovering", "sent"}, credentials.access # NoToken,
         UNCHANGED others
  PROVE  Inv'
<1>1. CASE task[c].op = "post"
  <2>1. Fail(c) /\ Free(c) /\ task[c].pc # "idle"
    BY <1>1 DEF Replay, Free, Waiting
  <2> QED BY <2>1, FailOK
<1>2. CASE task[c].op # "post"
  <2>1. Send(c, "replayed", credentials.access) /\ UNCHANGED <<memory, queue>>
    BY <1>2 DEF Replay
  <2> QED BY <2>1, SendOK
<1> QED BY <1>1, <1>2

-----------------------------------------------------------------------------
(* One lemma for each action.                                              *)
LEMMA ReadFailsInv == ASSUME SessionAssumption, Inv, NEW t \in Tasks, ReadFails(t) PROVE Inv'
BY ForgetOK DEF ReadFails, Free, Waiting

LEMMA LoginInv == ASSUME SessionAssumption, Inv, NEW c \in Calls, Login(c) PROVE Inv'
<1> DEFINE r == [Idle EXCEPT !.op = "login", !.pc = "starting", !.epoch = epoch + 1]
<1>1. epoch \in Nat /\ epoch + 1 \in Nat /\ Len(issued) \in Nat
  BY DEF Inv, MemoryOK, ServerOK
<1>2. /\ r \in TaskRecords /\ r.op = "login" /\ r.pc = "starting" /\ r.epoch = epoch + 1
      /\ r.token = 0 /\ r.ans = "none" /\ r.stored = "none"
  BY <1>1, TaskFacts, CallFacts DEF Idle, TaskRecords, NoToken
<1> HIDE DEF r
<1>3. /\ task' = [task EXCEPT ![c] = r] /\ DOMAIN task = Tasks
      /\ snapshot' = Loading /\ credentials' = NoCredentials /\ epoch' = epoch + 1
      /\ cache' = None /\ issued' = issued
  BY DEF Login, Inv, TasksOK, r, server
<1>4. task'[c] = r
  BY <1>3, CallFacts
<1>5. TaskOK(c, task[c])'
  <2>1. RecOK(c, task[c])'
    BY <1>1, <1>2, <1>3, <1>4, CallFacts DEF RecOK, HasToken, Holds, NoToken
  <2> QED BY <1>1, <1>2, <1>3, <1>4, <2>1 DEF TaskOK, Holds, EpochOK, Loading
<1>6. /\ snapshot' \in Snapshots /\ snapshot'.status \in {"loading", "signedOut"}
      /\ snapshot'.user = None
  BY <1>3 DEF Loading, Snapshots
<1>7. /\ Free(c) /\ logins' \in 0 .. MaxLogins
      /\ UNCHANGED <<server, refreshFlight, busy, durable, late, history, crashes>>
      /\ queue' = Append(queue, [by |-> c, act |-> "clear", token |-> NoToken,
                                 asserts |-> FALSE])
  BY DEF Login, Free, Waiting, Idle, Inv, HistoryOK, SessionAssumption
<1> QED BY <1>2, <1>3, <1>5, <1>6, <1>7, EpochEnds, CallFacts

LEMMA LogoutInv == ASSUME SessionAssumption, Inv, NEW c \in Calls, Logout(c) PROVE Inv'
<1> DEFINE r == [Idle EXCEPT !.op = "logout", !.pc = "leaving", !.epoch = epoch,
                             !.token = credentials.access]
<1>1. epoch \in Nat /\ epoch + 1 \in Nat /\ Len(issued) \in Nat
  BY DEF Inv, MemoryOK, ServerOK
<1>2. /\ credentials.access # NoToken /\ credentials.access \in 0 .. MaxTokens
      /\ credentials.access <= Len(issued)
  BY DEF Logout, Inv, MemoryOK, Credentials
<1>3. /\ r \in TaskRecords /\ r.op = "logout" /\ r.pc = "leaving" /\ r.epoch = epoch
      /\ r.token = credentials.access /\ r.ans = "none" /\ r.stored = "none"
  BY <1>1, <1>2, TaskFacts, CallFacts DEF Idle, TaskRecords
<1> HIDE DEF r
<1>4. /\ task' = [task EXCEPT ![c] = r] /\ DOMAIN task = Tasks
      /\ snapshot' = SignedOut(None) /\ credentials' = NoCredentials
      /\ epoch' = epoch + 1 /\ cache' = None /\ issued' = issued
  BY DEF Logout, Inv, TasksOK, r, server
<1>5. task'[c] = r
  BY <1>4, CallFacts
<1>6. TaskOK(c, task[c])'
  <2>1. RecOK(c, task[c])'
    BY <1>2, <1>3, <1>4, <1>5, CallFacts DEF RecOK, HasToken, Holds
  <2> QED BY <1>1, <1>3, <1>4, <1>5, <2>1 DEF TaskOK, Holds
<1>7. /\ snapshot' \in Snapshots /\ snapshot'.status \in {"loading", "signedOut"}
      /\ snapshot'.user = None
  BY <1>4 DEF SignedOut, Snapshots
<1>8. /\ Free(c) /\ logins' \in 0 .. MaxLogins
      /\ UNCHANGED <<server, refreshFlight, busy, durable, late, history, crashes>>
      /\ queue' = Append(queue, [by |-> c, act |-> "clear", token |-> NoToken,
                                 asserts |-> FALSE])
  BY DEF Logout, Free, Waiting, Idle, Inv, HistoryOK, bounds
<1> QED BY <1>3, <1>4, <1>6, <1>7, <1>8, EpochEnds, CallFacts

LEMMA CallInv ==
  ASSUME SessionAssumption, Inv, NEW c \in Calls, NEW op \in Ops, Call(c, op) PROVE Inv'
<1> DEFINE r == [Idle EXCEPT !.op = op, !.epoch = epoch,
                    !.pc = IF Flying THEN "joined" ELSE "sent",
                    !.token = IF Flying THEN NoToken ELSE credentials.access]
<1>1. epoch \in Nat /\ Len(issued) \in Nat
  BY DEF Inv, MemoryOK, ServerOK
<1>2. /\ credentials \in Credentials /\ credentials.refresh <= Len(issued)
      /\ credentials.access # NoToken => credentials.access = credentials.refresh
      /\ credentials.refresh # NoToken /\ (~Flying => credentials.access # NoToken)
  BY DEF Call, Inv, MemoryOK, Credentials, NoCredentials
<1>3. r \in TaskRecords /\ r.op = op /\ r.epoch = epoch /\ r.ans = "none" /\ r.stored = "none"
  BY <1>1, <1>2, TaskFacts, CallFacts DEF Idle, TaskRecords, Credentials
<1>4. \/ r.pc = "joined" /\ r.token = NoToken
      \/ r.pc = "sent" /\ r.token = credentials.access /\ credentials.access # NoToken
  BY <1>2 DEF Idle
<1>5. task' = [task EXCEPT ![c] = r] /\ Free(c)
      /\ UNCHANGED <<server, memory, queue, busy, durable, late, history, bounds>>
  BY DEF Call, Free, Waiting, Idle
<1> HIDE DEF r
<1>6. op \notin {"none", "login", "refresh"}
  BY DEF SessionAssumption
<1>7. TaskOK(c, r)
  <2>1. RecOK(c, r)
    BY <1>1, <1>2, <1>3, <1>4, <1>6, CallFacts DEF RecOK, HasToken, Holds, NoToken
  <2>2. EpochOK(c, r)
    BY <1>2, <1>3, <1>4, <1>6 DEF EpochOK, SameAccount
  <2> QED BY <1>1, <1>3, <1>4, <2>1, <2>2 DEF TaskOK, Holds
<1>8. Queued(c, r) /\ task[c].epoch = 0 /\ (r.epoch = task[c].epoch \/ refreshFlight # c)
  BY <1>5, CallFacts DEF Queued, Call, Idle, Inv, MemoryOK, SessionAssumption, Tasks
<1> QED BY <1>3, <1>4, <1>5, <1>7, <1>8, PutOK, CallFacts DEF Signing, Holds, Call

LEMMA LoginClearedInv ==
  ASSUME SessionAssumption, Inv, NEW c \in Tasks, LoginCleared(c) PROVE Inv'
<1>1. task[c].pc = "starting" /\ task[c].stored # "none" /\ Free(c)
  BY DEF LoginCleared, Stored, Free
<1>2. CASE Forget(c, None)
  BY <1>1, <1>2, ForgetOK DEF LoginCleared
<1>3. CASE Current(c) /\ Goto(c, "asking") /\ UNCHANGED <<memory, queue>>
  <2> DEFINE r == At(c, "asking")
  <2>1. /\ r \in TaskRecords /\ r.pc = "asking" /\ r.stored = "none" /\ r.ans = "none"
        /\ r.op = task[c].op /\ r.epoch = task[c].epoch /\ r.token = task[c].token
    BY AtOK
  <2>2. task' = [task EXCEPT ![c] = r]
    BY <1>3 DEF Goto
  <2> HIDE DEF r
  <2>3. TaskOK(c, r)
    <3>1. TaskOK(c, task[c])
      BY TaskFacts
    <3>2. RecOK(c, r)
      BY <1>1, <2>1, <3>1 DEF TaskOK, RecOK, HasToken, Holds
    <3>3. EpochOK(c, r)
      BY <1>1, <1>3, <2>1, <3>1 DEF TaskOK, RecOK, EpochOK, Current
    <3> QED BY <1>1, <2>1, <3>1, <3>2, <3>3 DEF TaskOK, Holds
  <2>4. Queued(c, r)
    BY <1>1, <1>3 DEF Queued
  <2> QED BY <1>1, <1>3, <2>1, <2>2, <2>3, <2>4, PutOK DEF Signing, Holds, LoginCleared
<1> QED BY <1>2, <1>3 DEF LoginCleared

(* An answer that comes too late is revoked.                               *)
LEMMA RevokingOK ==
  ASSUME SessionAssumption, Inv, NEW t \in Tasks, Goto(t, "revoking"), Free(t), ~Current(t),
         Holds(task[t]), UNCHANGED <<others, memory, queue>>
  PROVE  Inv'
<1> DEFINE r == At(t, "revoking")
<1>1. /\ r \in TaskRecords /\ r.pc = "revoking" /\ r.stored = "none" /\ r.ans = "none"
      /\ r.op = task[t].op /\ r.epoch = task[t].epoch /\ r.token = task[t].token
  BY AtOK
<1>2. task' = [task EXCEPT ![t] = r]
  BY DEF Goto
<1> HIDE DEF r
<1>3. TaskOK(t, r)
  <2>1. TaskOK(t, task[t]) /\ epoch # task[t].epoch
    BY TaskFacts DEF Current
  <2>2. RecOK(t, r)
    BY <1>1, <2>1 DEF TaskOK, RecOK, HasToken, Holds
  <2> QED BY <1>1, <2>1, <2>2 DEF TaskOK, Holds
<1>4. Queued(t, r) /\ task[t].pc \notin {"idle", "reading"}
  BY DEF Queued, Holds
<1> QED BY <1>1, <1>2, <1>3, <1>4, PutOK DEF Signing, Holds, others

LEMMA AnsweredInv == ASSUME SessionAssumption, Inv, NEW t \in Tasks, Answered(t) PROVE Inv'
<1>1. task[t].pc = "asking" /\ Free(t) /\ UNCHANGED others
  BY DEF Answered, Arrived, Free, Waiting, others
<1>2. CASE Forget(t, Reason(t))
  BY <1>1, <1>2, ReasonOK, ForgetOK DEF others
<1>3. CASE task[t].ans = "ok" /\ ~Current(t) /\ Goto(t, "revoking") /\ UNCHANGED <<memory, queue>>
  BY <1>1, <1>3, RevokingOK DEF Holds
<1>4. CASE /\ task[t].ans = "ok" /\ Current(t) /\ Goto(t, "saving")
           /\ queue' = Append(queue, [by |-> t, act |-> "set", token |-> task[t].token,
                                      asserts |-> TRUE])
           /\ UNCHANGED memory
  <2> DEFINE r == At(t, "saving")
             q == [by |-> t, act |-> "set", token |-> task[t].token, asserts |-> TRUE]
  <2>1. /\ r \in TaskRecords /\ r.pc = "saving" /\ r.stored = "none" /\ r.ans = "none"
        /\ r.op = task[t].op /\ r.epoch = task[t].epoch /\ r.token = task[t].token
    BY AtOK
  <2>2. task' = [task EXCEPT ![t] = r]
    BY <1>4 DEF Goto
  <2>3. q \in Entries /\ q.by = t /\ q.token = task[t].token
    BY TaskFacts DEF Entries, TaskRecords
  <2> HIDE DEF r
  <2>4. TaskOK(t, r)
    <3>1. TaskOK(t, task[t])
      BY TaskFacts
    <3>2. RecOK(t, r)
      BY <1>1, <1>4, <2>1, <3>1 DEF TaskOK, RecOK, HasToken, Holds
    <3>3. r.epoch = epoch => EpochOK(t, r)
      BY <1>1, <1>4, <2>1, <3>1 DEF TaskOK, EpochOK
    <3> QED BY <1>1, <1>4, <2>1, <3>1, <3>2, <3>3 DEF TaskOK, Holds
  <2>5. Queued(t, r)
    <3>1. queue' = Append(queue, q)
      BY <1>4
    <3> HIDE DEF q
    <3> QED BY <1>1, <2>1, <2>3, <3>1 DEF Queued, Waiting
  <2> HIDE DEF q
  <2> QED BY <1>1, <1>4, <2>1, <2>2, <2>4, <2>5, PutOK DEF Signing, Holds, others
<1> QED BY <1>2, <1>3, <1>4 DEF Answered, Revoke

LEMMA SettledOK ==
  ASSUME SessionAssumption, Inv, NEW t \in Tasks, NEW result \in {"ok", "failed"},
         task[t].pc \in {"revoking", "dropping", "leaving"}, Free(t),
         Finish(t, result), t \in Flights => result = "failed",
         UNCHANGED <<server, epoch, credentials, snapshot, cache, queue, busy, durable,
                     late, spent, storeFailed, bounds>>,
         ended' \subseteq Tokens
  PROVE  Inv'
<1>1. ~Current(t)
  BY TaskFacts DEF TaskOK, Current
<1>2. Shown
  BY ShownKept
<1> QED BY <1>1, <1>2, FinishOK

LEMMA RevokedInv == ASSUME SessionAssumption, Inv, NEW t \in Tasks, Revoked(t) PROVE Inv'
BY SettledOK DEF Revoked, Arrived, Free, Waiting, Inv, HistoryOK, history

LEMMA DroppedInv == ASSUME SessionAssumption, Inv, NEW t \in Tasks, Dropped(t) PROVE Inv'
BY SettledOK DEF Dropped, Stored, Free, Waiting, Inv, HistoryOK, history

LEMMA LogoutSettlesInv ==
  ASSUME SessionAssumption, Inv, NEW c \in Tasks, LogoutSettles(c) PROVE Inv'
<1>1. task[c].pc = "leaving" /\ Free(c) /\ Finish(c, "ok")
  BY DEF LogoutSettles, Arrived, Free
<1>2. c \notin Flights /\ task[c].token \in 1 .. Len(issued)
  BY <1>1, TaskFacts DEF TaskOK, RecOK, HasToken, TaskRecords, NoToken, Inv, ServerOK
<1>3. ended' \subseteq Tokens
  BY <1>2, IssuedOK DEF LogoutSettles, Inv, HistoryOK
<1> QED BY <1>1, <1>2, <1>3, SettledOK DEF LogoutSettles

LEMMA JoinedInv == ASSUME SessionAssumption, Inv, NEW c \in Tasks, Joined(c) PROVE Inv'
<1>1. task[c].pc = "joined" /\ Free(c) /\ UNCHANGED others
  BY DEF Joined, Arrived, Free, Waiting, others
<1>2. c \in Calls
  BY <1>1, TaskFacts DEF TaskOK, RecOK
<1>3. CASE /\ task[c].ans = "ok" /\ Current(c)
           /\ Send(c, "sent", credentials.access) /\ UNCHANGED <<memory, queue>>
  <2>1. credentials.access # NoToken
    BY <1>1, <1>3, TaskFacts DEF TaskOK, EpochOK, Current
  <2> QED BY <1>1, <1>2, <1>3, <2>1, SendOK
<1>4. CASE Fail(c)
  BY <1>1, <1>2, <1>4, FailOK
<1> QED BY <1>3, <1>4 DEF Joined

LEMMA RecoveredInv == ASSUME SessionAssumption, Inv, NEW c \in Tasks, Recovered(c) PROVE Inv'
<1>1. task[c].pc = "recovering" /\ Free(c) /\ UNCHANGED others
  BY DEF Recovered, Arrived, Free, Waiting, others
<1>2. c \in Calls
  BY <1>1, TaskFacts DEF TaskOK, RecOK
<1>3. CASE task[c].ans = "ok" /\ Current(c) /\ Replay(c)
  <2>1. credentials.access # NoToken
    BY <1>1, <1>3, TaskFacts DEF TaskOK, EpochOK, Current
  <2> QED BY <1>1, <1>2, <1>3, <2>1, ReplayOK
<1>4. CASE Fail(c)
  BY <1>1, <1>2, <1>4, FailOK
<1> QED BY <1>3, <1>4 DEF Recovered

LEMMA ReplayRepliedInv ==
  ASSUME SessionAssumption, Inv, NEW c \in Tasks, ReplayReplied(c) PROVE Inv'
<1>1. task[c].pc = "replayed" /\ Free(c) /\ UNCHANGED others
  BY DEF ReplayReplied, Arrived, Free, Waiting, others
<1>2. c \in Calls
  BY <1>1, TaskFacts DEF TaskOK, RecOK
<1>3. CASE Current(c) /\ Succeed(c)
  BY <1>1, <1>2, <1>3, SucceedOK
<1>4. CASE Fail(c)
  BY <1>1, <1>2, <1>4, FailOK
<1>5. CASE Forget(c, "expired") \/ Forget(c, "suspended")
  BY <1>1, <1>5, ForgetOK DEF others
<1> QED BY <1>3, <1>4, <1>5 DEF ReplayReplied

LEMMA LoseInv == ASSUME SessionAssumption, Inv, NEW t \in Tasks, Lose(t) PROVE Inv'
<1> DEFINE r == [task[t] EXCEPT !.ans = "error"]
<1>1. /\ task[t].pc \in {"asking", "sent", "replayed", "revoking", "leaving"}
      /\ task[t].ans = "none"
  BY DEF Lose, Awaiting
<1>2. /\ r \in TaskRecords /\ r.pc = task[t].pc /\ r.stored = task[t].stored
      /\ r.ans = "error" /\ r.op = task[t].op /\ r.epoch = task[t].epoch
      /\ r.token = task[t].token
  BY TaskFacts DEF TaskRecords
<1>3. task' = [task EXCEPT ![t] = r] /\ UNCHANGED <<others, memory, queue>>
  BY DEF Lose, Inv, TasksOK, others
<1> HIDE DEF r
<1>4. TaskOK(t, r)
  BY <1>1, <1>2, TaskFacts DEF TaskOK, RecOK, EpochOK, Holds, HasToken
<1>5. /\ Queued(t, r) /\ r.pc \notin {"idle", "reading", "clearing"}
      /\ task[t].pc \notin {"idle", "reading"}
      /\ Holds(r) => Holds(task[t]) /\ r.token = task[t].token
  BY <1>1, <1>2, <1>3 DEF Queued, Holds
<1>6. Signing(r, epoch) => Signing(task[t], epoch)
  BY <1>2 DEF Signing
<1> QED BY <1>2, <1>3, <1>4, <1>5, <1>6, PutOK DEF others

(* The one step that spends a token: the account's own, never spent, and    *)
(* no longer on the disk.                                                  *)
Spends(f) ==
  /\ Stored(f, "clearing") /\ task[f].stored = "ok" /\ Current(f)
  /\ Goto(f, "asking") /\ spent' = spent \cup {task[f].token}
  /\ UNCHANGED <<memory, queue, server, busy, durable, late, storeFailed, ended, bounds>>

LEMMA SpendsInv == ASSUME SessionAssumption, Inv, NEW f \in Tasks, Spends(f) PROVE Inv'
<1> USE DEF server, memory, bounds
<1> DEFINE r == At(f, "asking")
           k == task[f].token
<1>1. /\ r \in TaskRecords /\ r.pc = "asking" /\ r.stored = "none" /\ r.ans = "none"
      /\ r.op = task[f].op /\ r.epoch = task[f].epoch /\ r.token = k
  BY AtOK
<1>2. /\ task' = [task EXCEPT ![f] = r] /\ DOMAIN task = Tasks
      /\ task = [s \in Tasks |-> task[s]]
  BY DEF Spends, Goto, Inv, TasksOK
<1> HIDE DEF r
<1>3. /\ task'[f] = r /\ \A s \in Tasks \ {f} : task'[s] = task[s]
      /\ DOMAIN task' = Tasks /\ task' = [s \in Tasks |-> task'[s]]
  BY <1>2
<1>4. /\ task[f].pc = "clearing" /\ task[f].op = "refresh" /\ k = credentials.refresh
      /\ k # NoToken /\ k \notin spent /\ refreshFlight = f /\ durable = NoToken
      /\ k \in 1 .. Len(issued) /\ task[f].epoch = epoch /\ Free(f)
  BY TaskFacts DEF Spends, Stored, Current, TaskOK, RecOK, EpochOK, HasToken, Inv,
     StorageOK, TaskRecords, NoToken, ServerOK, Free
<1>5. ASSUME NEW s \in Tasks
      PROVE  TaskOK(s, task[s])'
  <2>1. CASE s = f
    <3>1. RecOK(f, r)
      BY <1>1, <1>4, TaskFacts DEF TaskOK, RecOK, HasToken, Holds
    <3>2. TaskOK(f, task[f])
      BY TaskFacts
    <3>3. RecOK(s, task[s])'
      BY <1>3, <2>1, <3>1 DEF Spends, RecOK
    <3>4. EpochOK(s, task[s])'
      BY <1>1, <1>3, <1>4, <2>1, <3>2 DEF Spends, TaskOK, EpochOK, SameAccount, UserOf
    <3> QED BY <1>1, <1>3, <1>4, <2>1, <3>2, <3>3, <3>4 DEF Spends, TaskOK, Holds
  <2>2. CASE s # f
    <3>1. TaskOK(s, task[s]) /\ task'[s] = task[s] /\ spent' = spent \cup {credentials.refresh}
      BY <1>3, <1>4, <2>2, TaskFacts DEF Spends
    <3>2. RecOK(s, task[s])'
      BY <3>1 DEF Spends, TaskOK, RecOK
    <3>3. task[s].epoch = epoch => EpochOK(s, task[s])'
      <4> SUFFICES ASSUME task[s].epoch = epoch PROVE EpochOK(s, task[s])'
        OBVIOUS
      <4>1. EpochOK(s, task[s])
        BY <3>1 DEF TaskOK
      <4>2. task[s].pc # "clearing"
        BY <1>4, <2>2, <3>1, <4>1 DEF TaskOK, RecOK, EpochOK
      <4> QED BY <3>1, <4>1, <4>2 DEF Spends, EpochOK, SameAccount, UserOf
    <3> QED BY <3>1, <3>2, <3>3 DEF Spends, TaskOK, Holds
  <2> QED BY <2>1, <2>2
<1>6. TasksOK'
  <2>1. ~Holds(task'[f]) /\ ~Signing(task'[f], epoch') /\ epoch' = epoch
    BY <1>1, <1>3, <1>4 DEF Spends, Holds, Signing
  <2> QED BY <1>3, <1>5, <2>1, TasksKept
<1>7. MemoryOK'
  <2>1. Flying'
    BY <1>1, <1>3, <1>4, CallFacts DEF Spends, Flying, SessionAssumption
  <2>2. task'[refreshFlight'].pc # "idle"
    BY <1>1, <1>3, <1>4 DEF Spends
  <2> QED BY <2>1, <2>2 DEF Spends, Inv, MemoryOK, UserOf
<1>8. StorageOK'
  <2>1. Queued(f, r)
    BY <1>4 DEF Spends, Queued
  <2>2. durable' \notin spent' /\ durable' = durable /\ busy' = busy /\ issued' = issued
    BY <1>4 DEF Spends, Inv, StorageOK
  <2> QED BY <1>1, <1>3, <2>1, <2>2, QueueKept
<1>9. BootOK'
  BY <1>1, <1>3, <1>4 DEF Spends, Inv, BootOK, SessionAssumption, Tasks, Idle
<1>10. ServerOK' /\ HistoryOK'
  BY <1>4 DEF Spends, Inv, ServerOK, HistoryOK
<1> QED BY <1>6, <1>7, <1>8, <1>9, <1>10 DEF Inv

LEMMA FlightClearedInv ==
  ASSUME SessionAssumption, Inv, NEW f \in Tasks, FlightCleared(f) PROVE Inv'
<1>1. CASE Forget(f, "expired") /\ UNCHANGED spent
  <2>1. Free(f) /\ task[f].pc # "idle"
    BY DEF FlightCleared, Stored, Free
  <2> QED BY <1>1, <2>1, ForgetOK DEF FlightCleared, history
<1>2. CASE Spends(f)
  BY <1>2, SpendsInv
<1> QED BY <1>1, <1>2 DEF FlightCleared, Spends

(* New credentials are published.                                          *)
Publishes(t) ==
  /\ task[t].pc = "saving" /\ task[t].stored = "ok" /\ Current(t)
  /\ credentials' = [access |-> task[t].token, refresh |-> task[t].token]
  /\ UNCHANGED <<epoch, snapshot, cache, queue>> /\ UNCHANGED others

LEMMA PublishFacts ==
  ASSUME SessionAssumption, Inv, NEW t \in Tasks, Publishes(t)
  PROVE  LET k == task[t].token IN
         /\ k # NoToken /\ k \notin spent /\ k \in 1 .. Len(issued)
         /\ credentials'.access = k /\ credentials'.refresh = k
         /\ credentials' \in Credentials /\ credentials' # NoCredentials
         /\ task[t].epoch = epoch /\ epoch' = epoch /\ Free(t)
         /\ \A s \in Tasks \ {t} : Holds(task[s]) => task[s].token # k
         /\ task[t].op \in {"login", "refresh"} /\ EpochOK(t, task[t])
         /\ issued' = issued /\ spent' = spent
<1> DEFINE k == task[t].token
<1>1. TaskOK(t, task[t]) /\ Holds(task[t]) /\ task[t] \in TaskRecords
  BY TaskFacts DEF Publishes, Holds
<1>2. k # NoToken /\ k \notin spent /\ k \in 1 .. Len(issued) /\ k \in 0 .. MaxTokens
  BY <1>1 DEF TaskOK, RecOK, HasToken, TaskRecords, NoToken, Inv, ServerOK
<1>3. credentials'.access = k /\ credentials'.refresh = k /\ credentials' \in Credentials
  BY <1>2 DEF Publishes, Credentials
<1>4. credentials' # NoCredentials
  BY <1>2, <1>3 DEF NoCredentials
<1>5. \A s \in Tasks \ {t} : Holds(task[s]) => task[s].token # k
  BY <1>1 DEF Inv, TasksOK
<1>6. task[t].epoch = epoch /\ task[t].op \in {"login", "refresh"} /\ EpochOK(t, task[t])
  BY <1>1 DEF Publishes, Current, TaskOK, RecOK
<1> QED BY <1>2, <1>3, <1>4, <1>5, <1>6
  DEF Publishes, Free, others, server, history

LEMMA FlightSavedInv ==
  ASSUME SessionAssumption, Inv, NEW f \in Flights, Publishes(f), Finish(f, "ok")
  PROVE  Inv'
<1> USE DEF others, server, history, bounds
<1> DEFINE k == task[f].token
<1>0. f \in Tasks
  BY CallFacts
<1>1. DOMAIN task = Tasks /\ task = [s \in Tasks |-> task[s]]
  BY DEF Inv, TasksOK
<1>2. /\ task' = [s \in Tasks |-> task'[s]] /\ DOMAIN task' = Tasks /\ task'[f] = Idle
      /\ \A s \in Tasks \ {f} :
           \/ task'[s] = task[s]
           \/ /\ task[s].pc \in {"joined", "recovering"}
              /\ task'[s] = [task[s] EXCEPT !.ans = "ok"]
      /\ refreshFlight' = IF refreshFlight = f THEN None ELSE refreshFlight
  BY <1>0 DEF Finish
<1>3. ASSUME NEW s \in Tasks \ {f}
      PROVE  /\ task'[s] \in TaskRecords /\ task'[s].op = task[s].op
             /\ task'[s].pc = task[s].pc /\ task'[s].epoch = task[s].epoch
             /\ task'[s].token = task[s].token /\ task'[s].stored = task[s].stored
             /\ \/ task'[s].ans = task[s].ans
                \/ task[s].pc \in {"joined", "recovering"}
  <2>1. task[s] \in TaskRecords
    BY TaskFacts
  <2>2. [task[s] EXCEPT !.ans = "ok"] \in TaskRecords
    BY <2>1 DEF TaskRecords
  <2> QED BY <1>2, <2>1, <2>2 DEF TaskRecords
<1>4. task[f].op = "refresh" /\ refreshFlight = f /\ refreshFlight' = None
      /\ credentials.refresh # NoToken /\ UserOf(k) = UserOf(credentials.refresh)
  BY <1>0, <1>2, PublishFacts, TaskFacts DEF TaskOK, RecOK, EpochOK, SameAccount, Publishes
<1>5. ASSUME NEW s \in Tasks
      PROVE  TaskOK(s, task[s])'
  <2>1. CASE s = f
    BY <1>2, <2>1, IdleOK DEF Inv, ServerOK, MemoryOK, Publishes
  <2>2. CASE s # f
    <3>1. RecOK(s, task[s])'
      BY <1>3, <2>2, TaskFacts DEF Publishes, TaskOK, RecOK, Holds, HasToken
    <3>2. ASSUME task[s].epoch = epoch
          PROVE  EpochOK(s, task[s])'
      <4>1. EpochOK(s, task[s]) /\ credentials # NoCredentials
        BY <1>4, <3>2, TaskFacts DEF TaskOK, NoCredentials
      <4>2. /\ ~(task[s].op = "login" /\ task[s].pc \in {"starting", "asking", "saving"})
            /\ ~(task[s].op = "refresh" /\ task[s].pc \in {"clearing", "asking", "saving"})
            /\ task[s].pc # "clearing"
        BY <1>4, <2>2, <4>1, TaskFacts DEF TaskOK, RecOK, EpochOK
      <4>3. /\ credentials'.access = k /\ credentials'.refresh = k /\ k # NoToken
            /\ issued' = issued
        BY <1>0, PublishFacts
      <4> QED BY <1>3, <1>4, <2>2, <4>1, <4>2, <4>3 DEF EpochOK, SameAccount, UserOf
    <3> QED BY <1>0, <1>3, <2>2, <3>1, <3>2, TaskFacts, PublishFacts DEF TaskOK, Holds
  <2> QED BY <2>1, <2>2
<1>6. TasksOK'
  <2>1. ~Holds(task'[f]) /\ ~Signing(task'[f], epoch')
    BY <1>0, <1>2, TaskFacts DEF Signing, Idle
  <2>2. \A s \in Tasks \ {f} :
          /\ Holds(task'[s]) => Holds(task[s]) /\ task'[s].token = task[s].token
          /\ Signing(task'[s], epoch') => Signing(task[s], epoch)
    BY <1>3 DEF Holds, Signing, Publishes
  <2> QED BY <1>0, <1>2, <1>5, <2>1, <2>2, TasksKept
<1>7. MemoryOK'
  <2>1. /\ credentials'.access = k /\ credentials'.refresh = k /\ k # NoToken
        /\ issued' = issued /\ spent' = spent /\ k \notin spent /\ k \in 1 .. Len(issued)
        /\ credentials' \in Credentials
    BY <1>0, PublishFacts
  <2>2. credentials # NoCredentials
    BY <1>4 DEF NoCredentials
  <2> QED BY <1>4, <2>1, <2>2 DEF Publishes, Inv, MemoryOK, UserOf
<1>8. StorageOK'
  <2>1. Queued(f, Idle) /\ durable' \notin spent' /\ durable' = durable /\ busy' = busy
        /\ issued' = issued
    BY <1>0, PublishFacts DEF Publishes, Queued, Inv, StorageOK
  <2>2. ~(Idle.pc = "clearing" /\ Idle.stored = "ok")
    BY DEF Idle
  <2> QED BY <1>0, <1>2, <1>3, <2>1, <2>2, QueueKept
<1>9. BootOK'
  BY <1>0, <1>2, <1>3 DEF Publishes, Inv, BootOK, SessionAssumption, Tasks, Idle
<1>10. ServerOK' /\ HistoryOK'
  BY DEF Publishes, Inv, ServerOK, HistoryOK
<1> QED BY <1>6, <1>7, <1>8, <1>9, <1>10 DEF Inv

LEMMA LoginSavedInv ==
  ASSUME SessionAssumption, Inv, NEW c \in Calls, Publishes(c),
         Send(c, "sent", task[c].token), UNCHANGED refreshFlight
  PROVE  Inv'
<1> USE DEF others, server, history, bounds
<1> DEFINE k == task[c].token
           r == [At(c, "sent") EXCEPT !.token = k]
<1>0. c \in Tasks /\ c \notin Flights
  BY CallFacts
<1>1. /\ k # NoToken /\ k \notin spent /\ k \in 1 .. Len(issued)
      /\ credentials'.access = k /\ credentials'.refresh = k
      /\ credentials' \in Credentials /\ credentials' # NoCredentials
      /\ task[c].epoch = epoch /\ epoch' = epoch /\ Free(c)
      /\ \A s \in Tasks \ {c} : Holds(task[s]) => task[s].token # k
      /\ issued' = issued /\ spent' = spent
  BY <1>0, PublishFacts
<1>2. /\ task[c].op = "login" /\ task[c].pc = "saving" /\ credentials = NoCredentials
      /\ cache = None /\ snapshot.status = "loading"
  BY <1>0, PublishFacts, TaskFacts DEF TaskOK, RecOK, EpochOK, Publishes
<1>3. /\ r \in TaskRecords /\ r.token = k /\ r.pc = "sent" /\ r.stored = "none"
      /\ r.ans = "none" /\ r.op = "login" /\ r.epoch = epoch
  <2>1. k \in 0 .. MaxTokens
    BY <1>0, TaskFacts DEF TaskRecords
  <2> QED BY <1>0, <1>1, <1>2, <2>1, AtOK
<1>4. DOMAIN task = Tasks /\ task' = [task EXCEPT ![c] = r]
  BY DEF Send, Inv, TasksOK
<1> HIDE DEF r
<1>5. /\ task' = [s \in Tasks |-> task'[s]] /\ DOMAIN task' = Tasks /\ task'[c] = r
      /\ \A s \in Tasks \ {c} : task'[s] = task[s]
  <2>1. task = [s \in Tasks |-> task[s]]
    BY DEF Inv, TasksOK
  <2> QED BY <1>0, <1>4, <2>1
<1>6. ASSUME NEW s \in Tasks
      PROVE  TaskOK(s, task[s])'
  <2>1. CASE s = c
    <3>1. RecOK(s, task[s])'
      BY <1>0, <1>1, <1>3, <1>5, <2>1, TaskFacts DEF TaskOK, RecOK, HasToken, Holds,
         Inv, ServerOK
    <3>2. EpochOK(s, task[s])'
      BY <1>1, <1>3, <1>5, <2>1 DEF EpochOK, SameAccount, UserOf
    <3> QED BY <1>1, <1>3, <1>5, <2>1, <3>1, <3>2 DEF TaskOK, Holds, Inv, MemoryOK
  <2>2. CASE s # c
    <3>1. TaskOK(s, task[s]) /\ task'[s] = task[s]
      BY <1>5, <2>2, TaskFacts
    <3>2. RecOK(s, task[s])'
      BY <1>1, <3>1 DEF TaskOK, RecOK
    <3>3. ASSUME task[s].epoch = epoch
          PROVE  EpochOK(s, task[s])'
      <4>1. EpochOK(s, task[s]) /\ RecOK(s, task[s])
        BY <3>1, <3>3 DEF TaskOK
      <4>2. ~Signing(task[s], epoch)
        BY <1>0, <1>1, <1>2, <2>2 DEF Inv, TasksOK, Signing
      <4>3. /\ credentials.refresh = NoToken /\ credentials.access = NoToken
        BY <1>2 DEF NoCredentials
      <4>4. task[s].pc \notin {"sent", "replayed", "joined", "recovering", "clearing"}
            /\ ~(task[s].op = "refresh" /\ task[s].pc \in {"clearing", "asking", "saving"})
        BY <4>1, <4>3 DEF EpochOK, RecOK
      <4> QED BY <3>1, <3>3, <4>2, <4>4 DEF EpochOK, Signing
    <3> QED BY <1>1, <2>2, <3>1, <3>2, <3>3 DEF TaskOK, Holds
  <2> QED BY <2>1, <2>2
<1>7. TasksOK'
  <2>1. ~Holds(task'[c]) /\ ~Signing(task'[c], epoch')
    BY <1>3, <1>5 DEF Holds, Signing
  <2> QED BY <1>0, <1>1, <1>5, <1>6, <2>1, TasksKept
<1>8. MemoryOK'
  <2>1. refreshFlight' # None => task'[refreshFlight'].pc # "idle"
    BY <1>0, <1>3, <1>5 DEF Inv, MemoryOK, Tasks
  <2> QED BY <1>1, <1>2, <2>1 DEF Publishes, Inv, MemoryOK, UserOf
<1>9. StorageOK'
  <2>1. Queued(c, r) /\ durable' \notin spent' /\ durable' = durable /\ busy' = busy
    BY <1>1 DEF Publishes, Queued, Inv, StorageOK
  <2> QED BY <1>0, <1>1, <1>3, <1>5, <2>1, QueueKept
<1>10. BootOK'
  BY <1>0, <1>1, <1>2, <1>3, <1>5 DEF Publishes, Inv, BootOK, SessionAssumption, Tasks, Idle
<1>11. ServerOK' /\ HistoryOK'
  BY DEF Publishes, Inv, ServerOK, HistoryOK
<1> QED BY <1>7, <1>8, <1>9, <1>10, <1>11 DEF Inv

LEMMA SavedInv == ASSUME SessionAssumption, Inv, NEW t \in Tasks, Saved(t) PROVE Inv'
<1>1. task[t].pc = "saving" /\ task[t].stored # "none" /\ Free(t) /\ UNCHANGED others
  BY DEF Saved, Stored, Free, others
<1>2. CASE Publishes(t) /\ t \in Flights /\ Finish(t, "ok")
  BY <1>2, FlightSavedInv
<1>3. CASE Publishes(t) /\ t \notin Flights /\ Send(t, "sent", task[t].token)
           /\ UNCHANGED refreshFlight
  BY <1>3, LoginSavedInv, CallFacts
<1>4. CASE ~Current(t) /\ Goto(t, "revoking") /\ UNCHANGED <<memory, queue>>
  BY <1>1, <1>4, RevokingOK DEF Holds
<1>5. CASE Forget(t, Reason(t))
  BY <1>1, <1>5, ReasonOK, ForgetOK DEF others
<1> QED BY <1>1, <1>2, <1>3, <1>4, <1>5 DEF Saved, Publishes, Revoke

(* A refresh begins: c waits for it, and f is the flight.                  *)
LEMMA FlightBeginsOK ==
  ASSUME SessionAssumption, Inv, NEW c \in Calls, NEW pc \in {"joined", "recovering"},
         task[c].pc \in {"reading", "sent"}, Current(c), ~Flying,
         NEW pair, Refresh(c, pc, pair), credentials'.refresh = pair.refresh,
         pair.refresh \in 1 .. Len(issued), pair.refresh \notin spent,
         \/ UNCHANGED credentials /\ credentials.access # NoToken
         \/ /\ credentials'.access = NoToken /\ credentials' \in Credentials
            /\ snapshot = Loading /\ cache = None
            /\ \A s \in Tasks \ {c} : task[s] = Idle,
         UNCHANGED <<others, epoch, snapshot, cache>>
  PROVE  Inv'
<1> USE DEF others, server, history, bounds
<1> DEFINE r == At(c, pc)
           k == pair.refresh
<1>1. PICK f \in Flights :
        /\ task[f] = Idle
        /\ task' = [task EXCEPT ![c] = r,
                                ![f] = [Idle EXCEPT !.op = "refresh", !.pc = "clearing",
                                                    !.epoch = epoch, !.token = k]]
        /\ refreshFlight' = f
        /\ queue' = Append(queue, [by |-> f, act |-> "clear",
                                   token |-> NoToken, asserts |-> TRUE])
  BY DEF Refresh
<1> DEFINE x == [Idle EXCEPT !.op = "refresh", !.pc = "clearing", !.epoch = epoch,
                             !.token = k]
           q == [by |-> f, act |-> "clear", token |-> NoToken, asserts |-> TRUE]
<1>2. /\ c \in Tasks /\ f \in Tasks /\ c # f /\ f \notin Calls /\ c \notin Flights
      /\ refreshFlight' # None /\ epoch \in Nat /\ Len(issued) \in Nat
      /\ Len(issued) <= MaxTokens /\ k \in 1 .. Len(issued) /\ k \in Nat /\ k # 0
      /\ task[c].epoch = epoch
  BY <1>1, CallFacts DEF SessionAssumption, Inv, MemoryOK, ServerOK, Current
<1>3. /\ r \in TaskRecords /\ r.pc = pc /\ r.stored = "none" /\ r.ans = "none"
      /\ r.op = task[c].op /\ r.epoch = epoch /\ r.token = task[c].token
  BY <1>2, AtOK
<1>4. /\ x \in TaskRecords /\ x.pc = "clearing" /\ x.stored = "none" /\ x.ans = "none"
      /\ x.op = "refresh" /\ x.epoch = epoch /\ x.token = k
  <2>1. k \in 0 .. MaxTokens
    BY <1>2 DEF SessionAssumption
  <2> HIDE DEF k
  <2> QED BY <1>2, <2>1, TaskFacts DEF Idle, TaskRecords, NoToken
<1>5. q \in Entries /\ q.by = f /\ q.act = "clear" /\ queue' = Append(queue, q)
  BY <1>1, <1>2 DEF Entries, NoToken, SessionAssumption
<1>6. task' = [task EXCEPT ![c] = r, ![f] = x]
  BY <1>1
<1> HIDE DEF r, x, q, k
<1>7. /\ task' = [s \in Tasks |-> task'[s]] /\ DOMAIN task' = Tasks
      /\ task'[c] = r /\ task'[f] = x
      /\ \A s \in Tasks \ {c, f} : task'[s] = task[s]
  <2>1. DOMAIN task = Tasks /\ task = [s \in Tasks |-> task[s]]
    BY DEF Inv, TasksOK
  <2> QED BY <1>2, <1>6, <2>1
<1>8. /\ credentials'.refresh = k /\ k \notin spent /\ k # NoToken
      /\ UNCHANGED credentials \/ \A s \in Tasks \ {c} : task[s] = Idle
  BY <1>2 DEF k, NoToken
<1>9. ASSUME NEW s \in Tasks
      PROVE  TaskOK(s, task[s])'
  <2>1. CASE s = c
    <3>1. TaskOK(c, task[c])
      BY <1>2, TaskFacts
    <3>2. RecOK(s, task[s])'
      BY <1>2, <1>3, <1>7, <2>1, <3>1 DEF TaskOK, RecOK, HasToken, Holds
    <3>3. EpochOK(s, task[s])'
      BY <1>3, <1>7, <1>8, <2>1 DEF EpochOK
    <3> QED BY <1>2, <1>3, <1>7, <2>1, <3>2, <3>3 DEF TaskOK, Holds
  <2>2. CASE s = f
    <3>1. RecOK(s, task[s])'
      BY <1>2, <1>4, <1>7, <2>2 DEF RecOK, HasToken, Holds, NoToken
    <3>2. EpochOK(s, task[s])'
      BY <1>1, <1>4, <1>7, <1>8, <2>2 DEF EpochOK, SameAccount
    <3> QED BY <1>2, <1>4, <1>7, <2>2, <3>1, <3>2 DEF TaskOK, Holds
  <2>3. CASE s \notin {c, f}
    <3>1. TaskOK(s, task[s]) /\ task'[s] = task[s]
      BY <1>7, <2>3, TaskFacts
    <3>2. CASE task[s] = Idle
      BY <1>2, <3>1, <3>2, IdleOK
    <3>3. CASE UNCHANGED credentials
      <4>1. RecOK(s, task[s])'
        BY <3>1 DEF TaskOK, RecOK
      <4>2. ASSUME task[s].epoch = epoch
            PROVE  EpochOK(s, task[s])'
        <5>1. EpochOK(s, task[s])
          BY <3>1, <4>2 DEF TaskOK
        <5>2. ~(task[s].op = "refresh" /\ task[s].pc \in {"clearing", "asking", "saving"})
          BY <4>2, <5>1 DEF EpochOK, Flying, Inv, MemoryOK, SessionAssumption, Tasks
        <5> QED BY <3>1, <3>3, <5>1, <5>2 DEF EpochOK, SameAccount, UserOf
      <4> QED BY <3>1, <3>3, <4>1, <4>2 DEF TaskOK, Holds
    <3> QED BY <1>8, <2>3, <3>2, <3>3
  <2> QED BY <2>1, <2>2, <2>3
<1>10. TasksOK'
  <2>1. ~Holds(r) /\ ~Holds(x) /\ ~Signing(r, epoch') /\ ~Signing(x, epoch')
    BY <1>3, <1>4 DEF Holds, Signing
  <2>2. \A s \in Tasks \ {c} :
          /\ Holds(task'[s]) => Holds(task[s]) /\ task'[s].token = task[s].token
          /\ Signing(task'[s], epoch') => Signing(task[s], epoch)
    BY <1>7, <2>1
  <2> QED BY <1>2, <1>7, <1>9, <2>1, <2>2, TasksKept
<1>11. MemoryOK'
  <2>1. Flying'
    BY <1>1, <1>2, <1>4, <1>7 DEF Flying
  <2>2. task'[refreshFlight'].pc # "idle" /\ refreshFlight' \in Flights
    BY <1>1, <1>4, <1>7
  <2>3. credentials' \in Credentials
        /\ (credentials'.access # NoToken => credentials'.access = credentials'.refresh)
    BY DEF Inv, MemoryOK
  <2>4. UNCHANGED credentials \/ (snapshot = Loading /\ cache = None)
    OBVIOUS
  <2> QED BY <1>2, <1>8, <2>1, <2>2, <2>3, <2>4 DEF Inv, MemoryOK, UserOf, Loading
<1>12. StorageOK'
  <2>1. Free(c) /\ Free(f)
    BY <1>1 DEF Free, Waiting, Idle
  <2>2. \A i \in 1 .. Len(queue) : /\ queue[i].by \in Tasks \ {c, f}
                                   /\ queue[i] \in Entries /\ EntryOK(queue[i], task)
    <3>1. \A i \in 1 .. Len(queue) : queue[i].by # c /\ queue[i].by # f
      BY <2>1, FreeOK
    <3>2. \A i \in 1 .. Len(queue) : queue[i] \in Entries /\ EntryOK(queue[i], task)
      BY DEF Inv, StorageOK
    <3>3. \A e \in Entries : e.by \in Tasks
      BY DEF Entries
    <3> QED BY <3>1, <3>2, <3>3
  <2>3. \A i \in 1 .. Len(queue) : EntryOK(queue[i], task')
    BY <1>7, <2>2 DEF EntryOK
  <2>4. EntryOK(q, task')
    BY <1>4, <1>5, <1>7 DEF EntryOK
  <2>5. queue \in Seq(Entries) /\ Len(queue) \in Nat
    BY DEF Inv, StorageOK
  <2>6. /\ queue' \in Seq(Entries) /\ Len(queue') = Len(queue) + 1
        /\ \A i \in 1 .. Len(queue) : queue'[i] = queue[i]
        /\ queue'[Len(queue) + 1] = q
    BY <1>5, <2>5
  <2>7. \A i \in 1 .. Len(queue') : i \in 1 .. Len(queue) \/ i = Len(queue) + 1
    BY <2>5, <2>6
  <2>8. \A i \in 1 .. Len(queue') : EntryOK(queue'[i], task')
    <3> SUFFICES ASSUME NEW i \in 1 .. Len(queue') PROVE EntryOK(queue'[i], task')
      OBVIOUS
    <3>1. CASE i \in 1 .. Len(queue)
      BY <2>3, <2>6, <3>1
    <3>2. CASE i = Len(queue) + 1
      BY <2>4, <2>6, <3>2
    <3> QED BY <2>7, <3>1, <3>2
  <2>9. \A i, j \in 1 .. Len(queue') : queue'[i].by = queue'[j].by => i = j
    BY <1>5, <2>2, <2>6, <2>7 DEF Inv, StorageOK
  <2>10. queue' # <<>> /\ busy' \in BOOLEAN
    BY <2>5, <2>6 DEF Inv, StorageOK
  <2>11. \A s \in Tasks : task'[s].pc = "clearing" /\ task'[s].stored = "ok"
                         => durable' = NoToken
    BY <1>3, <1>4, <1>7 DEF Inv, StorageOK
  <2>12. durable' \in 0 .. Len(issued') /\ durable' \notin spent'
    BY DEF Inv, StorageOK
  <2> QED BY <2>6, <2>8, <2>9, <2>10, <2>11, <2>12 DEF StorageOK
<1>13. BootOK'
  <2>1. task'[Boot].pc = "reading" => Boot # c /\ Boot # f /\ task'[Boot] = task[Boot]
    BY <1>3, <1>4, <1>7, CallFacts
  <2>2. task[c].pc = "reading" => c = Boot
    BY <1>2, TaskFacts DEF TaskOK, RecOK
  <2>3. task[c] # Idle
    BY DEF Idle
  <2> QED BY <1>2, <2>1, <2>2, <2>3 DEF Inv, BootOK
<1>14. ServerOK' /\ HistoryOK'
  BY DEF Inv, ServerOK, HistoryOK
<1> QED BY <1>10, <1>11, <1>12, <1>13, <1>14 DEF Inv

LEMMA InitializeReadsInv ==
  ASSUME SessionAssumption, Inv, NEW t \in Tasks, InitializeReads(t) PROVE Inv'
<1>1. /\ task[t].pc = "reading" /\ Free(t) /\ t = Boot /\ task[t].epoch = 0
      /\ UNCHANGED <<others, epoch, cache>>
  BY TaskFacts DEF InitializeReads, Free, Waiting, TaskOK, RecOK, others
<1>2. t \in Calls /\ t \notin Flights
  BY <1>1, CallFacts
<1>3. ended' \subseteq Tokens
  BY <1>1 DEF others, history, Inv, HistoryOK
<1>4. CASE Finish(t, "failed") /\ UNCHANGED <<credentials, snapshot, queue>>
  <2>1. Shown
    BY <1>1, <1>4, ShownKept
  <2> QED BY <1>1, <1>2, <1>3, <1>4, <2>1, FinishOK DEF others, history, bounds
<1>5. ASSUME Current(t)
      PROVE  /\ \A s \in Tasks \ {t} : task[s] = Idle
             /\ credentials = NoCredentials /\ snapshot = Loading /\ cache = None
             /\ refreshFlight = None
  <2>1. /\ \A s \in Tasks \ {t} : task[s] = Idle
        /\ credentials = NoCredentials /\ snapshot = Loading /\ cache = None
    BY <1>1, <1>5 DEF Inv, BootOK, Current
  <2>2. refreshFlight = None
    BY <1>2, <2>1, CallFacts DEF Inv, MemoryOK, Idle
  <2> QED BY <2>1, <2>2
<1>6. CASE /\ Current(t) /\ snapshot' = SignedOut(None) /\ Finish(t, "ok")
           /\ UNCHANGED <<credentials, queue>>
  <2>1. Shown
    BY <1>1, <1>5, <1>6 DEF Shown, SignedOut, Snapshots
  <2> QED BY <1>1, <1>2, <1>3, <1>5, <1>6, <2>1, FinishOK DEF others, history, bounds
<1>7. CASE /\ Current(t) /\ durable # NoToken
           /\ credentials' = [access |-> NoToken, refresh |-> durable]
           /\ Refresh(t, "joined", [access |-> NoToken, refresh |-> durable])
           /\ UNCHANGED snapshot
  <2> DEFINE pair == [access |-> NoToken, refresh |-> durable]
  <2>1. /\ pair.refresh = durable /\ durable \in 1 .. Len(issued) /\ durable \notin spent
        /\ durable \in 0 .. MaxTokens
    BY <1>7 DEF Inv, StorageOK, ServerOK, NoToken, SessionAssumption
  <2>2. /\ credentials'.refresh = pair.refresh /\ credentials'.access = NoToken
        /\ credentials' \in Credentials
    BY <1>7, <2>1 DEF Credentials, NoToken, SessionAssumption
  <2>3. ~Flying
    BY <1>5, <1>7 DEF Flying
  <2>4. Refresh(t, "joined", pair)
    BY <1>7
  <2> HIDE DEF pair
  <2> QED BY <1>1, <1>2, <1>5, <1>7, <2>1, <2>2, <2>3, <2>4, FlightBeginsOK
<1> QED BY <1>4, <1>6, <1>7 DEF InitializeReads

LEMMA RepliedInv == ASSUME SessionAssumption, Inv, NEW c \in Tasks, Replied(c) PROVE Inv'
<1>1. task[c].pc = "sent" /\ Free(c) /\ UNCHANGED others
  BY DEF Replied, Arrived, Free, Waiting, others
<1>2. c \in Calls
  BY <1>1, TaskFacts DEF TaskOK, RecOK
<1>3. Current(c) => credentials.access # NoToken /\ credentials.refresh = credentials.access
  BY <1>1, TaskFacts DEF TaskOK, EpochOK, Current, Inv, MemoryOK
<1>4. CASE Fail(c)
  BY <1>1, <1>2, <1>4, FailOK
<1>5. CASE Current(c) /\ Succeed(c)
  BY <1>1, <1>2, <1>5, SucceedOK
<1>6. CASE Forget(c, "suspended")
  BY <1>1, <1>6, ForgetOK DEF others
<1>7. CASE Current(c) /\ Replay(c)
  BY <1>1, <1>2, <1>3, <1>7, ReplayOK
<1>8. CASE /\ Current(c) /\ Refresh(c, "recovering", credentials)
           /\ UNCHANGED <<epoch, credentials, snapshot, cache>>
  <2>1. CASE Flying
    <3> DEFINE r == At(c, "recovering")
    <3>1. /\ r \in TaskRecords /\ r.pc = "recovering" /\ r.stored = "none" /\ r.ans = "none"
          /\ r.op = task[c].op /\ r.epoch = task[c].epoch /\ r.token = task[c].token
      BY AtOK
    <3>2. task' = [task EXCEPT ![c] = r] /\ UNCHANGED <<refreshFlight, queue>>
      BY <1>8, <2>1 DEF Refresh, Goto
    <3> HIDE DEF r
    <3>3. TaskOK(c, r)
      <4>1. TaskOK(c, task[c])
        BY TaskFacts
      <4>2. RecOK(c, r)
        BY <1>1, <3>1, <4>1 DEF TaskOK, RecOK, HasToken, Holds
      <4>3. EpochOK(c, r)
        BY <1>3, <1>8, <3>1 DEF EpochOK
      <4> QED BY <3>1, <4>1, <4>2, <4>3 DEF TaskOK, Holds
    <3>4. Queued(c, r)
      BY <1>1, <3>2 DEF Queued
    <3> QED BY <1>1, <1>8, <3>1, <3>2, <3>3, <3>4, PutOK
        DEF Signing, Holds, others, memory, history, bounds
  <2>2. CASE ~Flying
    <3>1. credentials.refresh \in 1 .. Len(issued) /\ credentials.refresh \notin spent
      BY <1>3, <1>8, <2>2 DEF Inv, MemoryOK, Credentials, NoToken, ServerOK
    <3> QED BY <1>1, <1>2, <1>3, <1>8, <2>2, <3>1, FlightBeginsOK
  <2> QED BY <2>1, <2>2
<1> QED BY <1>4, <1>5, <1>6, <1>7, <1>8 DEF Replied

LEMMA HeadFacts ==
  ASSUME SessionAssumption, Inv, queue # <<>>
  PROVE  /\ Head(queue) = queue[1] /\ 1 \in 1 .. Len(queue) /\ Len(queue) \in Nat \ {0}
         /\ Head(queue) \in Entries /\ EntryOK(Head(queue), task)
         /\ Head(queue).by \in Tasks /\ Head(queue).token \in 0 .. MaxTokens
<1>1. queue \in Seq(Entries)
  BY DEF Inv, StorageOK
<1>2. Len(queue) \in Nat \ {0} /\ Head(queue) = queue[1] /\ queue[1] \in Entries
  BY <1>1
<1>3. 1 \in 1 .. Len(queue)
  BY <1>2
<1>4. EntryOK(queue[1], task)
  BY <1>3 DEF Inv, StorageOK
<1>5. \A q \in Entries : q.by \in Tasks /\ q.token \in 0 .. MaxTokens
  BY DEF Entries
<1> QED BY <1>2, <1>3, <1>4, <1>5

(* What the operation at the head of the queue would leave on the disk.    *)
LEMMA EffectOK ==
  ASSUME SessionAssumption, Inv, queue # <<>>
  PROVE  Effect(Head(queue)) \in 0 .. Len(issued) /\ Effect(Head(queue)) \notin spent
<1> DEFINE q == Head(queue)
<1>1. q \in Entries /\ EntryOK(q, task)
  BY HeadFacts
<1> HIDE DEF q
<1>2. CASE q.act = "set"
  <2>1. q.by \in Tasks /\ Effect(q) = task[q.by].token /\ Holds(task[q.by])
    BY <1>1, <1>2 DEF Effect, Holds, EntryOK, Entries
  <2> QED BY <2>1, TaskFacts DEF TaskOK, RecOK, TaskRecords, Inv, ServerOK, q
<1>3. CASE q.act # "set"
  <2>1. Effect(q) = 0 /\ Len(issued) \in Nat
    BY <1>3 DEF Effect, NoToken, Inv, ServerOK
  <2> QED BY <2>1 DEF Inv, HistoryOK, q
<1> QED BY <1>2, <1>3

(* The storage answers the task at the head of its queue.                  *)
LEMMA StorageAnswers ==
  ASSUME SessionAssumption, Inv, queue # <<>>, NEW result \in {"ok", "failed"},
         NEW t \in Tasks, t = Head(queue).by, NEW r,
         r = [task[t] EXCEPT !.stored = result], task' = [task EXCEPT ![t] = r],
         queue' = Tail(queue), busy' = FALSE,
         \/ durable' = durable /\ result = "failed"
         \/ durable' = Effect(Head(queue)) /\ Quiet,
         storeFailed' \in BOOLEAN,
         UNCHANGED <<server, memory, late, spent, ended, bounds>>
  PROVE  Inv'
<1> USE DEF server, memory, bounds
<1> DEFINE q == Head(queue)
<1> HIDE DEF q
<1>1. queue \in Seq(Entries) /\ Len(queue) \in Nat \ {0} /\ q = queue[1]
  BY HeadFacts DEF q, Inv, StorageOK
<1>2. q \in Entries /\ EntryOK(q, task)
  BY HeadFacts DEF q
<1>3. t = q.by /\ q.token \in 0 .. MaxTokens
  BY HeadFacts DEF q
<1>4. /\ task[t].stored = "none" /\ task[t].pc \in Waiting
      /\ q.act = "set" => task[t].pc = "saving" /\ q.token = task[t].token
  BY <1>2, <1>3 DEF EntryOK, Waiting
<1>5. DOMAIN task = Tasks /\ task = [s \in Tasks |-> task[s]]
  BY DEF Inv, TasksOK
<1>6. /\ r \in TaskRecords /\ r.pc = task[t].pc /\ r.stored = result
      /\ r.ans = task[t].ans /\ r.op = task[t].op /\ r.epoch = task[t].epoch
      /\ r.token = task[t].token
  <2>1. task[t] \in TaskRecords
    BY TaskFacts
  <2> QED BY <2>1 DEF TaskRecords
<1>7. /\ task'[t] = r /\ \A s \in Tasks \ {t} : task'[s] = task[s]
      /\ DOMAIN task' = Tasks /\ task' = [s \in Tasks |-> task'[s]]
  BY <1>5
<1>8. ASSUME NEW s \in Tasks
      PROVE  TaskOK(s, task[s])'
  <2>1. CASE s = t
    <3>1. TaskOK(t, task[t])
      BY <1>3, TaskFacts
    <3>2. TaskOK(t, r)
      BY <1>6, <3>1 DEF TaskOK, RecOK, EpochOK, Holds, HasToken
    <3> QED BY <1>7, <2>1, <3>2, SameContext DEF context
  <2>2. CASE s # t
    BY <1>7, <2>2, TaskFacts, SameContext DEF context
  <2> QED BY <2>1, <2>2
<1>9. TasksOK'
  <2>1. /\ Holds(r) => Holds(task[t]) /\ r.token = task[t].token
        /\ Signing(r, epoch) => Signing(task[t], epoch)
    BY <1>6 DEF Holds, Signing
  <2>2. /\ task'[t] = r /\ epoch' = epoch
        /\ \A s \in Tasks \ {t} :
             /\ Holds(task'[s]) => Holds(task[s]) /\ task'[s].token = task[s].token
             /\ Signing(task'[s], epoch') => Signing(task[s], epoch)
    BY <1>7
  <2>3. /\ Holds(task'[t]) => Holds(task[t]) /\ task'[t].token = task[t].token
        /\ Signing(task'[t], epoch') => Signing(task[t], epoch)
    BY <2>1, <2>2
  <2>4. \A s, u \in Tasks : Holds(task'[s]) /\ Holds(task'[u])
                            /\ task'[s].token = task'[u].token => s = u
    BY <2>2, <2>3 DEF TasksOK, Inv
  <2>5. \A s, u \in Tasks : Signing(task'[s], epoch') /\ Signing(task'[u], epoch') => s = u
    BY <2>2, <2>3 DEF TasksOK, Inv
  <2> QED BY <1>7, <1>8, <2>4, <2>5 DEF TasksOK
<1>10. MemoryOK'
  <2>1. Flying => Flying'
    BY <1>6, <1>7, SessionAssumption DEF Flying, Inv, MemoryOK, SessionAssumption, Tasks
  <2>2. refreshFlight' # None => task'[refreshFlight'].pc # "idle"
    BY <1>6, <1>7 DEF Inv, MemoryOK, Tasks
  <2> QED BY <2>1, <2>2 DEF Inv, MemoryOK, UserOf
<1>11. StorageOK'
  <2>1. /\ queue' \in Seq(Entries) /\ Len(queue') = Len(queue) - 1
        /\ \A i \in 1 .. Len(queue') : queue'[i] = queue[i + 1] /\ i + 1 \in 2 .. Len(queue)
    BY <1>1
  <2>2. \A i \in 2 .. Len(queue) : /\ queue[i] \in Entries /\ EntryOK(queue[i], task)
                                   /\ queue[i].by # t
    <3>1. \A i \in 2 .. Len(queue) : i \in 1 .. Len(queue) /\ 1 \in 1 .. Len(queue) /\ i # 1
      BY <1>1
    <3> QED BY <1>1, <1>3, <3>1 DEF Inv, StorageOK, q
  <2>3. \A i \in 2 .. Len(queue) : EntryOK(queue[i], task')
    <3>1. \A e \in Entries : e.by # t /\ EntryOK(e, task) => EntryOK(e, task')
      BY <1>7 DEF EntryOK, Entries
    <3> QED BY <2>2, <3>1
  <2>4. \A i \in 1 .. Len(queue') : EntryOK(queue'[i], task')
    BY <2>1, <2>3
  <2>5. \A i, j \in 1 .. Len(queue') : queue'[i].by = queue'[j].by => i = j
    <3>1. \A i, j \in 2 .. Len(queue) : queue[i].by = queue[j].by => i = j
      BY <1>1 DEF Inv, StorageOK
    <3>2. \A i, j \in 1 .. Len(queue') : i + 1 = j + 1 => i = j
      BY <1>1, <2>1
    <3> QED BY <2>1, <3>1, <3>2
  <2>6. durable' \in 0 .. Len(issued') /\ durable' \notin spent'
    BY EffectOK DEF Inv, StorageOK
  <2>7. ASSUME NEW s \in Tasks, task'[s].pc = "clearing", task'[s].stored = "ok"
        PROVE  durable' = NoToken
    <3>1. CASE s = t
      <4>1. q.act # "set" /\ durable' = Effect(q)
        BY <1>4, <1>6, <1>7, <2>7, <3>1 DEF q
      <4> QED BY <4>1 DEF Effect
    <3>2. CASE s # t
      <4>1. task[s].pc = "clearing" /\ task[s].stored = "ok"
        BY <1>7, <2>7, <3>2
      <4>2. ~Quiet
        BY <4>1 DEF Quiet, Due
      <4> QED BY <4>1, <4>2 DEF Inv, StorageOK
    <3> QED BY <3>1, <3>2
  <2> QED BY <2>1, <2>4, <2>5, <2>6, <2>7 DEF StorageOK
<1>12. BootOK'
  <2>1. task'[Boot].pc = task[Boot].pc
    BY <1>6, <1>7, CallFacts
  <2>2. task[t] # Idle /\ task[t].pc # "reading"
    BY <1>4 DEF Idle, Waiting
  <2> QED BY <1>3, <2>1, <2>2 DEF Inv, BootOK
<1>13. ServerOK' /\ HistoryOK'
  BY DEF Inv, ServerOK, HistoryOK
<1> QED BY <1>9, <1>10, <1>11, <1>12, <1>13 DEF Inv

LEMMA StoreBeginsInv == ASSUME SessionAssumption, Inv, StoreBegins PROVE Inv'
<1> USE DEF server, memory, history, bounds
<1>1. CASE /\ queue' = Tail(queue) /\ UNCHANGED busy
           /\ task' = [task EXCEPT ![Head(queue).by].stored = "failed"]
  <2>1. storeFailed' \in BOOLEAN /\ busy' = FALSE /\ queue # <<>>
    BY <1>1 DEF StoreBegins, Inv, HistoryOK, StorageOK
  <2>2. PICK t \in Tasks : t = Head(queue).by
    BY <2>1, HeadFacts
  <2>3. task' = [task EXCEPT ![t] = [task[t] EXCEPT !.stored = "failed"]]
    BY <1>1, <2>2
  <2> QED BY <1>1, <2>1, <2>2, <2>3, StorageAnswers DEF StoreBegins
<1>2. CASE busy' = TRUE /\ UNCHANGED <<queue, task>>
  BY <1>2 DEF StoreBegins, Inv, ServerOK, TasksOK, TaskOK, RecOK, EpochOK, SameAccount, UserOf,
     MemoryOK, Flying, StorageOK, BootOK, HistoryOK, Signing, Holds, HasToken
<1> QED BY <1>1, <1>2 DEF StoreBegins

LEMMA StoreEndsInv == ASSUME SessionAssumption, Inv, StoreEnds PROVE Inv'
<1>1. queue # <<>> /\ Quiet /\ queue' = Tail(queue) /\ busy' = FALSE
      /\ UNCHANGED <<server, memory, late, spent, ended, bounds>>
  BY DEF StoreEnds, Inv, StorageOK
<1>2. PICK t \in Tasks : t = Head(queue).by
  BY <1>1, HeadFacts
<1>3. CASE /\ task' = [task EXCEPT ![Head(queue).by].stored = "ok"]
           /\ durable' = Effect(Head(queue)) /\ storeFailed' = FALSE
  <2>1. task' = [task EXCEPT ![t] = [task[t] EXCEPT !.stored = "ok"]]
    BY <1>3, <1>2
  <2> QED BY <1>1, <1>3, <1>2, <2>1, StorageAnswers
<1>4. CASE /\ task' = [task EXCEPT ![Head(queue).by].stored = "failed"]
           /\ durable' \in {durable, Effect(Head(queue))} /\ storeFailed' = TRUE
  <2>1. task' = [task EXCEPT ![t] = [task[t] EXCEPT !.stored = "failed"]]
    BY <1>4, <1>2
  <2> QED BY <1>1, <1>4, <1>2, <2>1, StorageAnswers
<1> QED BY <1>3, <1>4 DEF StoreEnds

-----------------------------------------------------------------------------
(* The server moves: tokens keep their account, everything else is told by  *)
(* the tasks.                                                              *)
LEMMA ServerMoves ==
  ASSUME SessionAssumption, Inv, NEW r, Extends(r), Becomes(r)
  PROVE  /\ ServerOK' /\ issued' = r.issued /\ Len(issued) \in Nat /\ Len(issued') \in Nat
         /\ Len(issued) <= Len(issued') /\ Len(issued') <= MaxTokens
         /\ \A k \in 1 .. Len(issued) : issued'[k] = issued[k]
BY DEF Inv, ServerOK, Extends, Becomes

LEMMA ContextGrows ==
  ASSUME SessionAssumption, Inv, NEW r, Extends(r), Becomes(r),
         UNCHANGED <<epoch, credentials, cache, snapshot, refreshFlight, spent>>,
         NEW t, NEW x, TaskOK(t, x), task'[t] = x
  PROVE  TaskOK(t, task[t])'
<1>1. /\ Len(issued) \in Nat /\ Len(issued') \in Nat /\ Len(issued) <= Len(issued')
      /\ \A k \in 1 .. Len(issued) : issued'[k] = issued[k]
      /\ credentials.refresh \in Nat /\ credentials.refresh <= Len(issued)
  BY ServerMoves DEF Inv, MemoryOK, Credentials, SessionAssumption
<1>2. RecOK(t, x) /\ x.token \in Nat /\ x.token <= Len(issued)
  BY DEF TaskOK, RecOK, TaskRecords, SessionAssumption
<1>3. RecOK(t, task[t])'
  BY <1>1, <1>2 DEF RecOK
<1>4. ASSUME EpochOK(t, x)
      PROVE  EpochOK(t, task[t])'
  <2>1. \A k \in Nat : k # NoToken /\ k <= Len(issued) => k \in 1 .. Len(issued)
    BY DEF NoToken
  <2>2. /\ x.token # NoToken /\ credentials.refresh # NoToken
           => (SameAccount(x.token) <=> issued'[x.token].user = issued'[credentials.refresh].user)
    BY <1>1, <1>2, <2>1 DEF SameAccount, UserOf
  <2>3. (x.op = "refresh" /\ x.pc \in {"clearing", "asking", "saving"})
          \/ x.pc \in {"sent", "replayed"}
        => x.token # NoToken
    BY <1>2 DEF RecOK, HasToken, Holds
  <2>4. x.pc \in {"sent", "replayed"} => credentials.refresh # NoToken
    BY <1>4 DEF EpochOK, Inv, MemoryOK
  <2> QED BY <1>4, <2>2, <2>3, <2>4 DEF EpochOK, SameAccount, UserOf
<1> QED BY <1>3, <1>4 DEF TaskOK

LEMMA AnswerOK ==
  ASSUME SessionAssumption, Inv, NEW r, Extends(r), Becomes(r), TasksOK',
         UNCHANGED <<memory, queue, busy, durable, history, bounds>>, late' \subseteq late,
         \A s \in Tasks :
           /\ task'[s].pc = task[s].pc /\ task'[s].stored = task[s].stored
           /\ task'[s].epoch = task[s].epoch
           /\ (task'[s].token = task[s].token \/ task[s].pc # "saving")
           /\ (task[s] = Idle => task'[s] = Idle)
  PROVE  Inv'
<1> USE DEF memory, history, bounds
<1>1. /\ Len(issued) \in Nat /\ Len(issued') \in Nat /\ Len(issued) <= Len(issued')
      /\ \A k \in 1 .. Len(issued) : issued'[k] = issued[k]
      /\ ServerOK'
  BY ServerMoves
<1>2. MemoryOK'
  <2>1. Flying => Flying'
    BY DEF Flying, Inv, MemoryOK, SessionAssumption, Tasks
  <2>2. refreshFlight' # None => task'[refreshFlight'].pc # "idle"
    BY DEF Inv, MemoryOK, Tasks
  <2>3. credentials.refresh # NoToken
          => issued'[credentials.refresh] = issued[credentials.refresh]
    BY <1>1 DEF Inv, MemoryOK, Credentials, NoToken
  <2>4. credentials'.refresh <= Len(issued')
    BY <1>1 DEF Inv, MemoryOK, Credentials, SessionAssumption
  <2> QED BY <2>1, <2>2, <2>3, <2>4 DEF Inv, MemoryOK, UserOf
<1>3. StorageOK'
  <2>1. \A q \in Entries : EntryOK(q, task) => EntryOK(q, task')
    BY DEF EntryOK, Entries
  <2>2. \A i \in 1 .. Len(queue) : EntryOK(queue[i], task')
    BY <2>1 DEF Inv, StorageOK
  <2>3. \A s \in Tasks : task'[s].pc = "clearing" /\ task'[s].stored = "ok"
                         => durable' = NoToken
    BY DEF Inv, StorageOK
  <2>4. durable' \in 0 .. Len(issued')
    BY <1>1 DEF Inv, StorageOK
  <2> QED BY <2>2, <2>3, <2>4 DEF Inv, StorageOK
<1>4. BootOK'
  BY CallFacts DEF Inv, BootOK
<1>5. HistoryOK'
  <2>1. \A m \in late : m.token <= Len(issued')
    BY <1>1 DEF Inv, HistoryOK, Messages, SessionAssumption
  <2>2. spent' \subseteq 1 .. Len(issued')
    BY <1>1 DEF Inv, HistoryOK
  <2> QED BY <2>1, <2>2 DEF Inv, HistoryOK
<1> QED BY <1>1, <1>2, <1>3, <1>4, <1>5 DEF Inv

LEMMA HandleLateInv ==
  ASSUME SessionAssumption, Inv, NEW m \in late, HandleLate(m) PROVE Inv'
<1>1. Sendable(m)
  BY DEF Inv, HistoryOK, Messages, Sendable, NoToken, ServerOK
<1>2. PICK r \in Outcomes(m) : Becomes(r)
  BY DEF HandleLate
<1>3. Extends(r) /\ task' = task
      /\ UNCHANGED <<epoch, credentials, cache, snapshot, refreshFlight, spent>>
  BY <1>1, <1>2, OutcomeOK DEF Inv, HandleLate, memory, history
<1>4. \A s \in Tasks : TaskOK(s, task[s])'
  BY <1>2, <1>3, ContextGrows, TaskFacts
<1>5. TasksOK'
  BY <1>3, <1>4 DEF Inv, TasksOK
<1> QED BY <1>2, <1>3, <1>5, AnswerOK DEF HandleLate

(* The request a task has on the wire.                                     *)
LEMMA MessageOK ==
  ASSUME SessionAssumption, Inv, NEW t \in Tasks, Awaiting(t)
  PROVE  /\ Message(t).token = task[t].token /\ Sendable(Message(t))
         /\ task[t].pc = "asking" => Message(t).kind = task[t].op
         /\ task[t].pc \in {"sent", "replayed"} => Message(t).kind = "api"
         /\ task[t].pc \in {"revoking", "leaving"} => Message(t).kind = "logout"
<1> DEFINE m == Message(t)
<1>1. task[t].pc \in {"asking", "sent", "replayed", "revoking", "leaving"}
  BY DEF Awaiting
<1>2. RecOK(t, task[t]) /\ task[t] \in TaskRecords
  BY TaskFacts DEF TaskOK
<1>3. /\ m.token = task[t].token
      /\ task[t].pc = "asking" => m.kind = task[t].op
      /\ task[t].pc \in {"sent", "replayed"} => m.kind = "api"
      /\ task[t].pc \in {"revoking", "leaving"} => m.kind = "logout"
  <2>1. CASE task[t].pc = "asking"
    BY <2>1, Zenon DEF Message
  <2>2. CASE task[t].pc \in {"sent", "replayed"}
    <3>1. task[t].pc # "asking"
      BY <2>2
    <3> QED BY <2>2, <3>1, Zenon DEF Message
  <2>3. CASE task[t].pc \in {"revoking", "leaving"}
    <3>1. task[t].pc # "asking" /\ task[t].pc \notin {"sent", "replayed"}
      BY <2>3
    <3> QED BY <2>3, <3>1, Zenon DEF Message
  <2> QED BY <1>1, <2>1, <2>2, <2>3
<1> HIDE DEF m
<1>4. Sendable(m)
  <2>1. task[t].pc = "asking" => task[t].op \in {"login", "refresh"}
    BY <1>2 DEF RecOK
  <2>2. m.kind # "login" => task[t].token # NoToken
    BY <1>1, <1>2, <1>3, <2>1 DEF RecOK, HasToken
  <2>3. m.kind # "login" => m.token \in 1 .. Len(issued)
    BY <1>2, <1>3, <2>2 DEF RecOK, TaskRecords, NoToken, Inv, ServerOK
  <2> QED BY <1>1, <1>3, <2>1, <2>3 DEF Sendable
<1> QED BY <1>3, <1>4 DEF m

LEMMA HandleInv == ASSUME SessionAssumption, Inv, NEW t \in Tasks, Handle(t) PROVE Inv'
<1> DEFINE m == Message(t)
<1>1. /\ task[t].pc \in {"asking", "sent", "replayed", "revoking", "leaving"}
      /\ task[t].ans = "none"
      /\ UNCHANGED <<memory, queue, busy, durable, late, history, bounds>>
      /\ UNCHANGED <<epoch, credentials, cache, snapshot, refreshFlight, spent>>
  BY DEF Handle, Awaiting, memory, history
<1>2. TaskOK(t, task[t]) /\ RecOK(t, task[t]) /\ task[t] \in TaskRecords
  BY TaskFacts DEF TaskOK
<1>3. /\ m.token = task[t].token /\ Sendable(m)
      /\ task[t].pc = "asking" => m.kind = task[t].op
      /\ task[t].pc \in {"sent", "replayed"} => m.kind = "api"
      /\ task[t].pc \in {"revoking", "leaving"} => m.kind = "logout"
  BY MessageOK DEF Handle
<1> HIDE DEF m
<1>4. PICK r \in Outcomes(m) :
        /\ Becomes(r)
        /\ \/ task' = [task EXCEPT ![t].ans = r.ans, ![t].token = r.token]
           \/ task' = [task EXCEPT ![t].ans = "error"]
  BY DEF Handle, m
<1>5. /\ Extends(r) /\ r.ans \in Answers /\ r.token \in 0 .. Len(r.issued)
      /\ m.kind = "login" => \/ r.ans = "ok" /\ \E u \in Users : IssuesTo(r, u)
                             \/ r.ans # "ok" /\ r.token = NoToken
      /\ m.kind = "refresh" => \/ r.ans = "ok" /\ IssuesTo(r, UserOf(m.token))
                               \/ r.ans # "ok" /\ r.token = m.token
      /\ m.kind \in {"logout", "api"} => r.token = m.token
  BY <1>3, OutcomeOK DEF Inv
<1>6. DOMAIN task = Tasks /\ task = [s \in Tasks |-> task[s]]
  BY DEF Inv, TasksOK
<1>7. ASSUME NEW x, task' = [task EXCEPT ![t] = x], x.pc = task[t].pc,
             x.stored = task[t].stored, x.epoch = task[t].epoch, x.op = task[t].op,
             TaskOK(t, task[t])',
             Holds(x) => x.token = Len(issued) + 1
      PROVE  Inv'
  <2>1. /\ task'[t] = x /\ \A s \in Tasks \ {t} : task'[s] = task[s]
        /\ DOMAIN task' = Tasks /\ task' = [s \in Tasks |-> task'[s]]
    BY <1>6, <1>7
  <2>2. ASSUME NEW s \in Tasks
        PROVE  TaskOK(s, task[s])'
    <3>1. CASE s = t
      BY <1>7, <3>1
    <3>2. CASE s # t
      BY <1>1, <1>4, <1>5, <2>1, <3>2, TaskFacts, ContextGrows
    <3> QED BY <3>1, <3>2
  <2>3. \A s \in Tasks : task[s].token # Len(issued) + 1
    BY TaskFacts DEF TaskOK, RecOK, TaskRecords, SessionAssumption, Inv, ServerOK
  <2>4. Signing(x, epoch') => Signing(task[t], epoch)
    BY <1>1, <1>7 DEF Signing
  <2>5. TasksOK'
    <3>1. \A s, u \in Tasks : Holds(task'[s]) /\ Holds(task'[u])
                              /\ task'[s].token = task'[u].token => s = u
      BY <1>7, <2>1, <2>3 DEF TasksOK, Inv
    <3>2. \A s, u \in Tasks : Signing(task'[s], epoch') /\ Signing(task'[u], epoch')
                              => s = u
      BY <1>1, <2>1, <2>4 DEF TasksOK, Inv
    <3> QED BY <2>1, <2>2, <3>1, <3>2 DEF TasksOK
  <2>6. task[t] # Idle /\ task[t].pc # "saving"
    BY <1>1 DEF Idle
  <2> QED BY <1>1, <1>4, <1>5, <1>7, <2>1, <2>5, <2>6, AnswerOK
<1>8. CASE task' = [task EXCEPT ![t].ans = "error"]
  <2> DEFINE x == [task[t] EXCEPT !.ans = "error"]
  <2>1. /\ x \in TaskRecords /\ x.pc = task[t].pc /\ x.stored = task[t].stored
        /\ x.ans = "error" /\ x.op = task[t].op /\ x.epoch = task[t].epoch
        /\ x.token = task[t].token
    BY <1>2 DEF TaskRecords
  <2>2. task' = [task EXCEPT ![t] = x]
    BY <1>6, <1>8
  <2> HIDE DEF x
  <2>3. TaskOK(t, x)
    BY <1>1, <1>2, <2>1 DEF TaskOK, RecOK, EpochOK, Holds, HasToken
  <2>4. task'[t] = x
    BY <1>6, <2>2
  <2>5. TaskOK(t, task[t])'
    BY <1>1, <1>4, <1>5, <2>3, <2>4, ContextGrows
  <2>6. ~Holds(x)
    BY <1>1, <2>1 DEF Holds
  <2> QED BY <1>7, <2>1, <2>2, <2>5, <2>6
<1>9. CASE task' = [task EXCEPT ![t].ans = r.ans, ![t].token = r.token]
  <2> DEFINE x == [task[t] EXCEPT !.ans = r.ans, !.token = r.token]
  <2>1. /\ Len(issued) \in Nat /\ Len(issued') \in Nat /\ Len(issued) <= Len(issued')
        /\ Len(issued') <= MaxTokens /\ issued' = r.issued
        /\ \A k \in 1 .. Len(issued) : issued'[k] = issued[k]
        /\ r.token \in 0 .. MaxTokens /\ r.token <= Len(issued')
    <3>1. /\ Len(issued) \in Nat /\ Len(issued') \in Nat /\ Len(issued) <= Len(issued')
          /\ Len(issued') <= MaxTokens /\ issued' = r.issued
          /\ \A k \in 1 .. Len(issued) : issued'[k] = issued[k]
      BY <1>4, <1>5, ServerMoves
    <3> QED BY <1>5, <3>1 DEF SessionAssumption
  <2>2. /\ x \in TaskRecords /\ x.pc = task[t].pc /\ x.stored = task[t].stored
        /\ x.ans = r.ans /\ x.op = task[t].op /\ x.epoch = task[t].epoch
        /\ x.token = r.token
    BY <1>2, <1>5, <2>1 DEF TaskRecords, Answers
  <2>3. task' = [task EXCEPT ![t] = x]
    BY <1>6, <1>9
  <2> HIDE DEF x
  <2>4. task'[t] = x
    BY <1>6, <2>3
  <2>5. /\ \/ x.token = task[t].token
           \/ x.token = Len(issued) + 1 /\ x.pc = "asking" /\ x.ans = "ok"
           \/ x.token = NoToken /\ x.pc = "asking" /\ x.op = "login" /\ x.ans # "ok"
        /\ Holds(x) => x.token = Len(issued) + 1
        /\ x.op = "refresh" /\ x.pc = "asking" /\ x.token # task[t].token
             => issued'[x.token].user = UserOf(task[t].token)
    <3>1. CASE task[t].pc = "asking"
      BY <1>2, <1>3, <1>5, <2>1, <2>2, <3>1 DEF RecOK, IssuesTo, Holds
    <3>2. CASE task[t].pc # "asking"
      BY <1>1, <1>3, <1>5, <2>2, <3>2 DEF Holds
    <3> QED BY <3>1, <3>2
  <2>6. RecOK(t, task[t])'
    BY <1>1, <1>2, <2>1, <2>2, <2>4, <2>5 DEF RecOK, HasToken, Holds, NoToken
  <2>7. ASSUME x.epoch = epoch
        PROVE  EpochOK(t, task[t])'
    <3>1. EpochOK(t, task[t]) /\ task[t].pc # "clearing"
      BY <1>1, <1>2, <2>2, <2>7 DEF TaskOK
    <3>2. \A k \in Nat : k # NoToken /\ k <= Len(issued) => issued'[k] = issued[k]
      BY <2>1 DEF NoToken
    <3>3. /\ credentials.refresh \in Nat /\ credentials.refresh <= Len(issued)
          /\ task[t].token \in Nat /\ task[t].token <= Len(issued)
      BY <1>2 DEF RecOK, TaskRecords, Inv, MemoryOK, Credentials, SessionAssumption
    <3>4. CASE task[t].pc = "asking" /\ task[t].op = "refresh"
      <4>1. task[t].token # NoToken /\ credentials.refresh # NoToken
            /\ SameAccount(task[t].token) /\ refreshFlight = t
        BY <1>2, <3>1, <3>4 DEF RecOK, HasToken, EpochOK
      <4>2. issued'[x.token].user = issued'[credentials.refresh].user
        BY <2>2, <2>5, <3>2, <3>3, <3>4, <4>1 DEF SameAccount, UserOf
      <4> QED BY <1>1, <2>2, <2>4, <3>4, <4>1, <4>2 DEF EpochOK, SameAccount, UserOf
    <3>5. CASE task[t].pc = "asking" /\ task[t].op # "refresh"
      BY <1>1, <2>2, <2>4, <3>1, <3>5 DEF EpochOK
    <3>6. CASE task[t].pc \in {"sent", "replayed"}
      <4>1. task[t].token # NoToken /\ credentials.access # NoToken
            /\ credentials.refresh # NoToken /\ SameAccount(task[t].token)
        BY <1>2, <3>1, <3>6 DEF RecOK, HasToken, EpochOK, Inv, MemoryOK
      <4>2. x.token = task[t].token
        BY <2>2, <2>5, <3>6
      <4>3. issued'[x.token].user = issued'[credentials.refresh].user
        BY <3>2, <3>3, <4>1, <4>2 DEF SameAccount, UserOf
      <4> QED BY <1>1, <2>2, <2>4, <3>6, <4>1, <4>3 DEF EpochOK, SameAccount, UserOf
    <3>7. CASE task[t].pc \in {"revoking", "leaving"}
      BY <2>2, <2>4, <3>7 DEF EpochOK
    <3> QED BY <1>1, <3>4, <3>5, <3>6, <3>7
  <2>8. Holds(x) => x.token \notin spent /\ x.token # credentials.refresh
    BY <2>1, <2>5 DEF Inv, HistoryOK, MemoryOK, Credentials
  <2>9. TaskOK(t, task[t])'
    BY <1>1, <1>2, <2>2, <2>4, <2>6, <2>7, <2>8 DEF TaskOK
  <2> QED BY <1>7, <2>2, <2>3, <2>5, <2>9
<1> QED BY <1>4, <1>8, <1>9

-----------------------------------------------------------------------------
(* A process that starts, for the first time or after a crash.             *)
Fresh ==
  /\ epoch = 0 /\ credentials = NoCredentials /\ snapshot = Loading
  /\ refreshFlight = None /\ cache = None
  /\ task = Started /\ queue = <<>> /\ busy = FALSE
  /\ durable \in 0 .. Len(issued) /\ durable \notin spent

LEMMA FreshOK == SessionAssumption /\ Fresh /\ ServerOK /\ HistoryOK => Inv
<1> SUFFICES ASSUME SessionAssumption, Fresh, ServerOK, HistoryOK
             PROVE  Inv
  OBVIOUS
<1> DEFINE x == [Idle EXCEPT !.op = "initialize", !.pc = "reading"]
<1>1. /\ DOMAIN task = Tasks /\ Boot \in Tasks /\ Boot \in Calls /\ task[Boot] = x
      /\ \A t \in Tasks \ {Boot} : task[t] = Idle
      /\ \A c \in Calls : c \in Tasks /\ c \notin Flights
      /\ Len(issued) \in Nat
  BY DEF Fresh, Started, SessionAssumption, Tasks, ServerOK
<1>2. Idle \in TaskRecords
  BY DEF Idle, TaskRecords, NoToken, SessionAssumption
<1>3. /\ x \in TaskRecords /\ x.op = "initialize" /\ x.pc = "reading" /\ x.epoch = 0
      /\ x.token = 0 /\ x.ans = "none" /\ x.stored = "none"
  BY <1>2 DEF Idle, TaskRecords, NoToken
<1>4. task = [t \in Tasks |-> task[t]]
  BY DEF Fresh, Started
<1> HIDE DEF x
<1>5. ASSUME NEW t \in Tasks
      PROVE  TaskOK(t, task[t]) /\ ~Holds(task[t]) /\ ~Signing(task[t], epoch)
             /\ task[t].pc \notin {"clearing"}
  <2>1. CASE t = Boot
    <3>1. RecOK(Boot, x) /\ EpochOK(Boot, x)
      BY <1>1, <1>3 DEF RecOK, EpochOK, HasToken, Holds
    <3> QED BY <1>1, <1>3, <2>1, <3>1 DEF TaskOK, Holds, Signing, Fresh
  <2>2. CASE t # Boot
    <3>1. task[t] = Idle /\ Idle.op = "none" /\ Idle.pc = "idle" /\ Idle.epoch = 0
          /\ Idle.token = 0
      BY <1>1, <2>2 DEF Idle, NoToken
    <3>2. RecOK(t, Idle) /\ EpochOK(t, Idle)
      BY <1>1, <1>2, <3>1 DEF RecOK, EpochOK, HasToken, Holds
    <3> QED BY <3>1, <3>2 DEF TaskOK, Holds, Signing, Fresh
  <2> QED BY <2>1, <2>2
<1>6. TasksOK
  BY <1>1, <1>4, <1>5 DEF TasksOK
<1>7. MemoryOK
  <2>1. NoCredentials \in Credentials /\ NoCredentials.access = 0 /\ NoCredentials.refresh = 0
        /\ 0 \notin spent /\ Loading \in Snapshots
        /\ Loading.status = "loading" /\ Loading.user = None
    BY DEF NoCredentials, NoToken, Credentials, Loading, Snapshots, SessionAssumption,
       HistoryOK
  <2> QED BY <1>1, <2>1 DEF Fresh, MemoryOK, NoToken
<1>8. StorageOK
  <2>1. queue \in Seq(Entries) /\ 1 .. Len(queue) = {} /\ busy = FALSE
    BY DEF Fresh
  <2>2. \A t \in Tasks : task[t].pc # "clearing"
    BY <1>5
  <2>3. durable \in 0 .. Len(issued) /\ durable \notin spent
    BY DEF Fresh
  <2> HIDE DEF Fresh
  <2> QED BY <2>1, <2>2, <2>3 DEF StorageOK
<1>9. BootOK
  BY <1>1 DEF Fresh, BootOK
<1> QED BY <1>6, <1>7, <1>8, <1>9 DEF Inv

LEMMA InitInv == ASSUME SessionAssumption, Init PROVE Inv
<1>1. HistoryOK
  <2>1. 0 \in 0 .. MaxLogins /\ 0 \in 0 .. MaxCrashes
    BY DEF SessionAssumption
  <2>2. storeFailed \in BOOLEAN
    BY DEF Init
  <2> QED BY <2>1, <2>2 DEF Init, HistoryOK
<1>2. ServerOK /\ durable \in 0 .. Len(issued) /\ HistoryOK /\ durable \notin spent
  <2>1. CASE issued = <<>> /\ live = {} /\ durable = NoToken
    <3>1. issued \in Seq(Issues) /\ Len(issued) = 0
      BY <2>1
    <3>2. ServerOK
      BY <2>1, <3>1 DEF Init, ServerOK, SessionAssumption
    <3> QED BY <1>1, <2>1, <3>1, <3>2 DEF Init, NoToken
  <2>2. CASE \E u \in Users : /\ issued = <<[user |-> u, root |-> 1]>>
                              /\ live = {1} /\ durable = 1
    <3>1. PICK u \in Users : issued = <<[user |-> u, root |-> 1]>>
      BY <2>2
    <3>2. 1 \in Tokens /\ 1 <= MaxTokens
      BY DEF SessionAssumption, Tokens
    <3>3. [user |-> u, root |-> 1] \in Issues /\ Len(issued) = 1
      BY <3>1, <3>2 DEF Issues
    <3>4. issued \in Seq(Issues)
      BY <3>1, <3>3
    <3>5. live = {1} /\ durable = 1 /\ 1 \in 0 .. 1 /\ 1 \notin {}
      BY <2>2
    <3>6. ServerOK
      BY <3>2, <3>3, <3>4, <3>5 DEF Init, ServerOK
    <3> QED BY <1>1, <3>3, <3>5, <3>6 DEF Init
  <2> QED BY <2>1, <2>2 DEF Init
<1> QED BY <1>2, FreshOK DEF Fresh, Init

LEMMA CrashInv == ASSUME SessionAssumption, Inv, Crash PROVE Inv'
<1> USE DEF server, history
<1>1. ServerOK'
  BY DEF Crash, Inv, ServerOK
<1>2. HistoryOK'
  <2>1. ASSUME NEW m \in late'
        PROVE  m \in Messages /\ m.token <= Len(issued) /\ (m.kind # "login" => m.token # NoToken)
    <3>1. m \in {Message(t) : t \in {s \in Tasks : Awaiting(s)}} /\ m.kind # "api"
      BY <2>1 DEF Crash
    <3>2. PICK t \in Tasks : Awaiting(t) /\ m = Message(t)
      BY <3>1
    <3>3. Sendable(m) /\ m.token = task[t].token
      BY <3>2, MessageOK
    <3>4. task[t].token \in 0 .. MaxTokens /\ task[t].token <= Len(issued)
      BY TaskFacts DEF TaskOK, RecOK, TaskRecords
    <3>5. \E kind : m = [kind |-> kind, token |-> task[t].token]
      BY <3>2, Zenon DEF Message
    <3>6. m \in Messages
      BY <3>1, <3>3, <3>4, <3>5 DEF Sendable, Messages
    <3> QED BY <3>3, <3>4, <3>6 DEF Sendable, NoToken
  <2>2. issued' = issued /\ crashes' \in 0 .. MaxCrashes /\ logins' = logins
    BY DEF Crash, Inv, HistoryOK, SessionAssumption
  <2> QED BY <2>1, <2>2 DEF Crash, Inv, HistoryOK
<1>3. Fresh'
  <2>1. durable' \in {durable} \cup (IF busy THEN {Effect(Head(queue))} ELSE {})
    BY DEF Crash
  <2>2. durable' \in 0 .. Len(issued) /\ durable' \notin spent
    BY <2>1, EffectOK DEF Inv, StorageOK
  <2> QED BY <2>2 DEF Crash, Fresh
<1>4. SessionAssumption'
  BY DEF SessionAssumption, Tasks
<1>5. (SessionAssumption /\ Fresh /\ ServerOK /\ HistoryOK => Inv)'
  BY FreshOK, PTL
<1> QED BY <1>1, <1>2, <1>3, <1>4, <1>5

-----------------------------------------------------------------------------
LEMMA ContinueInv ==
  ASSUME SessionAssumption, Inv, NEW t \in Tasks, Continue(t)
  PROVE  Inv'
<1>1. CASE ReadFails(t) \/ InitializeReads(t) \/ LoginCleared(t) \/ Answered(t)
  BY <1>1, ReadFailsInv, InitializeReadsInv, LoginClearedInv, AnsweredInv
<1>2. CASE Saved(t) \/ Revoked(t) \/ Dropped(t) \/ FlightCleared(t) \/ LogoutSettles(t)
  BY <1>2, SavedInv, RevokedInv, DroppedInv, FlightClearedInv, LogoutSettlesInv
<1>3. CASE Joined(t) \/ Replied(t) \/ Recovered(t) \/ ReplayReplied(t)
  BY <1>3, JoinedInv, RepliedInv, RecoveredInv, ReplayRepliedInv
<1> QED BY <1>1, <1>2, <1>3 DEF Continue

LEMMA NextInv == ASSUME SessionAssumption, Inv, Next PROVE Inv'
<1>1. CASE \E t \in Tasks : Continue(t) \/ Handle(t) \/ Lose(t)
  BY <1>1, ContinueInv, HandleInv, LoseInv
<1>2. CASE \E c \in Calls : Login(c) \/ Logout(c) \/ \E op \in Ops : Call(c, op)
  BY <1>2, LoginInv, LogoutInv, CallInv
<1>3. CASE StoreBegins \/ StoreEnds
  BY <1>3, StoreBeginsInv, StoreEndsInv
<1>4. CASE \E m \in late : HandleLate(m)
  BY <1>4, HandleLateInv
<1>5. CASE Crash
  BY <1>5, CrashInv
<1> QED BY <1>1, <1>2, <1>3, <1>4, <1>5 DEF Next

LEMMA StutterInv == ASSUME Inv, UNCHANGED vars PROVE Inv'
BY DEF vars, server, memory, history, bounds, Inv, ServerOK, TasksOK, TaskOK, RecOK,
   EpochOK, SameAccount, UserOf, MemoryOK, Flying, StorageOK, EntryOK, BootOK, HistoryOK,
   Signing, Holds, HasToken

LEMMA Invariance == Spec => []Inv
<1>1. Init => Inv
  BY SessionAssumption, InitInv
<1>2. Inv /\ [Next]_vars => Inv'
  BY SessionAssumption, NextInv, StutterInv
<1> QED BY <1>1, <1>2, PTL DEF Spec

(* Every variable keeps its shape, and no credential was invented.         *)
THEOREM SessionTypeCorrect == Spec => []TypeOK
<1>1. Inv => TypeOK
  <2> SUFFICES ASSUME Inv PROVE TypeOK
    OBVIOUS
  <2>1. task \in [Tasks -> TaskRecords]
    BY SessionAssumption, TaskFacts DEF Inv, TasksOK
  <2>2. \A m \in late : m \in Messages
    BY DEF Inv, HistoryOK
  <2> QED BY <2>1, <2>2 DEF Inv, TypeOK, ServerOK, MemoryOK, StorageOK, HistoryOK, Issues,
          Entries, Messages
<1> QED BY <1>1, Invariance, PTL

(* What the screens show belongs to the account whose credentials the      *)
(* controller holds, whatever the tasks of an account that has left receive. *)
THEOREM OneAccountIsShown == Spec => []ShowsItsAccount
<1>1. Inv => ShowsItsAccount
  BY DEF Inv, MemoryOK, ShowsItsAccount, NoToken
<1> QED BY <1>1, Invariance, PTL

-----------------------------------------------------------------------------
(* What one step may do: which refresh leaves, and what the screens see.    *)
Sends ==
  \A f \in Flights : task[f].pc = "clearing" /\ task'[f].pc = "asking"
                     => task'[f].token \notin spent
AccountStep == [Account!Next]_(Account!vars)

LEMMA NothingSent ==
  ASSUME SessionAssumption, Inv,
         \A s \in Tasks : task'[s].pc = task[s].pc \/ task'[s].pc # "asking"
  PROVE  Sends
BY CallFacts DEF Sends

LEMMA Shows ==
  ASSUME \/ snapshot' = snapshot \/ snapshot' = Loading
         \/ \E why : snapshot' = SignedOut(why)
  PROVE  AccountStep
BY DEF AccountStep, Account!Next, Account!vars, Account!SignIn, Account!Discard,
   Loading, SignedOut

LEMMA GotoSends ==
  ASSUME SessionAssumption, Inv, NEW t \in Tasks, NEW pc, pc # "asking",
         Goto(t, pc) \/ \E k : Send(t, pc, k)
  PROVE  Sends
<1>1. DOMAIN task = Tasks
  BY DEF Inv, TasksOK
<1>2. \A s \in Tasks : task'[s].pc = task[s].pc \/ task'[s].pc = pc
  <2>1. task[t] \in TaskRecords
    BY TaskFacts
  <2>2. At(t, pc).pc = pc /\ \A k : [At(t, pc) EXCEPT !.token = k].pc = pc
    BY <2>1 DEF At, TaskRecords
  <2> QED BY <1>1, <2>2 DEF Goto, Send
<1> QED BY <1>2, NothingSent

LEMMA FinishSends ==
  ASSUME SessionAssumption, Inv, NEW t \in Tasks, NEW result, Finish(t, result)
  PROVE  Sends
<1>1. ASSUME NEW s \in Tasks
      PROVE  task'[s].pc \in {"idle", task[s].pc}
  <2>1. [task[s] EXCEPT !.ans = result].pc = task[s].pc
    BY TaskFacts DEF TaskRecords
  <2>2. task'[s] \in {Idle, task[s], [task[s] EXCEPT !.ans = result]}
    BY DEF Finish
  <2>3. Idle.pc = "idle"
    BY DEF Idle
  <2> QED BY <2>1, <2>2, <2>3
<1> QED BY <1>1, NothingSent

LEMMA ForgetStep ==
  ASSUME SessionAssumption, Inv, NEW t \in Tasks, NEW why, Forget(t, why)
  PROVE  Sends /\ AccountStep
<1>1. CASE Current(t)
  BY <1>1, GotoSends, Shows DEF Forget
<1>2. CASE ~Current(t)
  BY <1>2, FinishSends, Shows DEF Forget
<1> QED BY <1>1, <1>2

LEMMA FailStep ==
  ASSUME SessionAssumption, Inv, NEW c \in Tasks, Fail(c)
  PROVE  Sends /\ AccountStep
<1>1. CASE Forget(c, Reason(c))
  BY <1>1, ForgetStep
<1>2. CASE Finish(c, "failed") /\ UNCHANGED snapshot
  BY <1>2, FinishSends, Shows
<1> QED BY <1>1, <1>2 DEF Fail

LEMMA RefreshSends ==
  ASSUME SessionAssumption, Inv, NEW t \in Tasks, NEW pc \in {"joined", "recovering"},
         NEW pair, Refresh(t, pc, pair)
  PROVE  Sends
<1>1. CASE Flying
  BY <1>1, GotoSends DEF Refresh
<1>2. CASE ~Flying
  <2> DEFINE x == [Idle EXCEPT !.op = "refresh", !.pc = "clearing", !.epoch = epoch,
                               !.token = pair.refresh]
  <2>1. PICK f \in Flights : task' = [task EXCEPT ![t] = At(t, pc), ![f] = x]
    BY <1>2 DEF Refresh
  <2>2. DOMAIN task = Tasks /\ f \in Tasks
    BY CallFacts DEF Inv, TasksOK
  <2>3. x.pc = "clearing" /\ At(t, pc).pc = pc
    BY TaskFacts DEF Idle, At, TaskRecords
  <2> HIDE DEF x
  <2>4. \A s \in Tasks : task'[s].pc \in {task[s].pc, pc, "clearing"}
    BY <2>1, <2>2, <2>3
  <2> QED BY <2>4, NothingSent
<1> QED BY <1>1, <1>2

(* A user is published while loading, or again.                            *)
LEMMA SucceedStep ==
  ASSUME SessionAssumption, Inv, NEW c \in Calls, Succeed(c), Current(c),
         task[c].pc \in {"sent", "replayed"}
  PROVE  Sends /\ AccountStep
<1> DEFINE u == UserOf(task[c].token)
<1>1. Sends
  BY FinishSends, CallFacts DEF Succeed
<1>2. /\ credentials.access # NoToken /\ credentials.refresh # NoToken
      /\ u = UserOf(credentials.refresh)
  BY TaskFacts, CallFacts DEF TaskOK, EpochOK, Current, SameAccount, Inv, MemoryOK
<1>3. u \in Users
  <2>1. credentials.refresh \in 1 .. Len(issued)
    BY <1>2 DEF Inv, MemoryOK, Credentials, NoToken, ServerOK
  <2> QED BY <1>2, <2>1, IssuedOK DEF Inv
<1>4. CASE UNCHANGED snapshot
  BY <1>1, <1>4, Shows
<1>5. CASE snapshot' = Authenticated(u)
  <2>1. snapshot'.status = "authenticated" /\ snapshot'.user = u
    BY <1>5 DEF Authenticated
  <2>2. CASE snapshot.status = "loading"
    BY <1>1, <1>3, <2>1, <2>2 DEF AccountStep, Account!Next, Account!Establish
  <2>3. CASE snapshot.status = "authenticated"
    BY <1>1, <1>2, <2>1, <2>3 DEF AccountStep, Account!vars, Inv, MemoryOK
  <2>4. snapshot.status # "signedOut"
    BY <1>2 DEF Inv, MemoryOK, NoCredentials
  <2> QED BY <2>2, <2>3, <2>4 DEF Inv, MemoryOK, Snapshots
<1> QED BY <1>4, <1>5 DEF Succeed

LEMMA ReplayStep ==
  ASSUME SessionAssumption, Inv, NEW c \in Tasks, Replay(c)
  PROVE  Sends /\ AccountStep
<1>1. CASE Fail(c)
  BY <1>1, FailStep
<1>2. CASE Send(c, "replayed", credentials.access) /\ UNCHANGED memory
  BY <1>2, GotoSends, Shows DEF memory
<1> QED BY <1>1, <1>2 DEF Replay

LEMMA ContinueStep ==
  ASSUME SessionAssumption, Inv, NEW t \in Tasks, Continue(t)
  PROVE  Sends /\ AccountStep
<1> USE DEF memory
<1>1. CASE ReadFails(t)
  BY <1>1, ForgetStep DEF ReadFails
<1>2. CASE InitializeReads(t)
  BY <1>2, FinishSends, RefreshSends, Shows DEF InitializeReads
<1>3. CASE LoginCleared(t)
  <2>1. CASE Goto(t, "asking") /\ UNCHANGED memory
    <3>1. task[t].pc = "starting" /\ DOMAIN task = Tasks
      BY <1>3 DEF LoginCleared, Stored, Inv, TasksOK
    <3>2. \A s \in Tasks : s = t \/ task'[s] = task[s]
      BY <2>1, <3>1 DEF Goto
    <3>3. Sends
      BY <3>1, <3>2, CallFacts DEF Sends
    <3> QED BY <2>1, <3>3, Shows
  <2>2. CASE Forget(t, None)
    BY <2>2, ForgetStep
  <2> QED BY <1>3, <2>1, <2>2 DEF LoginCleared
<1>4. CASE Answered(t)
  BY <1>4, ForgetStep, GotoSends, Shows DEF Answered, Revoke
<1>5. CASE Saved(t)
  BY <1>5, ForgetStep, FinishSends, GotoSends, Shows DEF Saved, Revoke
<1>6. CASE Revoked(t) \/ Dropped(t) \/ LogoutSettles(t)
  BY <1>6, FinishSends, Shows DEF Revoked, Dropped, LogoutSettles
<1>7. CASE FlightCleared(t)
  <2>1. CASE Goto(t, "asking") /\ Current(t) /\ UNCHANGED memory
    <3>1. /\ task[t].pc = "clearing" /\ DOMAIN task = Tasks
          /\ task[t].token \notin spent
      BY <1>7, <2>1, TaskFacts DEF FlightCleared, Stored, Current, TaskOK, EpochOK, Inv, TasksOK
    <3>2. \A s \in Tasks : s = t \/ task'[s] = task[s]
      BY <2>1, <3>1 DEF Goto
    <3>3. task'[t].token = task[t].token
      <4>1. At(t, "asking").token = task[t].token
        BY AtOK
      <4> QED BY <2>1, <3>1, <4>1 DEF Goto
    <3>4. Sends
      BY <3>1, <3>2, <3>3, CallFacts DEF Sends
    <3> QED BY <2>1, <3>4, Shows
  <2>2. CASE Forget(t, "expired")
    BY <2>2, ForgetStep
  <2> QED BY <1>7, <2>1, <2>2 DEF FlightCleared
<1>8. CASE Joined(t)
  BY <1>8, GotoSends, FailStep, Shows DEF Joined
<1>9. CASE Replied(t)
  <2>1. t \in Calls /\ task[t].pc = "sent"
    BY <1>9, TaskFacts DEF Replied, Arrived, TaskOK, RecOK
  <2>2. CASE Refresh(t, "recovering", credentials) /\ UNCHANGED snapshot
    BY <2>2, RefreshSends, Shows
  <2> QED BY <1>9, <2>1, <2>2, FailStep, SucceedStep, ForgetStep, ReplayStep DEF Replied
<1>10. CASE Recovered(t)
  BY <1>10, ReplayStep, FailStep DEF Recovered
<1>11. CASE ReplayReplied(t)
  <2>1. t \in Calls /\ task[t].pc = "replayed"
    BY <1>11, TaskFacts DEF ReplayReplied, Arrived, TaskOK, RecOK
  <2> QED BY <1>11, <2>1, FailStep, SucceedStep, ForgetStep DEF ReplayReplied
<1> QED BY <1>1, <1>2, <1>3, <1>4, <1>5, <1>6, <1>7, <1>8, <1>9, <1>10, <1>11, Zenon
    DEF Continue

LEMMA NextStep ==
  ASSUME SessionAssumption, Inv, Next PROVE Sends /\ AccountStep
<1> USE DEF memory
<1>0. DOMAIN task = Tasks
  BY DEF Inv, TasksOK
<1>1. ASSUME NEW t \in Tasks, Handle(t) \/ Lose(t)
      PROVE  Sends /\ AccountStep
  <2>1. UNCHANGED snapshot
        /\ (\/ \E a, k : task' = [task EXCEPT ![t].ans = a, ![t].token = k]
            \/ task' = [task EXCEPT ![t].ans = "error"])
    BY <1>1 DEF Handle, Lose
  <2>2. ASSUME NEW x, x.pc = task[t].pc, task' = [task EXCEPT ![t] = x]
        PROVE  Sends /\ AccountStep
    <3>1. \A s \in Tasks : task'[s].pc = task[s].pc
      BY <1>0, <2>2
    <3> QED BY <2>1, <3>1, NothingSent, Shows
  <2>3. CASE task' = [task EXCEPT ![t].ans = "error"]
    <3>1. [task[t] EXCEPT !.ans = "error"].pc = task[t].pc
      BY TaskFacts DEF TaskRecords
    <3>2. task' = [task EXCEPT ![t] = [task[t] EXCEPT !.ans = "error"]]
      BY <2>3
    <3> QED BY <2>2, <3>1, <3>2
  <2>4. CASE \E a, k : task' = [task EXCEPT ![t].ans = a, ![t].token = k]
    <3>1. PICK a, k : task' = [task EXCEPT ![t].ans = a, ![t].token = k]
      BY <2>4
    <3>2. [task[t] EXCEPT !.ans = a, !.token = k].pc = task[t].pc
      BY TaskFacts DEF TaskRecords
    <3>3. task' = [task EXCEPT ![t] = [task[t] EXCEPT !.ans = a, !.token = k]]
      BY <1>0, <3>1
    <3> QED BY <2>2, <3>2, <3>3
  <2> QED BY <2>1, <2>3, <2>4
<1>2. ASSUME NEW c \in Calls, Login(c) \/ Logout(c) \/ \E op \in Ops : Call(c, op)
      PROVE  Sends /\ AccountStep
  <2>1. \A s \in Tasks : s \in Calls \/ task'[s] = task[s]
    BY <1>0, <1>2 DEF Login, Logout, Call
  <2>2. Sends
    BY <2>1, CallFacts DEF Sends
  <2> QED BY <1>2, <2>2, Shows DEF Login, Logout, Call
<1>3. CASE StoreBegins \/ StoreEnds
  <2>1. queue # <<>> /\ UNCHANGED snapshot
    BY <1>3 DEF StoreBegins, StoreEnds, Inv, StorageOK
  <2>2. PICK t \in Tasks : t = Head(queue).by
    BY <2>1, HeadFacts
  <2>3. task' = task \/ \E a : task' = [task EXCEPT ![t].stored = a]
    BY <1>3, <2>2 DEF StoreBegins, StoreEnds
  <2>4. \A a : [task[t] EXCEPT !.stored = a].pc = task[t].pc
    BY TaskFacts DEF TaskRecords
  <2>5. \A s \in Tasks : task'[s].pc = task[s].pc
    BY <1>0, <2>3, <2>4
  <2> QED BY <2>1, <2>5, NothingSent, Shows
<1>4. CASE \E m \in late : HandleLate(m)
  BY <1>4, NothingSent, Shows DEF HandleLate
<1>5. CASE Crash
  <2>1. \A s \in Tasks : task'[s].pc \in {"idle", "reading"}
    BY <1>5 DEF Crash, Started, Idle
  <2> QED BY <1>5, <2>1, NothingSent, Shows DEF Crash
<1> QED BY <1>1, <1>2, <1>3, <1>4, <1>5, ContinueStep DEF Next

(* "Refresh tokens are spent once, never retried after an uncertain        *)
(* result": no refresh token goes to /auth/refresh a second time.          *)
THEOREM TokensAreSpentOnce == Spec => SpendsOnce
<1>1. Inv /\ [Next]_vars
      => [\A f \in Flights : task[f].pc = "clearing" /\ task'[f].pc = "asking"
                             => task'[f].token \notin spent]_vars
  BY SessionAssumption, NextStep DEF Sends
<1> QED BY <1>1, Invariance, PTL DEF Spec, SpendsOnce

(* The safety half of the refinement: whatever the tasks do, the screens    *)
(* see a session of AccountSession.                                        *)
THEOREM SessionIsAnAccount == Spec => Account!Init /\ [][Account!Next]_(Account!vars)
<1>1. Init => Account!Init
  BY DEF Init, Account!Init, Loading
<1>2. Inv /\ [Next]_vars => [Account!Next]_(Account!vars)
  <2>1. UNCHANGED vars => UNCHANGED Account!vars
    BY DEF vars, memory, Account!vars
  <2>2. Inv /\ Next => [Account!Next]_(Account!vars)
    BY SessionAssumption, NextStep DEF AccountStep
  <2> QED BY <2>1, <2>2
<1> QED BY <1>1, <1>2, Invariance, PTL DEF Spec

-----------------------------------------------------------------------------
(* What a step of the controller does to the storage and to the tokens:     *)
(* the same few facts of every continuation and of every call.             *)
Asks(r) == r.op = "refresh" /\ r.pc = "asking" /\ r.ans = "none"
AtBoot == task[Boot].pc = "reading" /\ epoch = 0

(* A refresh flight is taken off, by the answer 401 or by initialize().     *)
Begun(s) ==
  /\ task[s] = Idle /\ task'[s].pc = "clearing" /\ task'[s].stored = "none"
  /\ task'[s].token = credentials'.refresh /\ task'[s].token # NoToken
  /\ \/ credentials'.access = NoToken
     \/ /\ credentials' = credentials
        /\ \E c \in Tasks : task[c].pc = "sent" /\ task[c].ans = "401"
                            /\ task[c].token = credentials.access

Aside(s) ==
  \/ task'[s] = task[s]
  \/ task[s].pc \in {"joined", "recovering"} /\ task'[s].pc = task[s].pc
  \/ Begun(s)

Moved(t) ==
  LET r == task[t]
      x == task'[t]
  IN /\ x.stored = "none" /\ x.pc \notin {"clearing", "reading"}
     /\ Holds(x) => Holds(r) /\ x.token = r.token
     /\ x.pc = "revoking" => Holds(r) /\ x.token = r.token /\ x.ans = "none"
     /\ x.pc = "leaving" => /\ x.ans = "none" /\ x.token = credentials.access
                            /\ credentials.access # NoToken
                            /\ credentials' = NoCredentials
     /\ IF Asks(x)
        THEN /\ r.pc = "clearing" /\ r.epoch = epoch /\ x.token = r.token
             /\ credentials' = credentials /\ spent' = spent \cup {x.token}
        ELSE spent' = spent
     /\ x.pc = "sent" => x.ans = "none"

NewCredentials(t) ==
  \/ credentials' = credentials
  \/ credentials' = NoCredentials /\ epoch' = epoch + 1
  \/ /\ task[t].pc = "saving" /\ task[t].stored = "ok"
     /\ task'[t].pc \in {"idle", "sent"}
     /\ credentials' = [access |-> task[t].token, refresh |-> task[t].token]
  \/ AtBoot /\ credentials' = [access |-> NoToken, refresh |-> durable]

Enqueues ==
  \/ queue' = queue /\ epoch' = epoch
  \/ \E q \in Entries :
       /\ queue' = Append(queue, q) /\ (q.act = "set" => q.asserts)
       /\ task'[q.by].pc = "saving" => q.act = "set"
       /\ \/ q.asserts /\ epoch' = epoch
          \/ ~q.asserts /\ epoch' = epoch + 1

ClientStep(t) ==
  /\ UNCHANGED <<server, busy, durable, late, storeFailed, crashes>>
  /\ Free(t) /\ Moved(t) /\ NewCredentials(t) /\ Enqueues
  /\ \A s \in Tasks \ {t} : Aside(s)
  /\ \/ ended' = ended
     \/ /\ task[t].pc = "leaving" /\ task[t].ans = "ok"
        /\ ended' = ended \cup {RootOf(task[t].token)}
  /\ AtBoot => durable \in {NoToken, credentials'.refresh} \/ epoch' = epoch + 1

(* Until initialize() has read the storage there is no other continuation.  *)
LEMMA NotBooting ==
  ASSUME SessionAssumption, Inv, NEW t \in Tasks, task[t].pc \notin {"idle", "reading"}
  PROVE  ~AtBoot
BY DEF AtBoot, Inv, BootOK, Idle

LEMMA StoredIsFree ==
  ASSUME NEW t, NEW pc, Stored(t, pc) \/ (Arrived(t, pc) /\ pc \notin Waiting)
  PROVE  Free(t) /\ task[t].pc = pc
BY DEF Stored, Arrived, Free

(* The task t stops at pc, and every other task stays.                      *)
LEMMA Gone ==
  ASSUME SessionAssumption, Inv, NEW t \in Tasks,
         NEW pc \in {"asking", "saving", "revoking", "dropping", "joined", "sent",
                    "recovering", "replayed"},
         Goto(t, pc) \/ \E k \in 0 .. MaxTokens : Send(t, pc, k)
  PROVE  /\ task'[t].pc = pc /\ task'[t].stored = "none" /\ task'[t].ans = "none"
         /\ task'[t].op = task[t].op
         /\ Goto(t, pc) => task'[t].token = task[t].token
         /\ \A s \in Tasks \ {t} : task'[s] = task[s]
<1>1. DOMAIN task = Tasks
  BY DEF Inv, TasksOK
<1>2. CASE Goto(t, pc)
  <2>1. task'[t] = At(t, pc) /\ \A s \in Tasks \ {t} : task'[s] = task[s]
    BY <1>1, <1>2 DEF Goto
  <2> QED BY <2>1, AtOK
<1>3. CASE ~Goto(t, pc)
  <2>1. PICK k \in 0 .. MaxTokens : Send(t, pc, k)
    BY <1>3
  <2>2. task'[t] = [At(t, pc) EXCEPT !.token = k] /\ \A s \in Tasks \ {t} : task'[s] = task[s]
    BY <1>1, <2>1 DEF Send
  <2> QED BY <1>3, <2>2, AtOK
<1> QED BY <1>2, <1>3

LEMMA Finished ==
  ASSUME SessionAssumption, Inv, NEW t \in Tasks, NEW result, Finish(t, result)
  PROVE  /\ task'[t] = Idle /\ task'[t].pc = "idle" /\ task'[t].stored = "none"
         /\ \A s \in Tasks \ {t} : Aside(s)
<1>1. task'[t] = Idle
  BY DEF Finish
<1>2. ASSUME NEW s \in Tasks \ {t} PROVE Aside(s)
  <2>1. [task[s] EXCEPT !.ans = result].pc = task[s].pc
    BY TaskFacts DEF TaskRecords
  <2>2. \/ task'[s] = task[s]
        \/ task[s].pc \in {"joined", "recovering"} /\ task'[s] = [task[s] EXCEPT !.ans = result]
    BY DEF Finish
  <2> QED BY <2>1, <2>2 DEF Aside
<1> QED BY <1>1, <1>2 DEF Idle

(* A continuation that moves no token.                                     *)
LEMMA PlainStep ==
  ASSUME SessionAssumption, Inv, NEW t \in Tasks, Free(t),
         UNCHANGED <<server, busy, durable, late, spent, storeFailed, crashes>>,
         ended' = ended, task'[t].stored = "none",
         task'[t].pc \in {"idle", "dropping", "joined", "sent", "recovering", "replayed"},
         task'[t].pc = "sent" => task'[t].ans = "none",
         \A s \in Tasks \ {t} : Aside(s),
         NewCredentials(t), Enqueues,
         AtBoot => durable \in {NoToken, credentials'.refresh} \/ epoch' = epoch + 1
  PROVE  ClientStep(t)
<1>1. Moved(t)
  BY DEF Moved, Holds, Asks
<1> QED BY <1>1 DEF ClientStep

LEMMA ForgetClient ==
  ASSUME SessionAssumption, Inv, NEW t \in Tasks, NEW why, Forget(t, why), Free(t),
         UNCHANGED <<server, busy, durable, late, history, bounds>>,
         ~AtBoot \/ Current(t)
  PROVE  ClientStep(t)
<1>0. UNCHANGED <<spent, storeFailed, crashes>> /\ ended' = ended
  BY DEF history, bounds
<1>1. CASE Current(t)
  <2> DEFINE q == [by |-> t, act |-> "clear", token |-> NoToken, asserts |-> FALSE]
  <2>1. Goto(t, "dropping") /\ epoch' = epoch + 1 /\ credentials' = NoCredentials
        /\ queue' = Append(queue, q)
    BY <1>1 DEF Forget
  <2>2. /\ task'[t].pc = "dropping" /\ task'[t].stored = "none"
        /\ \A s \in Tasks \ {t} : Aside(s)
    BY <2>1, Gone DEF Aside
  <2>3. q \in Entries /\ ~q.asserts /\ q.act = "clear" /\ q.by = t
    BY DEF Entries, NoToken, SessionAssumption
  <2> HIDE DEF q
  <2>4. Enqueues /\ NewCredentials(t)
    BY <2>1, <2>2, <2>3 DEF Enqueues, NewCredentials
  <2> QED BY <1>0, <2>1, <2>2, <2>4, PlainStep
<1>2. CASE ~Current(t)
  <2>1. Finish(t, "failed") /\ UNCHANGED <<epoch, credentials, queue>>
    BY <1>2 DEF Forget
  <2>2. Enqueues /\ NewCredentials(t)
    BY <2>1 DEF Enqueues, NewCredentials
  <2> QED BY <1>0, <1>2, <2>1, <2>2, Finished, PlainStep
<1> QED BY <1>1, <1>2

(* The promise of t settles, and nothing else happens.                      *)
LEMMA FinishClient ==
  ASSUME SessionAssumption, Inv, NEW t \in Tasks, NEW result, Finish(t, result), Free(t),
         UNCHANGED <<server, busy, durable, late, history, bounds>>,
         UNCHANGED <<epoch, credentials, queue>>, ~AtBoot \/ durable = NoToken
  PROVE  ClientStep(t)
<1>0. UNCHANGED <<spent, storeFailed, crashes>> /\ ended' = ended
  BY DEF history, bounds
<1>1. Enqueues /\ NewCredentials(t)
  BY DEF Enqueues, NewCredentials
<1> QED BY <1>0, <1>1, Finished, PlainStep

LEMMA FailClient ==
  ASSUME SessionAssumption, Inv, NEW c \in Tasks, Fail(c), Free(c), ~AtBoot,
         UNCHANGED <<server, busy, durable, late, history, bounds>>
  PROVE  ClientStep(c)
BY ForgetClient, FinishClient DEF Fail

(* t goes to the network or to a flight that there is.                      *)
LEMMA GoneClient ==
  ASSUME SessionAssumption, Inv, NEW t \in Tasks, Free(t),
         NEW pc \in {"joined", "sent", "recovering", "replayed"},
         Goto(t, pc) \/ \E k \in 0 .. MaxTokens : Send(t, pc, k),
         UNCHANGED <<server, busy, durable, late, history, bounds>>,
         UNCHANGED <<epoch, queue>>, NewCredentials(t),
         AtBoot => durable \in {NoToken, credentials'.refresh}
  PROVE  ClientStep(t)
<1>0. UNCHANGED <<spent, storeFailed, crashes>> /\ ended' = ended
  BY DEF history, bounds
<1>1. Enqueues
  BY DEF Enqueues
<1>2. /\ task'[t].pc = pc /\ task'[t].stored = "none" /\ task'[t].ans = "none"
      /\ \A s \in Tasks \ {t} : task'[s] = task[s]
  BY Gone
<1>3. \A s \in Tasks \ {t} : Aside(s)
  BY <1>2 DEF Aside
<1> QED BY <1>0, <1>1, <1>2, <1>3, PlainStep

LEMMA ReplayClient ==
  ASSUME SessionAssumption, Inv, NEW c \in Tasks, Replay(c), Free(c), ~AtBoot,
         UNCHANGED <<server, busy, durable, late, history, bounds>>
  PROVE  ClientStep(c)
<1>1. CASE Fail(c)
  BY <1>1, FailClient
<1>2. CASE Send(c, "replayed", credentials.access) /\ UNCHANGED <<memory, queue>>
  <2>1. credentials.access \in 0 .. MaxTokens
    BY DEF Inv, MemoryOK, Credentials
  <2>2. UNCHANGED <<epoch, queue>> /\ NewCredentials(c)
    BY <1>2 DEF memory, NewCredentials
  <2> QED BY <1>2, <2>1, <2>2, GoneClient
<1> QED BY <1>1, <1>2 DEF Replay

(* refresh() joins a flight or takes one off.                              *)
LEMMA RefreshClient ==
  ASSUME SessionAssumption, Inv, NEW t \in Tasks, Free(t),
         NEW pc \in {"joined", "recovering"}, Refresh(t, pc, credentials'),
         task[t].pc # "idle", epoch' = epoch,
         UNCHANGED <<server, busy, durable, late, history, bounds>>, NewCredentials(t),
         AtBoot => durable \in {NoToken, credentials'.refresh},
         credentials'.refresh # NoToken,
         \/ credentials'.access = NoToken
         \/ /\ credentials' = credentials
            /\ \E c \in Tasks : task[c].pc = "sent" /\ task[c].ans = "401"
                                /\ task[c].token = credentials.access
  PROVE  ClientStep(t)
<1>0. UNCHANGED <<spent, storeFailed, crashes>> /\ ended' = ended
  BY DEF history, bounds
<1>1. CASE Flying
  <2>1. Goto(t, pc) /\ queue' = queue
    BY <1>1 DEF Refresh
  <2> QED BY <2>1, GoneClient
<1>2. CASE ~Flying
  <2> DEFINE x == [Idle EXCEPT !.op = "refresh", !.pc = "clearing", !.epoch = epoch,
                               !.token = credentials'.refresh]
             q(f) == [by |-> f, act |-> "clear", token |-> NoToken, asserts |-> TRUE]
  <2>1. PICK f \in Flights :
          /\ task[f] = Idle /\ task' = [task EXCEPT ![t] = At(t, pc), ![f] = x]
          /\ queue' = Append(queue, q(f))
    BY <1>2 DEF Refresh
  <2>2. DOMAIN task = Tasks /\ f \in Tasks /\ f # t
    BY <2>1, CallFacts DEF Inv, TasksOK, Idle
  <2>3. task'[t] = At(t, pc) /\ task'[f] = x /\ \A s \in Tasks \ {t, f} : task'[s] = task[s]
    BY <2>1, <2>2
  <2>4. x.pc = "clearing" /\ x.stored = "none" /\ x.token = credentials'.refresh
    BY DEF Idle
  <2>5. q(f) \in Entries /\ q(f).asserts /\ q(f).act = "clear" /\ q(f).by = f
    BY <2>2 DEF Entries, NoToken, SessionAssumption
  <2> HIDE DEF x, q
  <2>6. At(t, pc).pc = pc /\ At(t, pc).stored = "none" /\ At(t, pc).ans = "none"
    BY AtOK
  <2>7. Enqueues
    BY <2>1, <2>3, <2>4, <2>5 DEF Enqueues
  <2>8. Begun(f)
    BY <2>1, <2>3, <2>4 DEF Begun
  <2>9. \A s \in Tasks \ {t} : Aside(s)
    BY <2>3, <2>8 DEF Aside
  <2> QED BY <1>0, <2>3, <2>6, <2>7, <2>9, PlainStep
<1> QED BY <1>1, <1>2

LEMMA InitializeClient ==
  ASSUME SessionAssumption, Inv, NEW t \in Tasks, ReadFails(t) \/ InitializeReads(t)
  PROVE  ClientStep(t)
<1>1. task[t].pc = "reading" /\ t = Boot /\ Free(t) /\ task[t].epoch = 0
  BY TaskFacts DEF ReadFails, InitializeReads, TaskOK, RecOK, Free, Waiting
<1>2. ~Current(t) => ~AtBoot
  BY <1>1 DEF Current, AtBoot
<1>3. CASE ReadFails(t)
  BY <1>1, <1>2, <1>3, ForgetClient DEF ReadFails
<1>4. ASSUME InitializeReads(t), Finish(t, "ok") \/ Finish(t, "failed"),
             credentials' = credentials, queue' = queue, ~AtBoot \/ durable = NoToken
      PROVE  ClientStep(t)
  BY <1>1, <1>4, FinishClient DEF InitializeReads
<1>5. ASSUME InitializeReads(t), Current(t), durable # NoToken,
             credentials' = [access |-> NoToken, refresh |-> durable],
             Refresh(t, "joined", [access |-> NoToken, refresh |-> durable])
      PROVE  ClientStep(t)
  <2>1. /\ epoch' = epoch /\ credentials'.refresh = durable /\ credentials'.access = NoToken
        /\ UNCHANGED <<server, busy, durable, late, history, bounds>>
    BY <1>5 DEF InitializeReads
  <2>2. AtBoot
    BY <1>1, <1>5 DEF Current, AtBoot
  <2>3. NewCredentials(t)
    BY <1>5, <2>2 DEF NewCredentials
  <2> QED BY <1>1, <1>5, <2>1, <2>3, RefreshClient
<1> QED BY <1>2, <1>3, <1>4, <1>5 DEF InitializeReads

LEMMA LoginClearedClient ==
  ASSUME SessionAssumption, Inv, NEW t \in Tasks, LoginCleared(t)
  PROVE  ClientStep(t)
<1>1. task[t].pc = "starting" /\ Free(t) /\ ~AtBoot /\ task[t].op = "login"
  BY StoredIsFree, NotBooting, TaskFacts DEF LoginCleared, TaskOK, RecOK
<1>2. CASE Forget(t, None)
  BY <1>1, <1>2, ForgetClient DEF LoginCleared
<1>3. CASE Goto(t, "asking") /\ UNCHANGED <<memory, queue>>
  <2>1. /\ UNCHANGED <<server, busy, durable, late, spent, storeFailed, crashes>>
        /\ ended' = ended /\ credentials' = credentials /\ epoch' = epoch /\ queue' = queue
    BY <1>3 DEF LoginCleared, history, bounds, memory
  <2>2. /\ task'[t].pc = "asking" /\ task'[t].stored = "none" /\ task'[t].ans = "none"
        /\ task'[t].op = "login" /\ \A s \in Tasks \ {t} : task'[s] = task[s]
    BY <1>1, <1>3, Gone
  <2>3. Moved(t)
    BY <2>1, <2>2 DEF Moved, Holds, Asks
  <2>4. NewCredentials(t) /\ Enqueues /\ \A s \in Tasks \ {t} : Aside(s)
    BY <2>1, <2>2 DEF NewCredentials, Enqueues, Aside
  <2> QED BY <1>1, <2>1, <2>3, <2>4 DEF ClientStep
<1> QED BY <1>2, <1>3 DEF LoginCleared

(* A new credential goes on to be saved or revoked.                        *)
LEMMA HeldClient ==
  ASSUME SessionAssumption, Inv, NEW t \in Tasks, Free(t), ~AtBoot, Holds(task[t]),
         NEW pc \in {"saving", "revoking"}, Goto(t, pc), UNCHANGED memory,
         UNCHANGED <<server, busy, durable, late, history, bounds>>,
         \/ queue' = queue
         \/ queue' = Append(queue, [by |-> t, act |-> "set", token |-> task[t].token,
                                    asserts |-> TRUE])
  PROVE  ClientStep(t)
<1>1. /\ UNCHANGED <<spent, storeFailed, crashes>> /\ ended' = ended
      /\ credentials' = credentials /\ epoch' = epoch
  BY DEF history, bounds, memory
<1>2. /\ task'[t].pc = pc /\ task'[t].stored = "none" /\ task'[t].token = task[t].token
      /\ task'[t].ans = "none"
      /\ \A s \in Tasks \ {t} : task'[s] = task[s]
  BY Gone
<1>3. Moved(t)
  BY <1>1, <1>2 DEF Moved, Holds, Asks
<1>4. Enqueues
  <2> DEFINE q == [by |-> t, act |-> "set", token |-> task[t].token, asserts |-> TRUE]
  <2>1. task[t].token \in 0 .. MaxTokens
    BY TaskFacts DEF TaskRecords
  <2>2. q \in Entries /\ q.asserts /\ q.act = "set"
    BY <2>1 DEF Entries
  <2>3. queue' = queue \/ queue' = Append(queue, q)
    OBVIOUS
  <2> HIDE DEF q
  <2> QED BY <1>1, <2>2, <2>3 DEF Enqueues
<1>5. NewCredentials(t) /\ \A s \in Tasks \ {t} : Aside(s)
  BY <1>1, <1>2 DEF NewCredentials, Aside
<1> QED BY <1>1, <1>3, <1>4, <1>5 DEF ClientStep

LEMMA AnsweredClient ==
  ASSUME SessionAssumption, Inv, NEW t \in Tasks, Answered(t)
  PROVE  ClientStep(t)
<1>1. task[t].pc = "asking" /\ Free(t) /\ ~AtBoot
  BY StoredIsFree, NotBooting DEF Answered, Waiting
<1>2. CASE task[t].ans # "ok" /\ Forget(t, Reason(t))
  BY <1>1, <1>2, ForgetClient DEF Answered
<1>3. CASE task[t].ans = "ok"
  BY <1>1, <1>3, HeldClient DEF Answered, Revoke, Holds, memory
<1> QED BY <1>2, <1>3 DEF Answered

LEMMA SavedClient ==
  ASSUME SessionAssumption, Inv, NEW t \in Tasks, Saved(t)
  PROVE  ClientStep(t)
<1>1. task[t].pc = "saving" /\ Free(t) /\ ~AtBoot /\ Holds(task[t])
      /\ task[t].token \in 0 .. MaxTokens
      /\ UNCHANGED <<server, busy, durable, late, history, bounds>>
  BY StoredIsFree, NotBooting, TaskFacts DEF Saved, Holds, TaskRecords
<1>2. CASE Forget(t, Reason(t))
  BY <1>1, <1>2, ForgetClient
<1>3. CASE Goto(t, "revoking") /\ UNCHANGED <<memory, queue>>
  BY <1>1, <1>3, HeldClient
<1>4. ASSUME task[t].stored = "ok", UNCHANGED <<epoch, queue>>,
             credentials' = [access |-> task[t].token, refresh |-> task[t].token],
             Finish(t, "ok") \/ Send(t, "sent", task[t].token)
      PROVE  ClientStep(t)
  <2>1. task'[t].pc \in {"idle", "sent"} /\ task'[t].stored = "none"
        /\ (task'[t].pc = "sent" => task'[t].ans = "none")
        /\ \A s \in Tasks \ {t} : Aside(s)
    BY <1>1, <1>4, Finished, Gone DEF Aside
  <2>2. Enqueues /\ NewCredentials(t)
    BY <1>1, <1>4, <2>1 DEF Enqueues, NewCredentials
  <2>3. UNCHANGED <<spent, storeFailed, crashes>> /\ ended' = ended
    BY <1>1 DEF history, bounds
  <2> QED BY <1>1, <2>1, <2>2, <2>3, PlainStep
<1> QED BY <1>2, <1>3, <1>4 DEF Saved, Revoke

LEMMA SettledClient ==
  ASSUME SessionAssumption, Inv, NEW t \in Tasks, Revoked(t) \/ Dropped(t)
  PROVE  ClientStep(t)
<1>1. task[t].pc \in {"revoking", "dropping"} /\ Free(t) /\ ~AtBoot
  BY StoredIsFree, NotBooting DEF Revoked, Dropped, Waiting
<1> QED BY <1>1, FinishClient DEF Revoked, Dropped

LEMMA LogoutSettlesClient ==
  ASSUME SessionAssumption, Inv, NEW t \in Tasks, LogoutSettles(t)
  PROVE  ClientStep(t)
<1>1. task[t].pc = "leaving" /\ Free(t) /\ ~AtBoot
  BY NotBooting DEF LogoutSettles, Arrived, Free
<1>2. /\ task'[t].pc = "idle" /\ task'[t].stored = "none"
      /\ \A s \in Tasks \ {t} : Aside(s)
  BY Finished DEF LogoutSettles
<1>3. UNCHANGED <<server, busy, durable, late, spent, storeFailed, crashes>>
      /\ epoch' = epoch /\ credentials' = credentials /\ queue' = queue
  BY DEF LogoutSettles, bounds
<1>4. Moved(t)
  BY <1>2, <1>3 DEF Moved, Holds, Asks
<1>5. NewCredentials(t) /\ Enqueues
  BY <1>3 DEF NewCredentials, Enqueues
<1>6. \/ ended' = ended
      \/ task[t].ans = "ok" /\ ended' = ended \cup {RootOf(task[t].token)}
  BY DEF LogoutSettles, LoggedOut
<1> QED BY <1>1, <1>2, <1>3, <1>4, <1>5, <1>6 DEF ClientStep

LEMMA FlightClearedClient ==
  ASSUME SessionAssumption, Inv, NEW t \in Tasks, FlightCleared(t)
  PROVE  ClientStep(t)
<1>1. task[t].pc = "clearing" /\ Free(t) /\ ~AtBoot /\ task[t].op = "refresh"
  BY StoredIsFree, NotBooting, TaskFacts DEF FlightCleared, TaskOK, RecOK
<1>2. CASE Forget(t, "expired") /\ UNCHANGED spent
  BY <1>1, <1>2, ForgetClient DEF FlightCleared, history
<1>3. CASE /\ Current(t) /\ Goto(t, "asking") /\ UNCHANGED <<memory, queue>>
           /\ spent' = spent \cup {task[t].token}
  <2>1. /\ UNCHANGED <<server, busy, durable, late, storeFailed, crashes>>
        /\ ended' = ended /\ credentials' = credentials /\ epoch' = epoch /\ queue' = queue
    BY <1>3 DEF FlightCleared, bounds, memory
  <2>2. /\ task'[t].pc = "asking" /\ task'[t].stored = "none" /\ task'[t].ans = "none"
        /\ task'[t].op = "refresh" /\ task'[t].token = task[t].token
        /\ \A s \in Tasks \ {t} : task'[s] = task[s]
    BY <1>1, <1>3, Gone
  <2>3. Moved(t)
    BY <1>1, <1>3, <2>1, <2>2 DEF Moved, Holds, Asks, Current
  <2>4. NewCredentials(t) /\ Enqueues /\ \A s \in Tasks \ {t} : Aside(s)
    BY <2>1, <2>2 DEF NewCredentials, Enqueues, Aside
  <2> QED BY <1>1, <2>1, <2>3, <2>4 DEF ClientStep
<1> QED BY <1>2, <1>3 DEF FlightCleared

LEMMA RequestClient ==
  ASSUME SessionAssumption, Inv, NEW c \in Tasks,
         Joined(c) \/ Replied(c) \/ Recovered(c) \/ ReplayReplied(c)
  PROVE  ClientStep(c)
<1>1. /\ task[c].pc \in {"joined", "sent", "recovering", "replayed"} /\ Free(c) /\ ~AtBoot
      /\ UNCHANGED <<server, busy, durable, late, history, bounds>>
      /\ credentials.access \in 0 .. MaxTokens
  BY StoredIsFree, NotBooting
     DEF Joined, Replied, Recovered, ReplayReplied, Waiting, Inv, MemoryOK, Credentials
<1>2. CASE Fail(c)
  BY <1>1, <1>2, FailClient
<1>3. CASE Replay(c)
  BY <1>1, <1>3, ReplayClient
<1>4. CASE Forget(c, "suspended") \/ Forget(c, "expired")
  BY <1>1, <1>4, ForgetClient
<1>5. CASE Succeed(c)
  BY <1>1, <1>5, FinishClient DEF Succeed
<1>6. CASE Send(c, "sent", credentials.access) /\ UNCHANGED <<memory, queue>>
  <2>1. UNCHANGED <<epoch, queue>> /\ NewCredentials(c)
    BY <1>6 DEF memory, NewCredentials
  <2> QED BY <1>1, <1>6, <2>1, GoneClient
<1>7. CASE /\ task[c].pc = "sent" /\ task[c].ans = "401" /\ credentials.access = task[c].token
           /\ Refresh(c, "recovering", credentials)
           /\ UNCHANGED <<epoch, credentials, snapshot, cache>>
  <2>1. task[c].token # NoToken
    BY <1>7, TaskFacts DEF TaskOK, RecOK, HasToken
  <2>2. credentials.refresh = credentials.access
    BY <1>7, <2>1 DEF Inv, MemoryOK
  <2>3. NewCredentials(c)
    BY <1>7 DEF NewCredentials
  <2>4. Refresh(c, "recovering", credentials') /\ credentials' = credentials
    BY <1>7
  <2> QED BY <1>1, <1>7, <2>1, <2>2, <2>3, <2>4, RefreshClient
<1> QED BY <1>2, <1>3, <1>4, <1>5, <1>6, <1>7 DEF Joined, Replied, Recovered, ReplayReplied, Arrived

LEMMA ContinueClient ==
  ASSUME SessionAssumption, Inv, NEW t \in Tasks, Continue(t)
  PROVE  ClientStep(t)
BY InitializeClient, LoginClearedClient, AnsweredClient, SavedClient, SettledClient,
   LogoutSettlesClient, FlightClearedClient, RequestClient DEF Continue

(* The calls of the screens.                                               *)
LEMMA CallClient ==
  ASSUME SessionAssumption, Inv, NEW c \in Calls,
         Login(c) \/ Logout(c) \/ \E op \in Ops : Call(c, op)
  PROVE  c \in Tasks /\ ClientStep(c)
<1>0. c \in Tasks /\ DOMAIN task = Tasks
  BY CallFacts DEF Inv, TasksOK
<1>a. /\ task[c] = Idle /\ UNCHANGED <<server, busy, durable, late, history, crashes>>
      /\ \E x : task' = [task EXCEPT ![c] = x]
  BY DEF Login, Logout, Call, bounds
<1>b. \A s \in Tasks \ {c} : task'[s] = task[s]
  BY <1>0, <1>a
<1>1. /\ task[c] = Idle /\ Free(c) /\ \A s \in Tasks \ {c} : Aside(s)
      /\ UNCHANGED <<server, busy, durable, late, spent, storeFailed, crashes>>
      /\ ended' = ended
  BY <1>a, <1>b DEF Idle, Free, Waiting, Aside, history
<1> DEFINE q == [by |-> c, act |-> "clear", token |-> NoToken, asserts |-> FALSE]
<1>2. q \in Entries /\ ~q.asserts /\ q.act = "clear" /\ q.by = c
  BY <1>0 DEF Entries, NoToken, SessionAssumption
<1>3. ASSUME queue' = Append(queue, q), epoch' = epoch + 1, credentials' = NoCredentials,
             task'[c].pc # "saving"
      PROVE  Enqueues /\ NewCredentials(c)
  BY <1>2, <1>3 DEF Enqueues, NewCredentials
<1> HIDE DEF q
<1>4. CASE Login(c)
  <2>1. queue' = Append(queue, q) /\ epoch' = epoch + 1 /\ credentials' = NoCredentials
    BY <1>4 DEF Login, q
  <2>2. task'[c].pc = "starting" /\ task'[c].stored = "none"
    BY <1>0, <1>4 DEF Login, Idle
  <2>3. Moved(c)
    BY <1>1, <2>2 DEF Moved, Holds, Asks
  <2> QED BY <1>0, <1>1, <1>3, <2>1, <2>2, <2>3 DEF ClientStep
<1>5. CASE Logout(c)
  <2>1. queue' = Append(queue, q) /\ epoch' = epoch + 1 /\ credentials' = NoCredentials
    BY <1>5 DEF Logout, q
  <2>2. /\ task'[c].pc = "leaving" /\ task'[c].stored = "none" /\ task'[c].ans = "none"
        /\ task'[c].token = credentials.access
    BY <1>0, <1>5 DEF Logout, Idle
  <2>3. credentials.access # NoToken
    BY <1>5 DEF Logout, Inv, MemoryOK
  <2>4. Moved(c)
    BY <1>1, <2>1, <2>2, <2>3 DEF Moved, Holds, Asks
  <2> QED BY <1>0, <1>1, <1>3, <2>1, <2>2, <2>4 DEF ClientStep
<1>6. ASSUME NEW op \in Ops, Call(c, op) PROVE ClientStep(c)
  <2>1. UNCHANGED <<queue, epoch, credentials>> /\ ~AtBoot
    BY <1>6 DEF Call, memory, Inv, BootOK, AtBoot
  <2>2. task'[c].pc \in {"joined", "sent"} /\ task'[c].stored = "none" /\ task'[c].ans = "none"
    BY <1>0, <1>6 DEF Call, Idle
  <2>3. Enqueues /\ NewCredentials(c)
    BY <2>1 DEF Enqueues, NewCredentials
  <2> QED BY <1>0, <1>1, <2>1, <2>2, <2>3, PlainStep
<1> QED BY <1>0, <1>4, <1>5, <1>6

-----------------------------------------------------------------------------
(* What the disk will hold: every end of a session leaves an operation in   *)
(* the queue that nothing skips, after any write that has already begun.    *)
SavedOnDisk ==
  \A t \in Tasks : task[t].pc = "saving" /\ task[t].stored = "ok" => durable = task[t].token

Unconditional(i) == ~queue[i].asserts

Written(d) ==
  \/ d \in {NoToken, credentials.refresh}
  \/ \E t \in Tasks : /\ task[t].pc = "saving" /\ task[t].stored = "ok" /\ Current(t)
                      /\ task[t].token = d

DiskOK ==
  /\ SavedOnDisk
  /\ \A i \in 1 .. Len(queue) :
       /\ queue[i].act = "set" => queue[i].asserts
       /\ task[queue[i].by].pc = "saving" => queue[i].act = "set"
  /\ busy /\ queue[1].asserts /\ ~Current(queue[1].by)
       => \E i \in 2 .. Len(queue) : Unconditional(i)
  /\ \/ AtBoot
     \/ ~storeFailed => Written(durable)
     \/ \E i \in 1 .. Len(queue) : Unconditional(i)

LEMMA QueueFacts ==
  ASSUME Inv
  PROVE  /\ queue \in Seq(Entries) /\ Len(queue) \in Nat
         /\ busy => 1 \in 1 .. Len(queue)
         /\ \A i \in 1 .. Len(queue) :
              /\ queue[i] \in Entries /\ queue[i].by \in Tasks
              /\ task[queue[i].by].stored = "none" /\ task[queue[i].by].pc \in Waiting
<1>1. queue \in Seq(Entries) /\ Len(queue) \in Nat /\ (busy => queue # <<>>)
      /\ \A i \in 1 .. Len(queue) : EntryOK(queue[i], task)
  BY DEF Inv, StorageOK
<1>2. \A i \in 1 .. Len(queue) : queue[i] \in Entries
  BY <1>1
<1>3. \A q \in Entries : q.by \in Tasks
  BY DEF Entries
<1>4. queue # <<>> => 1 \in 1 .. Len(queue)
  BY <1>1
<1> QED BY <1>1, <1>2, <1>3, <1>4 DEF EntryOK, Waiting

(* A refresh token that is on the disk is published at once.               *)
Publishing(t) ==
  task[t].pc = "saving" /\ task[t].stored = "ok" /\ Current(t)
    => credentials'.refresh = task[t].token

LEMMA ContinuePublishes ==
  ASSUME SessionAssumption, Inv, NEW t \in Tasks, Continue(t)
  PROVE  Publishing(t)
<1> SUFFICES ASSUME task[t].pc = "saving", task[t].stored = "ok", Current(t)
             PROVE  credentials'.refresh = task[t].token
  BY DEF Publishing
<1>1. Saved(t)
  BY DEF Continue, ReadFails, InitializeReads, LoginCleared, Answered, Revoked, Dropped,
     FlightCleared, LogoutSettles, Joined, Replied, Recovered, ReplayReplied, Stored, Arrived
<1> QED BY <1>1 DEF Saved

LEMMA ClientDisk ==
  ASSUME SessionAssumption, Inv, DiskOK, NEW t \in Tasks, ClientStep(t), Publishing(t)
  PROVE  DiskOK'
<1>1. /\ busy' = busy /\ durable' = durable /\ storeFailed' = storeFailed
      /\ epoch \in Nat /\ Free(t) /\ task'[t].stored = "none"
      /\ \A s \in Tasks \ {t} : Aside(s)
  BY DEF ClientStep, Moved, Inv, MemoryOK
<1>2. ASSUME NEW s \in Tasks, task'[s].pc = "saving", task'[s].stored = "ok"
      PROVE  task'[s] = task[s]
  BY <1>1, <1>2 DEF Aside, Begun
<1>3. SavedOnDisk'
  BY <1>1, <1>2 DEF SavedOnDisk, DiskOK
<1> DEFINE Longer ==
      /\ Len(queue) \in Nat /\ Len(queue') \in Nat /\ Len(queue') >= Len(queue)
      /\ \A i \in 1 .. Len(queue) : queue'[i] = queue[i]
      /\ \A i \in 1 .. Len(queue') :
           /\ queue'[i].act = "set" => queue'[i].asserts
           /\ task'[queue'[i].by].pc = "saving" => queue'[i].act = "set"
      /\ \/ epoch' = epoch
         \/ /\ epoch' = epoch + 1 /\ Len(queue') = Len(queue) + 1
            /\ ~queue'[Len(queue')].asserts
           Followed ==
      \/ AtBoot' \/ (~storeFailed' => Written(durable)')
      \/ \E i \in 1 .. Len(queue') : ~queue'[i].asserts
<1>4. Longer
  <2>1. /\ queue \in Seq(Entries) /\ Len(queue) \in Nat
        /\ \A i \in 1 .. Len(queue) :
             /\ queue[i].act = "set" => queue[i].asserts
             /\ task'[queue[i].by].pc = "saving" => queue[i].act = "set"
    <3>1. ASSUME NEW i \in 1 .. Len(queue)
          PROVE  task'[queue[i].by] = task[queue[i].by]
      <4>1. queue[i].by \in Tasks \ {t} /\ task[queue[i].by].pc \in Waiting
        BY <1>1, FreeOK, QueueFacts
      <4> QED BY <1>1, <4>1 DEF Aside, Begun, Waiting, Idle
    <3> QED BY <3>1, QueueFacts DEF DiskOK
  <2>2. CASE queue' = queue /\ epoch' = epoch
    BY <2>1, <2>2
  <2>3. ASSUME NEW q \in Entries, queue' = Append(queue, q), q.act = "set" => q.asserts,
               task'[q.by].pc = "saving" => q.act = "set",
               \/ q.asserts /\ epoch' = epoch
               \/ ~q.asserts /\ epoch' = epoch + 1
        PROVE  Longer
    <3>1. /\ Len(queue') = Len(queue) + 1 /\ queue'[Len(queue) + 1] = q
          /\ \A i \in 1 .. Len(queue) : queue'[i] = queue[i]
      BY <2>1, <2>3
    <3>2. \A i \in 1 .. Len(queue') : i \in 1 .. Len(queue) \/ i = Len(queue) + 1
      BY <2>1, <3>1
    <3> QED BY <2>1, <2>3, <3>1, <3>2
  <2> QED BY <2>2, <2>3 DEF ClientStep, Enqueues
<1>5. ASSUME busy', queue'[1].asserts, epoch' # task'[queue'[1].by].epoch
      PROVE  \E i \in 2 .. Len(queue') : ~queue'[i].asserts
  <2>1. /\ 1 \in 1 .. Len(queue) /\ queue[1].by \in Tasks
        /\ task[queue[1].by].stored = "none" /\ task[queue[1].by].pc \in Waiting
    BY <1>1, <1>5, QueueFacts
  <2>2. queue[1].by # t
    BY <1>1, <2>1, FreeOK
  <2>3. task'[queue[1].by] = task[queue[1].by]
    BY <1>1, <2>1, <2>2 DEF Aside, Begun, Waiting, Idle
  <2>4. queue'[1] = queue[1] /\ Len(queue) >= 1
    BY <1>4, <2>1
  <2>5. CASE epoch' = epoch
    <3>1. PICK i \in 2 .. Len(queue) : ~queue[i].asserts
      BY <1>1, <1>5, <2>3, <2>4, <2>5 DEF DiskOK, Current, Unconditional
    <3>2. i \in 1 .. Len(queue) /\ i \in 2 .. Len(queue')
      BY <1>4, <3>1
    <3> QED BY <1>4, <3>1, <3>2
  <2>6. CASE epoch' # epoch
    <3>1. Len(queue') \in 2 .. Len(queue') /\ ~queue'[Len(queue')].asserts
      BY <1>4, <2>4, <2>6
    <3> QED BY <3>1
  <2> QED BY <2>5, <2>6
<1>6. Followed
  <2>1. CASE epoch' # epoch
    <3>1. Len(queue') \in 1 .. Len(queue') /\ ~queue'[Len(queue')].asserts
      BY <1>4, <2>1
    <3> QED BY <3>1
  <2>2. CASE AtBoot /\ epoch' = epoch
    <3>1. durable \in {NoToken, credentials'.refresh}
      BY <1>1, <2>2 DEF ClientStep
    <3> QED BY <1>1, <3>1 DEF Written
  <2>3. CASE \E i \in 1 .. Len(queue) : Unconditional(i)
    <3>1. \A i \in 1 .. Len(queue) : i \in 1 .. Len(queue')
      BY <1>4
    <3> QED BY <1>4, <2>3, <3>1 DEF Unconditional
  <2>4. CASE ~storeFailed /\ Written(durable) /\ ~AtBoot /\ epoch' = epoch
    <3>1. CASE credentials' = credentials
      <4>1. CASE durable \in {NoToken, credentials.refresh}
        BY <1>1, <3>1, <4>1 DEF Written
      <4>2. ASSUME NEW s \in Tasks, task[s].pc = "saving", task[s].stored = "ok", Current(s),
                   task[s].token = durable
            PROVE  Followed
        <5>1. CASE s # t
          <6>1. task'[s] = task[s]
            BY <1>1, <4>2, <5>1 DEF Aside, Begun, Idle
          <6> QED BY <1>1, <2>4, <4>2, <6>1 DEF Written, Current
        <5>2. CASE s = t
          BY <1>1, <3>1, <4>2, <5>2 DEF Publishing, Written
        <5> QED BY <5>1, <5>2
      <4> QED BY <2>4, <4>1, <4>2 DEF Written
    <3>2. CASE /\ task[t].pc = "saving" /\ task[t].stored = "ok"
               /\ credentials' = [access |-> task[t].token, refresh |-> task[t].token]
      <4>1. durable = task[t].token
        BY <3>2 DEF DiskOK, SavedOnDisk
      <4> QED BY <1>1, <3>2, <4>1 DEF Written
    <3> QED BY <1>1, <2>4, <3>1, <3>2 DEF ClientStep, NewCredentials
  <2>5. CASE storeFailed
    BY <1>1, <2>5
  <2> QED BY <2>1, <2>2, <2>3, <2>4, <2>5 DEF DiskOK
<1> QED BY <1>3, <1>4, <1>5, <1>6 DEF DiskOK, Unconditional, Current

(* Answers of the server, to a task or to nobody.                          *)
LEMMA AnsweredTask ==
  ASSUME SessionAssumption, Inv, NEW t \in Tasks, Handle(t) \/ Lose(t)
  PROVE  /\ \A s \in Tasks \ {t} : task'[s] = task[s]
         /\ task'[t].pc = task[t].pc /\ task'[t].stored = task[t].stored
         /\ task'[t].epoch = task[t].epoch /\ task'[t].op = task[t].op
         /\ \/ task'[t].ans = "error" /\ task'[t].token = task[t].token
            \/ /\ Handle(t)
               /\ \E r \in Outcomes(Message(t)) :
                    Becomes(r) /\ task'[t].ans = r.ans /\ task'[t].token = r.token
<1>0. DOMAIN task = Tasks /\ task[t] \in TaskRecords
  BY TaskFacts DEF Inv, TasksOK
<1>1. CASE task' = [task EXCEPT ![t].ans = "error"]
  <2>1. task'[t] = [task[t] EXCEPT !.ans = "error"] /\ \A s \in Tasks \ {t} : task'[s] = task[s]
    BY <1>0, <1>1
  <2> QED BY <1>0, <2>1 DEF TaskRecords
<1>2. ASSUME Handle(t), NEW r \in Outcomes(Message(t)), Becomes(r),
             task' = [task EXCEPT ![t].ans = r.ans, ![t].token = r.token]
      PROVE  /\ \A s \in Tasks \ {t} : task'[s] = task[s]
             /\ task'[t].pc = task[t].pc /\ task'[t].stored = task[t].stored
             /\ task'[t].epoch = task[t].epoch /\ task'[t].op = task[t].op
             /\ task'[t].ans = r.ans /\ task'[t].token = r.token
  <2> DEFINE a == r.ans
             k == r.token
  <2>1. task' = [task EXCEPT ![t].ans = a, ![t].token = k]
    BY <1>2
  <2> HIDE DEF a, k
  <2>2. task'[t] = [task[t] EXCEPT !.ans = a, !.token = k]
        /\ \A s \in Tasks \ {t} : task'[s] = task[s]
    BY <1>0, <2>1
  <2>3. /\ task'[t].pc = task[t].pc /\ task'[t].stored = task[t].stored
        /\ task'[t].epoch = task[t].epoch /\ task'[t].op = task[t].op
        /\ task'[t].ans = a /\ task'[t].token = k
    BY <1>0, <2>2 DEF TaskRecords
  <2> QED BY <2>2, <2>3 DEF a, k
<1> QED BY <1>1, <1>2 DEF Handle, Lose

LEMMA AnswerDisk ==
  ASSUME SessionAssumption, Inv, DiskOK,
         UNCHANGED <<epoch, credentials, queue, busy, durable, storeFailed>>,
         \A s \in Tasks : /\ task'[s].pc = task[s].pc /\ task'[s].stored = task[s].stored
                          /\ task'[s].epoch = task[s].epoch
                          /\ task[s].pc = "saving" => task'[s].token = task[s].token
  PROVE  DiskOK'
<1>1. SavedOnDisk'
  BY DEF DiskOK, SavedOnDisk
<1>a. \A i \in 1 .. Len(queue) :
        /\ queue[i].act = "set" => queue[i].asserts
        /\ task'[queue[i].by].pc = "saving" => queue[i].act = "set"
  BY QueueFacts DEF DiskOK
<1>2. busy /\ queue[1].asserts /\ epoch # task'[queue[1].by].epoch
        => \E i \in 2 .. Len(queue) : Unconditional(i)
  BY QueueFacts DEF DiskOK, Current
<1>3. AtBoot => AtBoot'
  BY DEF AtBoot, SessionAssumption, Tasks
<1>4. ~storeFailed /\ Written(durable) => Written(durable)'
  BY DEF Written, Current
<1> QED BY <1>1, <1>2, <1>a, <1>3, <1>4 DEF DiskOK, Current, Unconditional

LEMMA ServerDisk ==
  ASSUME SessionAssumption, Inv, DiskOK,
         (\E t \in Tasks : Handle(t) \/ Lose(t)) \/ \E m \in late : HandleLate(m)
  PROVE  DiskOK'
<1>1. ASSUME NEW t \in Tasks, Handle(t) \/ Lose(t) PROVE DiskOK'
  <2>1. UNCHANGED <<epoch, credentials, queue, busy, durable, storeFailed>>
        /\ task[t].pc # "saving"
    BY <1>1 DEF Handle, Lose, Awaiting, memory, history
  <2> QED BY <1>1, <2>1, AnsweredTask, AnswerDisk
<1>2. ASSUME NEW m \in late, HandleLate(m) PROVE DiskOK'
  BY <1>2, AnswerDisk DEF HandleLate, memory, history
<1> QED BY <1>1, <1>2

(* The storage: the task at the head of the queue is told.                  *)
LEMMA Told ==
  ASSUME SessionAssumption, Inv, NEW t \in Tasks, NEW a,
         task' = [task EXCEPT ![t].stored = a]
  PROVE  /\ \A s \in Tasks \ {t} : task'[s] = task[s]
         /\ task'[t].stored = a /\ task'[t].pc = task[t].pc /\ task'[t].op = task[t].op
         /\ task'[t].epoch = task[t].epoch /\ task'[t].token = task[t].token
         /\ task'[t].ans = task[t].ans
<1>0. DOMAIN task = Tasks /\ task[t] \in TaskRecords
  BY TaskFacts DEF Inv, TasksOK
<1>1. task'[t] = [task[t] EXCEPT !.stored = a] /\ \A s \in Tasks \ {t} : task'[s] = task[s]
  BY <1>0
<1> QED BY <1>0, <1>1 DEF TaskRecords

LEMMA TailFacts ==
  ASSUME Inv, queue # <<>>, queue' = Tail(queue)
  PROVE  /\ Len(queue') = Len(queue) - 1 /\ Len(queue) \in Nat \ {0}
         /\ \A i \in 1 .. Len(queue') : queue'[i] = queue[i + 1]
         /\ \A i \in 1 .. Len(queue') : i + 1 \in 2 .. Len(queue)
         /\ \A i \in 2 .. Len(queue) : i - 1 \in 1 .. Len(queue') /\ queue'[i - 1] = queue[i]
<1>1. queue \in Seq(Entries)
  BY DEF Inv, StorageOK
<1>2. /\ Len(queue') = Len(queue) - 1 /\ Len(queue) \in Nat \ {0}
      /\ \A i \in 1 .. Len(queue') : queue'[i] = queue[i + 1]
  BY <1>1
<1>3. \A i \in 1 .. Len(queue') : i + 1 \in 2 .. Len(queue)
  BY <1>2
<1>4. ASSUME NEW i \in 2 .. Len(queue)
      PROVE  i - 1 \in 1 .. Len(queue') /\ queue'[i - 1] = queue[i]
  <2>1. i - 1 \in 1 .. Len(queue') /\ (i - 1) + 1 = i
    BY <1>2
  <2> QED BY <1>2, <2>1
<1> QED BY <1>2, <1>3, <1>4

LEMMA TailDisk ==
  ASSUME Inv, DiskOK, queue # <<>>, queue' = Tail(queue),
         \A s \in Tasks : task'[s].pc = task[s].pc
  PROVE  \A i \in 1 .. Len(queue') :
           /\ queue'[i].act = "set" => queue'[i].asserts
           /\ task'[queue'[i].by].pc = "saving" => queue'[i].act = "set"
<1>1. \A i \in 2 .. Len(queue) : i \in 1 .. Len(queue)
  BY TailFacts
<1>2. ASSUME NEW i \in 2 .. Len(queue)
      PROVE  /\ queue[i].act = "set" => queue[i].asserts
             /\ task'[queue[i].by].pc = "saving" => queue[i].act = "set"
  <2>1. i \in 1 .. Len(queue) /\ queue[i].by \in Tasks
    BY <1>1, QueueFacts
  <2> QED BY <2>1 DEF DiskOK
<1> QED BY <1>2, TailFacts

LEMMA StoreBeginsDisk ==
  ASSUME SessionAssumption, Inv, DiskOK, StoreBegins
  PROVE  DiskOK'
<1>0. /\ queue # <<>> /\ ~busy
      /\ UNCHANGED <<epoch, credentials, durable, storeFailed>>
  BY DEF StoreBegins, memory, history
<1>1. PICK t \in Tasks : t = Head(queue).by
  BY <1>0, HeadFacts
<1>2. Head(queue) = queue[1] /\ task[t].stored = "none"
  BY <1>0, <1>1, HeadFacts DEF EntryOK
<1>3. CASE queue[1].asserts /\ ~Current(t)
  <2>1. queue' = Tail(queue) /\ busy' = busy /\ task' = [task EXCEPT ![t].stored = "failed"]
    BY <1>1, <1>2, <1>3 DEF StoreBegins
  <2>2. /\ \A s \in Tasks \ {t} : task'[s] = task[s]
        /\ task'[t].stored = "failed" /\ task'[t].pc = task[t].pc
    BY <2>1, Told
  <2>3. SavedOnDisk'
    BY <1>0, <2>2 DEF SavedOnDisk, DiskOK
  <2>4. \A i \in 1 .. Len(queue') :
          /\ queue'[i].act = "set" => queue'[i].asserts
          /\ task'[queue'[i].by].pc = "saving" => queue'[i].act = "set"
    BY <1>0, <2>1, <2>2, TailDisk
  <2>5. ~busy'
    BY <1>0, <2>1
  <2>6. AtBoot => AtBoot'
    BY <1>0, <2>2 DEF AtBoot, SessionAssumption, Tasks
  <2>7. Written(durable) => Written(durable)'
    BY <1>0, <1>2, <2>2 DEF Written, Current
  <2>8. (\E i \in 1 .. Len(queue) : Unconditional(i))
          => \E i \in 1 .. Len(queue') : ~queue'[i].asserts
    <3>1. ASSUME NEW i \in 1 .. Len(queue), Unconditional(i)
          PROVE  \E j \in 1 .. Len(queue') : ~queue'[j].asserts
      <4>1. i # 1
        BY <1>3, <3>1 DEF Unconditional
      <4>2. i \in 2 .. Len(queue)
        BY <4>1, <1>0, <2>1, TailFacts
      <4> QED BY <1>0, <2>1, <3>1, <4>2, TailFacts DEF Unconditional
    <3> QED BY <3>1
  <2> QED BY <1>0, <2>3, <2>4, <2>5, <2>6, <2>7, <2>8 DEF DiskOK, Unconditional
<1>4. CASE ~(queue[1].asserts /\ ~Current(t))
  <2>1. queue' = queue /\ busy' /\ task' = task
    BY <1>1, <1>2, <1>4 DEF StoreBegins
  <2> QED BY <1>0, <1>1, <1>2, <1>4, <2>1
      DEF DiskOK, SavedOnDisk, Unconditional, AtBoot, Written, Current
<1> QED BY <1>3, <1>4

LEMMA StoreEndsDisk ==
  ASSUME SessionAssumption, Inv, DiskOK, StoreEnds
  PROVE  DiskOK'
<1>0. /\ busy /\ queue # <<>> /\ Quiet /\ busy' = FALSE /\ queue' = Tail(queue)
      /\ UNCHANGED <<epoch, credentials>>
  BY DEF StoreEnds, memory, Inv, StorageOK
<1>1. PICK t \in Tasks : t = Head(queue).by
  BY <1>0, HeadFacts
<1>2. Head(queue) = queue[1] /\ EntryOK(queue[1], task)
  BY <1>0, HeadFacts
<1>3. PICK a : /\ task' = [task EXCEPT ![t].stored = a]
               /\ \/ a = "ok" /\ durable' = Effect(queue[1]) /\ ~storeFailed'
                  \/ a = "failed" /\ storeFailed'
  BY <1>1, <1>2 DEF StoreEnds
<1>4. /\ \A s \in Tasks \ {t} : task'[s] = task[s]
      /\ task'[t].stored = a /\ task'[t].pc = task[t].pc /\ task'[t].token = task[t].token
      /\ task'[t].epoch = task[t].epoch
  BY <1>3, Told
<1>5. SavedOnDisk'
  <2>1. \A s \in Tasks : ~(task[s].pc = "saving" /\ task[s].stored = "ok")
    BY <1>0 DEF Quiet, Due
  <2>2. task[t].pc = "saving" /\ a = "ok" => durable' = task[t].token
    <3>1. queue[1].act = "set" => durable' = task[t].token \/ a # "ok"
      BY <1>1, <1>2, <1>3 DEF EntryOK, Effect
    <3>2. task[t].pc = "saving" => queue[1].act = "set"
      BY <1>0, <1>1, <1>2, HeadFacts DEF DiskOK
    <3> QED BY <3>1, <3>2
  <2> QED BY <1>3, <1>4, <2>1, <2>2 DEF SavedOnDisk
<1>6. \A i \in 1 .. Len(queue') :
        /\ queue'[i].act = "set" => queue'[i].asserts
        /\ task'[queue'[i].by].pc = "saving" => queue'[i].act = "set"
  BY <1>0, <1>4, TailDisk
<1>7. CASE a = "failed"
  BY <1>0, <1>3, <1>5, <1>6, <1>7 DEF DiskOK
<1>8. CASE queue[1].act # "set" /\ a = "ok"
  <2>1. durable' = NoToken
    BY <1>3, <1>8 DEF Effect
  <2> QED BY <1>0, <1>5, <1>6, <2>1 DEF DiskOK, Written
<1>9. CASE queue[1].act = "set" /\ a = "ok" /\ Current(t)
  <2>1. durable' = task'[t].token /\ task'[t].pc = "saving" /\ task'[t].stored = "ok"
    BY <1>1, <1>2, <1>3, <1>4, <1>9 DEF Effect, EntryOK
  <2>2. Written(durable)'
    BY <1>0, <1>4, <1>9, <2>1 DEF Written, Current
  <2> QED BY <1>0, <1>5, <1>6, <2>2 DEF DiskOK
<1>10. CASE queue[1].act = "set" /\ ~Current(t)
  <2>1. queue[1].asserts /\ ~Current(queue[1].by)
    BY <1>0, <1>1, <1>2, <1>10, HeadFacts DEF DiskOK
  <2>2. PICK i \in 2 .. Len(queue) : ~queue[i].asserts
    BY <1>0, <2>1 DEF DiskOK, Unconditional
  <2>3. i - 1 \in 1 .. Len(queue') /\ ~queue'[i - 1].asserts
    BY <1>0, <2>2, TailFacts
  <2> QED BY <1>0, <1>5, <1>6, <2>3 DEF DiskOK, Unconditional
<1> QED BY <1>3, <1>7, <1>8, <1>9, <1>10

(* A process that starts.                                                  *)
LEMMA StartDisk ==
  ASSUME SessionAssumption, epoch = 0, task = Started, queue = <<>>, ~busy
  PROVE  DiskOK
<1>1. task[Boot].pc = "reading" /\ \A t \in Tasks : task[t].stored = "none"
  BY DEF Started, Idle, SessionAssumption, Tasks
<1> QED BY <1>1 DEF DiskOK, SavedOnDisk, AtBoot

LEMMA CrashDisk ==
  ASSUME SessionAssumption, Crash
  PROVE  DiskOK'
<1>1. epoch' = 0 /\ task' = Started /\ queue' = <<>> /\ ~busy'
  BY DEF Crash
<1>2. task'[Boot].pc = "reading" /\ \A t \in Tasks : task'[t].stored = "none"
  BY <1>1 DEF Started, Idle, SessionAssumption, Tasks
<1> QED BY <1>1, <1>2 DEF DiskOK, SavedOnDisk, AtBoot

LEMMA NextDisk ==
  ASSUME SessionAssumption, Inv, DiskOK, Next
  PROVE  DiskOK'
<1>1. ASSUME NEW c \in Calls, Login(c) \/ Logout(c) \/ \E op \in Ops : Call(c, op)
      PROVE  DiskOK'
  <2>1. task[c] = Idle
    BY <1>1 DEF Login, Logout, Call
  <2>2. Publishing(c)
    BY <2>1 DEF Publishing, Idle
  <2> QED BY <1>1, <2>2, CallClient, ClientDisk
<1>2. ASSUME NEW t \in Tasks, Continue(t) PROVE DiskOK'
  BY <1>2, ContinueClient, ContinuePublishes, ClientDisk
<1> QED BY <1>1, <1>2, ServerDisk, StoreBeginsDisk, StoreEndsDisk, CrashDisk DEF Next

(* Once the queue has drained without a refusal, the disk holds the refresh *)
(* token of now, or nothing.                                               *)
THEOREM DiskKeepsUp == Spec => []DiskFollowsSession
<1>1. Init => DiskOK
  BY SessionAssumption, StartDisk DEF Init
<1>2. Inv /\ DiskOK /\ [Next]_vars => DiskOK'
  <2>1. ASSUME DiskOK, UNCHANGED vars PROVE DiskOK'
    BY <2>1 DEF vars, memory, history, DiskOK, SavedOnDisk, Unconditional, AtBoot, Written, Current
  <2> QED BY <2>1, SessionAssumption, NextDisk
<1>3. Inv /\ DiskOK => DiskFollowsSession
  <2> SUFFICES ASSUME Inv, DiskOK, Quiet, queue = <<>>, ~storeFailed, ~AtBoot
               PROVE  durable \in {NoToken, credentials.refresh}
    BY DEF DiskFollowsSession, AtBoot
  <2>1. Written(durable)
    BY DEF DiskOK
  <2>2. \A t \in Tasks : ~(task[t].pc = "saving" /\ task[t].stored = "ok")
    BY DEF Quiet, Due
  <2> QED BY <2>1, <2>2 DEF Written
<1> QED BY <1>1, <1>2, <1>3, Invariance, PTL DEF Spec

-----------------------------------------------------------------------------
(* The line of tokens that a sign-in begins: the server keeps at most one   *)
(* of them alive, and whoever presents one knows its place in the line.     *)
Ends(r) == r.pc \in {"leaving", "revoking"}
Alone(k) == \A i \in live : RootOf(i) = RootOf(k) => i = k
Dead(k) == \A i \in live : RootOf(i) # RootOf(k)

LineOK ==
  /\ \A i \in 1 .. Len(issued) : RootOf(i) <= i
  /\ \A i, j \in live : RootOf(i) = RootOf(j) => i = j
  /\ \A i \in live : RootOf(i) \notin ended
  /\ \A e \in ended : e <= Len(issued)

(* k is on its way to /auth/refresh.  Whoever has signed out with it, or    *)
(* could, has seen it lapse: the server will not take it for a sign-out.    *)
GoingOK(k) ==
  /\ k \in spent
  /\ k = credentials.access => k \in lapsed
  /\ \A s \in Tasks : Ends(task[s]) /\ task[s].token = k => k \in lapsed

PartedOK ==
  /\ \A m \in late : m.kind = "refresh" => GoingOK(m.token)
  /\ \A t \in Tasks : Asks(task[t]) => GoingOK(task[t].token)
  /\ \A t \in Tasks : task[t].pc = "clearing" /\ Current(t)
                      /\ task[t].token = credentials.access => task[t].token \in lapsed
  /\ \A t, s \in Tasks : Asks(task[t]) /\ Asks(task[s]) /\ task[t].token = task[s].token
                         => t = s
  /\ \A s \in Tasks : Ends(task[s]) => task[s].token # credentials.refresh
  /\ \A t, s \in Tasks : Holds(task[t]) /\ Ends(task[s]) => task[t].token # task[s].token
  /\ \A t \in Tasks : task[t].pc = "sent" /\ task[t].ans = "401" => task[t].token \in lapsed

LoneOK ==
  /\ \A t \in Tasks : Holds(task[t]) => Alone(task[t].token)
  /\ credentials.access \notin lapsed \cup {NoToken} => Alone(credentials.access)
  /\ \A t \in Tasks : task[t].pc = "leaving" =>
       /\ task[t].ans = "none" /\ task[t].token \notin lapsed => Alone(task[t].token)
       /\ task[t].ans = "ok" => Dead(task[t].token)

(* Before the first restart what may still be spent is alive.               *)
FirstLife ==
  crashes = 0 =>
    /\ late = {}
    /\ \A t \in Tasks : Asks(task[t]) \/ Holds(task[t]) => task[t].token \in live
    /\ credentials.refresh \notin spent \cup {NoToken} => credentials.refresh \in live
    /\ AtBoot => durable \in live \cup {NoToken}

ChainOK == LineOK /\ PartedOK /\ LoneOK /\ FirstLife

(* What the tasks know of their tokens, from the invariant.                 *)
LEMMA TokenFacts ==
  ASSUME SessionAssumption, Inv, NEW t \in Tasks
  PROVE  /\ task[t].token \in Nat /\ task[t].token <= Len(issued) /\ Len(issued) \in Nat
         /\ Ends(task[t]) \/ Asks(task[t]) \/ Holds(task[t]) \/ task[t].pc = "clearing"
              => task[t].token # NoToken /\ task[t].token \in 1 .. Len(issued)
         /\ Holds(task[t]) => task[t].token \notin spent /\ task[t].token # credentials.refresh
         /\ task[t].pc = "clearing" /\ Current(t) =>
              task[t].token = credentials.refresh /\ task[t].token \notin spent
         /\ credentials.access # NoToken => credentials.access = credentials.refresh
         /\ task[t].epoch <= epoch /\ task[t].epoch \in Nat /\ epoch \in Nat
<1>1. /\ task[t] \in TaskRecords /\ task[t].token <= Len(issued) /\ Len(issued) \in Nat
      /\ TaskOK(t, task[t]) /\ RecOK(t, task[t])
  BY TaskFacts DEF TaskOK, RecOK, Inv, ServerOK
<1>2. task[t].token \in Nat /\ task[t].epoch \in Nat
  BY <1>1 DEF TaskRecords, SessionAssumption
<1>3. Ends(task[t]) \/ Asks(task[t]) \/ Holds(task[t]) \/ task[t].pc = "clearing"
        => task[t].token # NoToken
  BY <1>1 DEF RecOK, HasToken, Ends, Asks
<1>4. task[t].token # NoToken => task[t].token \in 1 .. Len(issued)
  BY <1>1, <1>2 DEF NoToken
<1> QED BY <1>1, <1>2, <1>3, <1>4 DEF TaskOK, EpochOK, Current, Inv, MemoryOK

(* What a step of the controller makes of them.                            *)
LEMMA ClientTokens ==
  ASSUME SessionAssumption, Inv, NEW t \in Tasks, ClientStep(t), NEW s \in Tasks
  PROVE  /\ Holds(task'[s]) => Holds(task[s]) /\ task'[s].token = task[s].token
         /\ Ends(task'[s]) =>
              \/ task'[s] = task[s]
              \/ s = t /\ task'[s].pc = "revoking" /\ Holds(task[t])
                 /\ task'[s].token = task[t].token
              \/ s = t /\ task'[s].pc = "leaving" /\ task'[s].token = credentials.access
                 /\ task'[s].ans = "none"
                 /\ credentials.access # NoToken /\ credentials' = NoCredentials
         /\ Asks(task'[s]) =>
              \/ task'[s] = task[s]
              \/ /\ s = t /\ task[t].pc = "clearing" /\ Current(t)
                 /\ task'[s].token = task[t].token /\ credentials' = credentials
                 /\ spent' = spent \cup {task[t].token}
         /\ task'[s].pc = "clearing" => task'[s] = task[s] \/ Begun(s)
         /\ task'[s].pc = "sent" => task'[s] = task[s] \/ task'[s].ans = "none"
         /\ task'[s].pc = "leaving" => task'[s] = task[s] \/ task'[s].ans = "none"
         /\ task'[s].pc = "reading" => task[s].pc = "reading"
<1>1. CASE s = t
  BY <1>1 DEF ClientStep, Moved, Holds, Ends, Asks, Current
<1>2. CASE s # t
  <2>1. Aside(s)
    BY <1>2 DEF ClientStep
  <2> QED BY <2>1 DEF Aside, Begun, Holds, Ends, Asks
<1> QED BY <1>1, <1>2

LEMMA ClientMemory ==
  ASSUME SessionAssumption, Inv, NEW t \in Tasks, ClientStep(t)
  PROVE  /\ UNCHANGED <<issued, live, lapsed, late, crashes, durable>>
         /\ spent \subseteq spent' /\ epoch \in Nat /\ epoch' \in {epoch, epoch + 1}
         /\ \/ credentials' = credentials
            \/ credentials'.access = NoToken /\ credentials'.refresh = NoToken
               /\ epoch' = epoch + 1
            \/ /\ Holds(task[t]) /\ ~Ends(task'[t])
               /\ credentials'.access = task[t].token /\ credentials'.refresh = task[t].token
            \/ AtBoot /\ credentials'.access = NoToken /\ credentials'.refresh = durable
<1>1. UNCHANGED <<issued, live, lapsed, late, crashes, durable>> /\ epoch \in Nat
  BY DEF ClientStep, server, Inv, MemoryOK
<1>2. spent \subseteq spent'
  BY DEF ClientStep, Moved
<1>3. epoch' \in {epoch, epoch + 1}
  BY DEF ClientStep, Enqueues
<1> QED BY <1>1, <1>2, <1>3 DEF ClientStep, NewCredentials, NoCredentials, Holds, Ends

LEMMA GoingStays ==
  ASSUME SessionAssumption, Inv, ChainOK, NEW t \in Tasks, ClientStep(t),
         NEW k, GoingOK(k), k # NoToken
  PROVE  GoingOK(k)'
<1>1. k \in spent' /\ lapsed' = lapsed /\ k \in spent
  BY ClientMemory DEF GoingOK
<1>2. k = credentials'.access => k \in lapsed
  <2>1. CASE Holds(task[t])
    BY <1>1, <2>1, ClientMemory, TokenFacts DEF GoingOK
  <2>2. CASE ~Holds(task[t])
    BY <2>2, ClientMemory DEF GoingOK
  <2> QED BY <2>1, <2>2
<1>3. ASSUME NEW s \in Tasks, Ends(task'[s]), task'[s].token = k PROVE k \in lapsed
  BY <1>1, <1>3, ClientTokens, TokenFacts DEF GoingOK
<1> QED BY <1>1, <1>2, <1>3 DEF GoingOK

LEMMA ClientParted ==
  ASSUME SessionAssumption, Inv, ChainOK, NEW t \in Tasks, ClientStep(t)
  PROVE  PartedOK'
<1>0. UNCHANGED <<issued, live, lapsed, late>> /\ NoToken = 0
  BY ClientMemory DEF NoToken
<1>1. ASSUME NEW m \in late, m.kind = "refresh" PROVE GoingOK(m.token)'
  <2>1. m.token # NoToken
    BY <1>1 DEF Inv, HistoryOK
  <2>2. PICK k : k = m.token
    OBVIOUS
  <2>3. GoingOK(k)
    BY <1>1, <2>2 DEF ChainOK, PartedOK
  <2>4. GoingOK(k)'
    BY <2>1, <2>2, <2>3, GoingStays
  <2> QED BY <2>2, <2>4 DEF GoingOK
<1>2. ASSUME NEW s \in Tasks, Asks(task'[s])
      PROVE  GoingOK(task[s].token)'
  <2>1. PICK k : k = task'[s].token
    OBVIOUS
  <2>2. CASE task'[s] = task[s]
    <3>1. GoingOK(k) /\ k # NoToken
      BY <1>2, <2>1, <2>2, TokenFacts DEF ChainOK, PartedOK
    <3>2. GoingOK(k)'
      BY <3>1, GoingStays
    <3> QED BY <2>1, <3>2 DEF GoingOK
  <2>3. CASE task'[s] # task[s]
    <3>1. /\ s = t /\ task[t].pc = "clearing" /\ Current(t)
          /\ k = task[t].token /\ credentials' = credentials
          /\ spent' = spent \cup {task[t].token}
      BY <1>2, <2>1, <2>3, ClientTokens
    <3>2. k = credentials.refresh /\ k \in spent' /\ k # NoToken
      BY <3>1, TokenFacts
    <3>3. k = credentials.access => k \in lapsed
      BY <3>1 DEF ChainOK, PartedOK
    <3>4. ASSUME NEW u \in Tasks, Ends(task'[u]) PROVE task'[u].token # k
      <4>1. task'[u] = task[u] \/ (u = t /\ Holds(task[t]))
        BY <3>1, <3>2, <3>4, ClientTokens DEF NoCredentials
      <4>2. ~Holds(task[t])
        BY <3>1 DEF Holds
      <4> QED BY <3>2, <3>4, <4>1, <4>2 DEF ChainOK, PartedOK
    <3> QED BY <1>0, <2>1, <3>1, <3>2, <3>3, <3>4 DEF GoingOK
  <2> QED BY <2>2, <2>3
<1>3. ASSUME NEW s \in Tasks, task'[s].pc = "clearing", epoch' = task'[s].epoch,
             task'[s].token = credentials'.access
      PROVE  task'[s].token \in lapsed
  <2>1. CASE task'[s] = task[s]
    <3>1. epoch' = epoch /\ Current(s)
      BY <1>3, <2>1, ClientMemory, TokenFacts DEF Current
    <3>2. task[s].token = credentials.refresh /\ task[s].token # NoToken
      BY <1>3, <2>1, <3>1, TokenFacts
    <3>3. credentials' = credentials
      BY <1>3, <2>1, <3>2, ClientMemory, TokenFacts
    <3> QED BY <1>3, <2>1, <3>1, <3>3 DEF ChainOK, PartedOK
  <2>2. CASE Begun(s)
    BY <1>3, <2>2 DEF Begun, ChainOK, PartedOK
  <2> QED BY <1>3, <2>1, <2>2, ClientTokens
<1>4. ASSUME NEW s \in Tasks, NEW u \in Tasks, Asks(task'[s]), Asks(task'[u]),
             task'[s].token = task'[u].token
      PROVE  s = u
  <2>1. \A v \in Tasks : Asks(task[v]) => task[v].token \in spent
    BY DEF ChainOK, PartedOK, GoingOK
  <2>2. CASE task'[s] = task[s] /\ task'[u] = task[u]
    BY <1>4, <2>2 DEF ChainOK, PartedOK
  <2>3. CASE ~(task'[s] = task[s] /\ task'[u] = task[u])
    BY <1>4, <2>1, <2>3, ClientTokens, TokenFacts
  <2> QED BY <2>2, <2>3
<1>5. ASSUME NEW s \in Tasks, Ends(task'[s]) PROVE task'[s].token # credentials'.refresh
  <2>1. CASE task'[s] = task[s]
    <3>1. task[s].token # NoToken /\ task[s].token # credentials.refresh /\ Ends(task[s])
      BY <1>5, <2>1, TokenFacts DEF ChainOK, PartedOK
    <3>2. Holds(task[t]) => task[t].token # task[s].token
      BY <3>1 DEF ChainOK, PartedOK
    <3>3. ~AtBoot
      BY <3>1 DEF AtBoot, Inv, BootOK, Ends, Idle
    <3> QED BY <2>1, <3>1, <3>2, <3>3, ClientMemory
  <2>2. CASE s = t /\ Holds(task[t]) /\ task'[s].token = task[t].token
    <3>1. ~AtBoot
      BY <2>2 DEF AtBoot, Inv, BootOK, Holds, Idle
    <3> QED BY <1>5, <2>2, <3>1, ClientMemory, TokenFacts
  <2>3. CASE /\ task'[s].token = credentials.access
             /\ credentials.access # NoToken /\ credentials' = NoCredentials
    BY <2>3 DEF NoCredentials
  <2> QED BY <1>5, <2>1, <2>2, <2>3, ClientTokens
<1>6. ASSUME NEW u \in Tasks, NEW s \in Tasks, Holds(task'[u]), Ends(task'[s])
      PROVE  task'[u].token # task'[s].token
  <2>1. Holds(task[u]) /\ task'[u].token = task[u].token
    BY <1>6, ClientTokens
  <2>2. CASE task'[s] = task[s]
    BY <1>6, <2>1, <2>2 DEF ChainOK, PartedOK
  <2>3. CASE /\ s = t /\ task'[s].pc = "revoking" /\ Holds(task[t])
             /\ task'[s].token = task[t].token
    <3>1. u # t
      BY <1>6, <2>3 DEF Holds
    <3> QED BY <2>1, <2>3, <3>1 DEF Inv, TasksOK
  <2>4. CASE task'[s].token = credentials.access /\ credentials.access # NoToken
    BY <2>1, <2>4, TokenFacts
  <2> QED BY <1>6, <2>2, <2>3, <2>4, ClientTokens
<1>7. ASSUME NEW s \in Tasks, task'[s].pc = "sent", task'[s].ans = "401"
      PROVE  task'[s].token \in lapsed
  BY <1>7, ClientTokens DEF ChainOK, PartedOK
<1> QED BY <1>0, <1>1, <1>2, <1>3, <1>4, <1>5, <1>6, <1>7 DEF PartedOK, Current

LEMMA ClientLine ==
  ASSUME SessionAssumption, Inv, ChainOK, NEW t \in Tasks, ClientStep(t)
  PROVE  LineOK'
<1>1. UNCHANGED <<issued, live>>
  BY ClientMemory
<1>2. CASE ended' = ended
  BY <1>1, <1>2 DEF ChainOK, LineOK, RootOf
<1>3. CASE /\ task[t].pc = "leaving" /\ task[t].ans = "ok"
           /\ ended' = ended \cup {RootOf(task[t].token)}
  <2>1. Dead(task[t].token)
    BY <1>3 DEF ChainOK, LoneOK
  <2>2. task[t].token \in 1 .. Len(issued) /\ Len(issued) \in Nat
    BY <1>3, TokenFacts DEF Ends
  <2>3. RootOf(task[t].token) \in Nat
    BY <2>2, IssuedOK DEF Inv, Tokens, SessionAssumption
  <2>4. RootOf(task[t].token) <= Len(issued)
    BY <2>2, <2>3 DEF ChainOK, LineOK
  <2> QED BY <1>1, <1>3, <2>1, <2>4 DEF ChainOK, LineOK, Dead, RootOf
<1> QED BY <1>2, <1>3 DEF ClientStep

LEMMA ClientLone ==
  ASSUME SessionAssumption, Inv, ChainOK, NEW t \in Tasks, ClientStep(t)
  PROVE  LoneOK'
<1>1. UNCHANGED <<issued, live, lapsed>> /\ NoToken = 0
  BY ClientMemory DEF NoToken
<1>2. ASSUME NEW s \in Tasks, Holds(task'[s]) PROVE Alone(task'[s].token)
  BY <1>2, ClientTokens DEF ChainOK, LoneOK
<1>3. credentials'.access \notin lapsed \cup {NoToken} => Alone(credentials'.access)
  <2>1. CASE Holds(task[t]) /\ credentials'.access = task[t].token
    BY <2>1 DEF ChainOK, LoneOK
  <2> QED BY <2>1, ClientMemory DEF ChainOK, LoneOK
<1>4. ASSUME NEW s \in Tasks, task'[s].pc = "leaving"
      PROVE  /\ task'[s].ans = "none" /\ task'[s].token \notin lapsed => Alone(task'[s].token)
             /\ task'[s].ans = "ok" => Dead(task'[s].token)
  <2>1. CASE task'[s] = task[s]
    BY <1>4, <2>1 DEF ChainOK, LoneOK
  <2>2. CASE /\ task'[s].token = credentials.access /\ task'[s].ans = "none"
             /\ credentials.access # NoToken
    BY <2>2 DEF ChainOK, LoneOK
  <2> QED BY <1>4, <2>1, <2>2, ClientTokens DEF Ends
<1> QED BY <1>1, <1>2, <1>3, <1>4 DEF LoneOK, Alone, Dead, RootOf

LEMMA ClientFirst ==
  ASSUME SessionAssumption, Inv, ChainOK, NEW t \in Tasks, ClientStep(t)
  PROVE  FirstLife'
<1> SUFFICES ASSUME crashes = 0
             PROVE  /\ late' = {}
                    /\ \A s \in Tasks : Asks(task'[s]) \/ Holds(task'[s]) => task'[s].token \in live
                    /\ credentials'.refresh \notin spent' \cup {NoToken}
                         => credentials'.refresh \in live
                    /\ AtBoot' => durable \in live \cup {NoToken}
  BY ClientMemory DEF FirstLife
<1>1. /\ UNCHANGED <<live, late, durable>> /\ spent \subseteq spent'
      /\ epoch \in Nat /\ epoch' \in {epoch, epoch + 1}
  BY ClientMemory
<1>2. FirstLife
  BY DEF ChainOK
<1>3. ASSUME NEW s \in Tasks, Asks(task'[s]) \/ Holds(task'[s])
      PROVE  task'[s].token \in live
  <2>1. CASE Holds(task'[s])
    BY <1>2, <2>1, ClientTokens DEF FirstLife
  <2>2. CASE Asks(task'[s]) /\ task'[s] = task[s]
    BY <1>2, <2>2 DEF FirstLife
  <2>3. CASE task[t].pc = "clearing" /\ Current(t) /\ task'[s].token = task[t].token
    <3>1. task[t].token = credentials.refresh /\ task[t].token \notin spent \cup {NoToken}
      BY <2>3, TokenFacts
    <3> QED BY <1>2, <2>3, <3>1 DEF FirstLife
  <2> QED BY <1>3, <2>1, <2>2, <2>3, ClientTokens
<1>4. credentials'.refresh \notin spent' \cup {NoToken} => credentials'.refresh \in live
  <2>1. CASE Holds(task[t]) /\ credentials'.refresh = task[t].token
    BY <1>2, <2>1 DEF FirstLife
  <2> QED BY <1>1, <1>2, <2>1, ClientMemory DEF FirstLife
<1>5. AtBoot' => durable \in live \cup {NoToken}
  <2>1. Boot \in Tasks
    BY DEF SessionAssumption, Tasks
  <2>2. AtBoot' => AtBoot
    BY <1>1, <2>1, ClientTokens DEF AtBoot
  <2> QED BY <1>2, <2>2 DEF FirstLife
<1> QED BY <1>1, <1>2, <1>3, <1>4, <1>5 DEF FirstLife

LEMMA ClientChain ==
  ASSUME SessionAssumption, Inv, ChainOK, NEW t \in Tasks, ClientStep(t)
  PROVE  ChainOK'
BY ClientLine, ClientParted, ClientLone, ClientFirst DEF ChainOK

(* A step of the storage, or an answer that was lost.                      *)
LEMMA AsideChain ==
  ASSUME SessionAssumption, Inv, ChainOK,
         UNCHANGED <<server, epoch, credentials, late, spent, ended, crashes>>,
         durable' = durable \/ ~AtBoot,
         \A s \in Tasks : /\ task'[s].op = task[s].op /\ task'[s].pc = task[s].pc
                          /\ task'[s].epoch = task[s].epoch
                          /\ task'[s].token = task[s].token
                          /\ task'[s].ans \in {task[s].ans, "error"}
  PROVE  ChainOK'
<1>1. /\ UNCHANGED <<issued, live, lapsed>>
      /\ \A k : (Alone(k)' <=> Alone(k)) /\ (Dead(k)' <=> Dead(k))
  BY DEF server, Alone, Dead, RootOf
<1>2. \A s \in Tasks : /\ Holds(task'[s]) => Holds(task[s])
                       /\ Asks(task'[s]) => Asks(task[s])
                       /\ Ends(task'[s]) <=> Ends(task[s])
  BY DEF Holds, Asks, Ends
<1>3. LineOK'
  BY <1>1 DEF ChainOK, LineOK, RootOf
<1>4. \A k : GoingOK(k) => GoingOK(k)'
  BY <1>1, <1>2 DEF GoingOK
<1>5. PartedOK'
  <2>1. \A m \in late : m.kind = "refresh" => GoingOK(m.token)'
    BY <1>1, <1>2 DEF ChainOK, PartedOK, GoingOK
  <2>2. \A s \in Tasks : Asks(task'[s]) => GoingOK(task[s].token)'
    BY <1>1, <1>2 DEF ChainOK, PartedOK, GoingOK
  <2> QED BY <1>1, <1>2, <2>1, <2>2 DEF ChainOK, PartedOK, Current
<1>6. LoneOK'
  BY <1>1, <1>2 DEF ChainOK, LoneOK, Alone, Dead, RootOf
<1>7. FirstLife'
  <2>1. AtBoot' => AtBoot
    BY DEF AtBoot, SessionAssumption, Tasks
  <2> QED BY <1>1, <1>2, <2>1 DEF ChainOK, FirstLife
<1> QED BY <1>3, <1>5, <1>6, <1>7 DEF ChainOK

LEMMA StorageChain ==
  ASSUME SessionAssumption, Inv, ChainOK, StoreBegins \/ StoreEnds
  PROVE  ChainOK'
<1>1. queue # <<>> /\ UNCHANGED <<server, epoch, credentials, late, spent, ended, crashes>>
  BY DEF StoreBegins, StoreEnds, memory, history, bounds, Inv, StorageOK
<1>2. PICK t \in Tasks : t = Head(queue).by
  BY <1>1, HeadFacts
<1>3. ~AtBoot
  BY <1>1, <1>2, HeadFacts DEF EntryOK, AtBoot, Inv, BootOK, Idle
<1>4. task' = task \/ \E a : task' = [task EXCEPT ![t].stored = a]
  BY <1>2 DEF StoreBegins, StoreEnds
<1>5. CASE task' = task
  BY <1>1, <1>3, <1>5, AsideChain
<1>6. ASSUME NEW a, task' = [task EXCEPT ![t].stored = a] PROVE ChainOK'
  BY <1>1, <1>3, <1>6, Told, AsideChain
<1> QED BY <1>4, <1>5, <1>6

LEMMA LoseChain ==
  ASSUME SessionAssumption, Inv, ChainOK, NEW t \in Tasks, Lose(t)
  PROVE  ChainOK'
<1>1. UNCHANGED <<server, epoch, credentials, late, spent, ended, crashes, durable>>
      /\ DOMAIN task = Tasks /\ task[t] \in TaskRecords
      /\ task' = [task EXCEPT ![t].ans = "error"]
  BY TaskFacts DEF Lose, memory, history, bounds, Inv, TasksOK
<1>2. task'[t] = [task[t] EXCEPT !.ans = "error"] /\ \A s \in Tasks \ {t} : task'[s] = task[s]
  BY <1>1
<1>3. /\ task'[t].op = task[t].op /\ task'[t].pc = task[t].pc /\ task'[t].ans = "error"
      /\ task'[t].epoch = task[t].epoch /\ task'[t].token = task[t].token
  BY <1>1, <1>2 DEF TaskRecords
<1> QED BY <1>1, <1>2, <1>3, AsideChain

-----------------------------------------------------------------------------
(* What the server decides: nothing, a new token, a line that ends, or the  *)
(* alarm.                                                                  *)
Grows(r, rest, root) ==
  /\ Len(r.issued) = Len(issued) + 1 /\ r.issued[Len(issued) + 1].root = root
  /\ r.live = rest \cup {Len(issued) + 1} /\ r.token = Len(issued) + 1 /\ r.ans = "ok"

LEMMA IssueGrows ==
  ASSUME ServerOK, NEW rest, NEW u, NEW root
  PROVE  Grows(Issue(rest, u, root), rest, root) /\ Issue(rest, u, root).lapsed = lapsed
<1> DEFINE r == Issue(rest, u, root)
           x == [user |-> u, root |-> root]
<1>1. /\ r.issued = Append(issued, x) /\ r.live = rest \cup {Len(issued) + 1}
      /\ r.lapsed = lapsed /\ r.ans = "ok" /\ r.token = Len(issued) + 1
  BY DEF Issue, Same
<1>2. x.root = root
  OBVIOUS
<1> HIDE DEF r, x
<1>3. Len(Append(issued, x)) = Len(issued) + 1 /\ Append(issued, x)[Len(issued) + 1] = x
  BY DEF ServerOK
<1> QED BY <1>1, <1>2, <1>3 DEF Grows, r

LEMMA AdmittedVerdict ==
  ASSUME NEW k, NEW done, done.lapsed = lapsed, done.ans = "ok", NEW r \in Admitted(k, done)
  PROVE  /\ lapsed \subseteq r.lapsed /\ (r.ans = "401" => k \in r.lapsed)
         /\ \/ r.issued = issued /\ r.live = live /\ r.ans # "ok"
            \/ r = done /\ k \notin lapsed
<1>1. CASE r = Lapsing(k)
  BY <1>1 DEF Lapsing, Same
<1>2. CASE \E u : r = Suspending(u, k)
  BY <1>2 DEF Suspending, Same
<1>3. CASE r = done /\ k \notin lapsed
  BY <1>3
<1> QED BY <1>1, <1>2, <1>3 DEF Admitted

LEMMA Verdict ==
  ASSUME SessionAssumption, ServerOK, NEW m, Sendable(m), NEW r \in Outcomes(m)
  PROVE  /\ lapsed \subseteq r.lapsed
         /\ m.kind \in {"logout", "api"} /\ r.ans = "401" => m.token \in r.lapsed
         /\ \/ r.issued = issued /\ r.live = live /\ (r.ans = "ok" => m.kind = "api")
            \/ m.kind = "login" /\ Grows(r, live, Len(issued) + 1)
            \/ /\ m.kind = "refresh" /\ m.token \in live
               /\ Grows(r, live \ {m.token}, RootOf(m.token))
            \/ /\ m.kind = "refresh" /\ m.token \notin live
               /\ r.issued = issued /\ r.live \subseteq live /\ r.ans # "ok"
            \/ /\ m.kind = "logout" /\ m.token \notin lapsed
               /\ r.issued = issued /\ r.live = live \ {m.token} /\ r.ans = "ok"
<1>1. CASE m.kind = "login"
  <2>1. r \in Logins
    BY <1>1, Zenon DEF Outcomes
  <2>2. CASE r = Same("error", NoToken) \/ \E u : r = Suspending(u, NoToken)
    BY <1>1, <2>2 DEF Same, Suspending
  <2>3. CASE \E u : r = Issue(live, u, Len(issued) + 1)
    BY <1>1, <2>3, IssueGrows
  <2> QED BY <2>1, <2>2, <2>3 DEF Logins
<1>2. CASE m.kind = "refresh"
  <2>1. r \in Rotations(m.token)
    <3>1. m.kind # "login"
      BY <1>2
    <3> QED BY <1>2, <3>1, Zenon DEF Outcomes
  <2> DEFINE k == m.token
  <2>2. CASE /\ k \notin live
             /\ r = [Same("error", k) EXCEPT !.live = {i \in live : UserOf(i) # UserOf(k)}]
    BY <1>2, <2>2 DEF Same
  <2>3. CASE r = Suspending(UserOf(k), k)
    BY <1>2, <2>3 DEF Same, Suspending
  <2>4. CASE k \in live /\ r = Issue(live \ {k}, UserOf(k), RootOf(k))
    BY <1>2, <2>4, IssueGrows
  <2> QED BY <2>1, <2>2, <2>3, <2>4 DEF Rotations
<1>3. CASE m.kind = "logout"
  <2>1. r \in Revocations(m.token)
    <3>1. m.kind # "login" /\ m.kind # "refresh"
      BY <1>3
    <3> QED BY <1>3, <3>1, Zenon DEF Outcomes
  <2> DEFINE done == [Same("ok", m.token) EXCEPT !.live = live \ {m.token}]
  <2>2. /\ done.lapsed = lapsed /\ done.ans = "ok" /\ done.issued = issued
        /\ done.live = live \ {m.token}
    BY DEF Same
  <2>3. r \in Admitted(m.token, done)
    BY <2>1 DEF Revocations
  <2> HIDE DEF done
  <2> QED BY <1>3, <2>2, <2>3, AdmittedVerdict
<1>4. CASE m.kind = "api"
  <2> DEFINE done == Same("ok", m.token)
  <2>1. r \in Admitted(m.token, done)
    <3>1. m.kind # "login" /\ m.kind # "refresh" /\ m.kind # "logout"
      BY <1>4
    <3> QED BY <1>4, <3>1, Zenon DEF Outcomes
  <2>2. done.lapsed = lapsed /\ done.ans = "ok" /\ done.issued = issued /\ done.live = live
    BY DEF Same
  <2> HIDE DEF done
  <2> QED BY <1>4, <2>1, <2>2, AdmittedVerdict
<1> QED BY <1>1, <1>2, <1>3, <1>4 DEF Sendable

(* The server takes the message m, of a task or of a process that died, and *)
(* decides r.                                                              *)
Hears(s, m, r) ==
  Awaiting(s) /\ m = Message(s) /\ task'[s].ans = r.ans /\ task'[s].token = r.token

ServerStep(m, r) ==
  /\ Sendable(m) /\ r \in Outcomes(m) /\ Becomes(r)
  /\ m.kind = "refresh" => GoingOK(m.token)
  /\ UNCHANGED <<epoch, credentials, spent, ended, crashes, durable>> /\ late' \subseteq late
  /\ \A s \in Tasks :
       /\ task'[s].pc = task[s].pc /\ task'[s].op = task[s].op
       /\ task'[s].epoch = task[s].epoch
       /\ \/ task'[s].token = task[s].token /\ task'[s].ans \in {task[s].ans, "error"}
          \/ Hears(s, m, r)

LEMMA HandleStep ==
  ASSUME SessionAssumption, Inv, ChainOK, NEW t \in Tasks, Handle(t)
  PROVE  Awaiting(t) /\ late' = late /\ \E r \in Outcomes(Message(t)) : ServerStep(Message(t), r)
<1> DEFINE m == Message(t)
<1>1. /\ Awaiting(t) /\ Sendable(m) /\ m.token = task[t].token
      /\ m.kind = "refresh" => task[t].pc = "asking" /\ task[t].op = "refresh"
  BY MessageOK DEF Handle, Awaiting
<1>2. m.kind = "refresh" => GoingOK(task[t].token)
  BY <1>1 DEF Awaiting, Asks, ChainOK, PartedOK
<1>3. UNCHANGED <<epoch, credentials, spent, ended, crashes, durable, late>>
  BY DEF Handle, memory, history, bounds
<1> HIDE DEF m
<1>4. PICK r \in Outcomes(m) :
        /\ Becomes(r)
        /\ \/ task' = [task EXCEPT ![t].ans = r.ans, ![t].token = r.token]
           \/ task' = [task EXCEPT ![t].ans = "error"]
  BY DEF Handle, m
<1> DEFINE a == r.ans
           k == r.token
<1>5. DOMAIN task = Tasks /\ task[t] \in TaskRecords
  BY TaskFacts DEF Inv, TasksOK
<1>6. \/ task' = [task EXCEPT ![t].ans = a, ![t].token = k]
      \/ task' = [task EXCEPT ![t].ans = "error"]
  BY <1>4
<1> HIDE DEF a, k
<1>7. /\ \A s \in Tasks \ {t} : task'[s] = task[s]
      /\ \/ task'[t] = [task[t] EXCEPT !.ans = a, !.token = k]
         \/ task'[t] = [task[t] EXCEPT !.ans = "error"]
  BY <1>5, <1>6
<1>8. /\ task'[t].pc = task[t].pc /\ task'[t].op = task[t].op /\ task'[t].epoch = task[t].epoch
      /\ \/ task'[t].token = task[t].token /\ task'[t].ans = "error"
         \/ task'[t].ans = a /\ task'[t].token = k
  BY <1>5, <1>7 DEF TaskRecords
<1>9. ServerStep(m, r)
  BY <1>1, <1>2, <1>3, <1>4, <1>7, <1>8 DEF ServerStep, Hears, a, k, m
<1> QED BY <1>1, <1>3, <1>9 DEF m

LEMMA HandleLateStep ==
  ASSUME SessionAssumption, Inv, ChainOK, NEW m \in late, HandleLate(m)
  PROVE  \E r \in Outcomes(m) : ServerStep(m, r)
<1>1. Sendable(m)
  BY DEF Inv, HistoryOK, Messages, Sendable, NoToken, ServerOK
<1>2. PICK r \in Outcomes(m) : Becomes(r)
  BY DEF HandleLate
<1>3. UNCHANGED <<epoch, credentials, spent, ended, crashes, durable, task>> /\ late' \subseteq late
  BY DEF HandleLate, memory, history, bounds
<1>4. m.kind = "refresh" => GoingOK(m.token)
  BY DEF ChainOK, PartedOK
<1> QED BY <1>1, <1>2, <1>3, <1>4 DEF ServerStep

LEMMA ServerEffect ==
  ASSUME SessionAssumption, Inv, NEW m, NEW r, ServerStep(m, r)
  PROVE  /\ lapsed \subseteq lapsed' /\ Len(issued) \in Nat /\ Len(issued') \in Nat
         /\ r.ans \in Answers
         /\ m.kind \in {"logout", "api"} => r.token = m.token
         /\ m.kind \in {"logout", "api"} /\ r.ans = "401" => m.token \in lapsed'
         /\ \A i \in 1 .. Len(issued) : RootOf(i)' = RootOf(i) /\ RootOf(i) \in Nat
         /\ \/ Len(issued') = Len(issued) /\ live' \subseteq live
            \/ Len(issued') = Len(issued) + 1
         /\ \/ Len(issued') = Len(issued) /\ live' = live /\ (r.ans = "ok" => m.kind = "api")
            \/ m.kind = "login" /\ Grows(r, live, Len(issued) + 1)
            \/ /\ m.kind = "refresh" /\ m.token \in live
               /\ Grows(r, live \ {m.token}, RootOf(m.token))
            \/ /\ m.kind = "refresh" /\ m.token \notin live
               /\ Len(issued') = Len(issued) /\ live' \subseteq live /\ r.ans # "ok"
            \/ /\ m.kind = "logout" /\ m.token \notin lapsed
               /\ Len(issued') = Len(issued) /\ live' = live \ {m.token} /\ r.ans = "ok"
<1>1. /\ Sendable(m) /\ r \in Outcomes(m) /\ ServerOK
      /\ live' = r.live /\ issued' = r.issued /\ lapsed' = r.lapsed /\ Becomes(r)
  BY DEF ServerStep, Becomes, Inv
<1>2. Extends(r) /\ r.ans \in Answers /\ (m.kind \in {"logout", "api"} => r.token = m.token)
  BY <1>1, OutcomeOK
<1>3. /\ Len(issued) \in Nat /\ Len(issued') \in Nat
      /\ \A i \in 1 .. Len(issued) : issued'[i] = issued[i]
  BY <1>1, <1>2, ServerMoves
<1>4. \A i \in 1 .. Len(issued) : RootOf(i)' = RootOf(i) /\ RootOf(i) \in Nat
  BY <1>1, <1>3, IssuedOK DEF RootOf, Tokens, SessionAssumption
<1>5. /\ lapsed \subseteq r.lapsed
      /\ m.kind \in {"logout", "api"} /\ r.ans = "401" => m.token \in r.lapsed
      /\ \/ r.issued = issued /\ r.live = live /\ (r.ans = "ok" => m.kind = "api")
         \/ m.kind = "login" /\ Grows(r, live, Len(issued) + 1)
         \/ /\ m.kind = "refresh" /\ m.token \in live
            /\ Grows(r, live \ {m.token}, RootOf(m.token))
         \/ /\ m.kind = "refresh" /\ m.token \notin live
            /\ r.issued = issued /\ r.live \subseteq live /\ r.ans # "ok"
         \/ /\ m.kind = "logout" /\ m.token \notin lapsed
            /\ r.issued = issued /\ r.live = live \ {m.token} /\ r.ans = "ok"
  BY <1>1, Verdict
<1> QED BY <1>1, <1>2, <1>3, <1>4, <1>5 DEF Grows

LEMMA ServerTasks ==
  ASSUME SessionAssumption, Inv, NEW m, NEW r, ServerStep(m, r), NEW s \in Tasks
  PROVE  /\ task'[s].pc = task[s].pc /\ task'[s].op = task[s].op
         /\ task'[s].epoch = task[s].epoch
         /\ Ends(task'[s]) \/ task'[s].pc = "clearing" \/ Asks(task'[s])
              => task'[s].token = task[s].token
         /\ Asks(task'[s]) => Asks(task[s])
         /\ Holds(task'[s]) =>
              \/ Holds(task[s]) /\ task'[s].token = task[s].token
              \/ /\ m.kind \in {"login", "refresh"} /\ r.ans = "ok"
                 /\ task'[s].token = r.token
         /\ task'[s].pc = "sent" /\ task'[s].ans = "401" =>
              \/ task[s].ans = "401" /\ task'[s].token = task[s].token
              \/ task'[s].token \in lapsed'
         /\ task'[s].pc = "leaving" =>
              /\ task'[s].ans = "none" => task[s].ans = "none"
              /\ task'[s].ans = "ok" =>
                   \/ task[s].ans = "ok"
                   \/ /\ task[s].ans = "none" /\ m.kind = "logout" /\ r.ans = "ok"
                      /\ m.token = task[s].token
<1>1. /\ task'[s].pc = task[s].pc /\ task'[s].op = task[s].op
      /\ task'[s].epoch = task[s].epoch /\ Sendable(m)
      /\ \/ task'[s].token = task[s].token /\ task'[s].ans \in {task[s].ans, "error"}
         \/ Hears(s, m, r)
  BY DEF ServerStep
<1>2. CASE task'[s].token = task[s].token /\ task'[s].ans \in {task[s].ans, "error"}
  BY <1>1, <1>2 DEF Holds, Asks, Ends
<1>3. CASE Hears(s, m, r)
  <2>1. /\ m.token = task[s].token /\ task[s].ans = "none"
        /\ task[s].pc \in {"asking", "sent", "replayed", "revoking", "leaving"}
        /\ task[s].pc = "asking" => m.kind = task[s].op
        /\ task[s].pc \in {"sent", "replayed"} => m.kind = "api"
        /\ task[s].pc \in {"revoking", "leaving"} => m.kind = "logout"
        /\ task'[s].ans = r.ans /\ task'[s].token = r.token
    BY <1>3, MessageOK DEF Hears, Awaiting
  <2>2. task[s].pc = "asking" => m.kind \in {"login", "refresh"}
    BY <2>1, TaskFacts DEF TaskOK, RecOK
  <2>3. r.ans \in Answers /\ r.ans # "none"
    BY ServerEffect DEF Answers
  <2>4. task[s].pc \in {"sent", "replayed", "revoking", "leaving"} => r.token = m.token
    BY <2>1, ServerEffect
  <2>5. task[s].pc = "sent" /\ r.ans = "401" => m.token \in lapsed'
    BY <2>1, ServerEffect
  <2>6. ~Asks(task'[s])
    BY <2>1, <2>3 DEF Asks
  <2>7. Holds(task'[s]) => m.kind \in {"login", "refresh"} /\ r.ans = "ok"
    BY <1>1, <2>1, <2>2 DEF Holds
  <2>8. Ends(task'[s]) \/ task'[s].pc = "clearing" => task'[s].token = task[s].token
    BY <1>1, <2>1, <2>4 DEF Ends
  <2> QED BY <1>1, <2>1, <2>3, <2>4, <2>5, <2>6, <2>7, <2>8
<1> QED BY <1>1, <1>2, <1>3

LEMMA ServerLine ==
  ASSUME SessionAssumption, Inv, ChainOK, NEW m, NEW r, ServerStep(m, r)
  PROVE  LineOK'
<1>a. PICK n : n = Len(issued) + 1
  OBVIOUS
<1>b. /\ Len(issued) \in Nat
      /\ \A i \in 1 .. Len(issued) : RootOf(i)' = RootOf(i) /\ RootOf(i) \in Nat
  BY ServerEffect
<1>1. /\ Len(issued) \in Nat /\ n \in Nat /\ live \subseteq 1 .. Len(issued)
      /\ \A i \in 1 .. Len(issued) : RootOf(i)' = RootOf(i) /\ RootOf(i) \in Nat
      /\ ended' = ended /\ n = Len(issued) + 1
  BY <1>a, <1>b DEF ServerStep, Inv, ServerOK
<1>2. LineOK /\ ended \subseteq Nat
  BY DEF ChainOK, Inv, HistoryOK, Tokens, SessionAssumption
<1>3. CASE Len(issued') = Len(issued) /\ live' \subseteq live
  <2>1. \A i \in live' : i \in live /\ i \in 1 .. Len(issued)
    BY <1>1, <1>3
  <2> QED BY <1>1, <1>2, <1>3, <2>1 DEF LineOK
<1>4. ASSUME NEW rest, NEW root, Grows(r, rest, root), rest \subseteq live, root \in Nat,
             root <= n, root \notin ended, \A i \in rest : RootOf(i) # root
      PROVE  LineOK'
  <2>1. /\ Len(issued') = n /\ RootOf(n)' = root /\ live' = rest \cup {n}
    BY <1>1, <1>4 DEF Grows, RootOf, ServerStep, Becomes
  <2>2. \A i \in rest : i \in live /\ i \in 1 .. Len(issued)
    BY <1>1, <1>4
  <2>3. \A i \in 1 .. n : i \in 1 .. Len(issued) \/ i = n
    BY <1>1
  <2>4. \A i \in 1 .. n : RootOf(i)' <= i
    BY <1>1, <1>2, <1>4, <2>1, <2>3 DEF LineOK
  <2>5. \A i \in live' : i \in rest \/ i = n
    BY <2>1
  <2>6. ASSUME NEW i \in live', NEW j \in live', RootOf(i)' = RootOf(j)' PROVE i = j
    <3>1. CASE i \in rest /\ j \in rest
      BY <1>1, <1>2, <2>2, <2>6, <3>1 DEF LineOK
    <3>2. CASE i = n /\ j \in rest
      BY <1>1, <1>4, <2>1, <2>2, <2>6, <3>2
    <3>3. CASE j = n /\ i \in rest
      BY <1>1, <1>4, <2>1, <2>2, <2>6, <3>3
    <3> QED BY <2>5, <3>1, <3>2, <3>3
  <2>7. \A i \in live' : RootOf(i)' \notin ended'
    BY <1>1, <1>2, <1>4, <2>1, <2>2, <2>5 DEF LineOK
  <2>8. \A e \in ended' : e <= Len(issued')
    BY <1>1, <1>2, <2>1 DEF LineOK
  <2> QED BY <2>1, <2>4, <2>6, <2>7, <2>8 DEF LineOK
<1>5. CASE Grows(r, live, n)
  <2>1. \A i \in live : RootOf(i) # n
    BY <1>1, <1>2 DEF LineOK
  <2>2. n \notin ended
    BY <1>1, <1>2 DEF LineOK
  <2>3. live \subseteq live /\ n <= n
    BY <1>1
  <2> QED BY <1>1, <1>4, <1>5, <2>1, <2>2, <2>3
<1>6. CASE m.token \in live /\ Grows(r, live \ {m.token}, RootOf(m.token))
  <2>1. m.token \in 1 .. Len(issued) /\ RootOf(m.token) \in Nat /\ RootOf(m.token) <= m.token
    BY <1>1, <1>2, <1>6 DEF LineOK
  <2>2. RootOf(m.token) \notin ended /\ \A i \in live \ {m.token} : RootOf(i) # RootOf(m.token)
    BY <1>2, <1>6 DEF LineOK
  <2>3. RootOf(m.token) <= n
    BY <1>1, <2>1
  <2> QED BY <1>4, <1>6, <2>1, <2>2, <2>3
<1> QED BY <1>1, <1>3, <1>5, <1>6, ServerEffect

(* A token that was alone stays so, unless it is the one that is rotated;   *)
(* a line that is dead stays so.                                           *)
LEMMA LoneStays ==
  ASSUME SessionAssumption, Inv, ChainOK, NEW m, NEW r, ServerStep(m, r),
         NEW k \in 1 .. Len(issued)
  PROVE  /\ Alone(k) /\ (k = m.token => m.kind # "refresh") => Alone(k)'
         /\ Dead(k) => Dead(k)'
<1>a. PICK n : n = Len(issued) + 1
  OBVIOUS
<1>b. /\ Len(issued) \in Nat
      /\ \A i \in 1 .. Len(issued) : RootOf(i)' = RootOf(i) /\ RootOf(i) \in Nat
  BY ServerEffect
<1>1. /\ Len(issued) \in Nat /\ n \in Nat /\ live \subseteq 1 .. Len(issued)
      /\ \A i \in 1 .. Len(issued) : RootOf(i)' = RootOf(i) /\ RootOf(i) \in Nat
      /\ n = Len(issued) + 1
  BY <1>a, <1>b DEF Inv, ServerOK
<1>2. LineOK
  BY DEF ChainOK
<1>3. CASE Len(issued') = Len(issued) /\ live' \subseteq live
  BY <1>1, <1>3 DEF Alone, Dead
<1>4. ASSUME NEW rest, NEW root, Grows(r, rest, root), rest \subseteq live, root # RootOf(k)
      PROVE  (Alone(k) => Alone(k)') /\ (Dead(k) => Dead(k)')
  <2>1. RootOf(n)' = root /\ live' = rest \cup {n}
    BY <1>1, <1>4 DEF Grows, RootOf, ServerStep, Becomes
  <2>2. \A i \in live' : i = n \/ (i \in live /\ RootOf(i)' = RootOf(i))
    BY <1>1, <1>4, <2>1
  <2>3. RootOf(k)' = RootOf(k)
    BY <1>1
  <2> QED BY <1>4, <2>1, <2>2, <2>3 DEF Alone, Dead
<1>5. CASE Grows(r, live, n)
  <2>1. RootOf(k) # n
    BY <1>1, <1>2 DEF LineOK
  <2> QED BY <1>4, <1>5, <2>1
<1>6. CASE /\ m.kind = "refresh" /\ m.token \in live
           /\ Grows(r, live \ {m.token}, RootOf(m.token))
  <2>1. Dead(k) => RootOf(m.token) # RootOf(k)
    BY <1>6 DEF Dead
  <2>2. Alone(k) /\ k # m.token => RootOf(m.token) # RootOf(k)
    BY <1>6 DEF Alone
  <2> QED BY <1>4, <1>6, <2>1, <2>2
<1> QED BY <1>1, <1>3, <1>5, <1>6, ServerEffect

LEMMA ServerParted ==
  ASSUME SessionAssumption, Inv, ChainOK, NEW m, NEW r, ServerStep(m, r)
  PROVE  PartedOK'
<1>1. /\ UNCHANGED <<epoch, credentials, spent>> /\ late' \subseteq late
      /\ lapsed \subseteq lapsed' /\ Len(issued) \in Nat
  BY ServerEffect DEF ServerStep
<1>2. PartedOK
  BY DEF ChainOK
<1>3. \A s \in Tasks : Ends(task'[s]) => Ends(task[s]) /\ task'[s].token = task[s].token
  BY ServerTasks DEF Ends
<1>4. ASSUME NEW k, GoingOK(k) PROVE GoingOK(k)'
  BY <1>1, <1>3, <1>4 DEF GoingOK
<1>5. ASSUME NEW i \in late', i.kind = "refresh" PROVE GoingOK(i.token)'
  <2>1. PICK k : k = i.token
    OBVIOUS
  <2>2. GoingOK(k)'
    BY <1>1, <1>2, <1>4, <1>5, <2>1 DEF PartedOK
  <2> QED BY <2>1, <2>2
<1>6. ASSUME NEW s \in Tasks, Asks(task'[s])
      PROVE  Asks(task[s]) /\ task'[s].token = task[s].token /\ GoingOK(task[s].token)'
  <2>1. Asks(task[s]) /\ task'[s].token = task[s].token
    BY <1>6, ServerTasks
  <2>2. PICK k : k = task[s].token
    OBVIOUS
  <2>3. GoingOK(k)
    BY <1>2, <2>1, <2>2 DEF PartedOK
  <2>4. GoingOK(k)'
    BY <1>4, <2>3
  <2>5. k = task'[s].token
    BY <2>1, <2>2
  <2> QED BY <1>1, <1>3, <2>1, <2>2, <2>4, <2>5 DEF GoingOK
<1>7. ASSUME NEW s \in Tasks, task'[s].pc = "clearing", epoch' = task'[s].epoch,
             task'[s].token = credentials'.access
      PROVE  task'[s].token \in lapsed'
  BY <1>1, <1>2, <1>7, ServerTasks DEF PartedOK, Current
<1>8. \A s, u \in Tasks : Asks(task'[s]) /\ Asks(task'[u]) /\ task'[s].token = task'[u].token
                          => s = u
  BY <1>2, <1>6 DEF PartedOK
<1>9. \A s \in Tasks : Ends(task'[s]) => task'[s].token # credentials'.refresh
  BY <1>1, <1>2, <1>3 DEF PartedOK
<1>10. ASSUME NEW s \in Tasks, NEW u \in Tasks, Holds(task'[s]), Ends(task'[u])
       PROVE  task'[s].token # task'[u].token
  <2>1. Ends(task[u]) /\ task'[u].token = task[u].token /\ task[u].token \in 1 .. Len(issued)
    BY <1>3, <1>10, TokenFacts
  <2>2. CASE Holds(task[s]) /\ task'[s].token = task[s].token
    BY <1>2, <2>1, <2>2 DEF PartedOK
  <2>3. CASE task'[s].token = Len(issued) + 1
    BY <1>1, <2>1, <2>3
  <2>4. CASE m.kind \in {"login", "refresh"} /\ r.ans = "ok" /\ task'[s].token = r.token
    <3>1. r.token = Len(issued) + 1
      BY <2>4, ServerEffect DEF Grows
    <3> QED BY <2>3, <2>4, <3>1
  <2> QED BY <1>10, <2>2, <2>4, ServerTasks
<1>11. ASSUME NEW s \in Tasks, task'[s].pc = "sent", task'[s].ans = "401"
       PROVE  task'[s].token \in lapsed'
  BY <1>1, <1>2, <1>11, ServerTasks DEF PartedOK
<1>12. \A s \in Tasks : Asks(task'[s]) => GoingOK(task[s].token)'
  BY <1>6
<1> QED BY <1>5, <1>6, <1>7, <1>8, <1>9, <1>10, <1>11 DEF PartedOK, Current

LEMMA ServerLone ==
  ASSUME SessionAssumption, Inv, ChainOK, NEW m, NEW r, ServerStep(m, r)
  PROVE  LoneOK'
<1>1. /\ UNCHANGED credentials /\ lapsed \subseteq lapsed' /\ Len(issued) \in Nat
      /\ m.kind = "refresh" => GoingOK(m.token)
      /\ live \subseteq 1 .. Len(issued)
  BY ServerEffect DEF ServerStep, Inv, ServerOK
<1>2. LoneOK /\ LineOK
  BY DEF ChainOK
<1>3. ASSUME NEW s \in Tasks, Holds(task'[s]) PROVE Alone(task[s].token)'
  <2>1. PICK k : k = task'[s].token
    OBVIOUS
  <2>2. CASE Holds(task[s]) /\ k = task[s].token
    <3>1. k \in 1 .. Len(issued) /\ k \notin spent /\ Alone(k)
      BY <1>2, <2>2, TokenFacts DEF LoneOK
    <3>2. k = m.token => m.kind # "refresh"
      BY <1>1, <3>1 DEF GoingOK
    <3>3. Alone(k)'
      BY <3>1, <3>2, LoneStays
    <3> QED BY <2>1, <3>3 DEF Alone
  <2>3. CASE m.kind \in {"login", "refresh"} /\ r.ans = "ok" /\ k = r.token
    <3>1. LineOK'
      BY ServerLine
    <3>2. k = Len(issued) + 1 /\ k \in live'
      BY <2>3, ServerEffect DEF Grows, ServerStep, Becomes
    <3>3. Alone(k)'
      BY <3>1, <3>2 DEF LineOK, Alone
    <3> QED BY <2>1, <3>3 DEF Alone
  <2> QED BY <1>3, <2>1, <2>2, <2>3, ServerTasks
<1>4. credentials'.access \notin lapsed' \cup {NoToken} => Alone(credentials.access)'
  <2> SUFFICES ASSUME credentials.access \notin lapsed' \cup {NoToken}
               PROVE  Alone(credentials.access)'
    BY <1>1
  <2>1. PICK k : k = credentials.access
    OBVIOUS
  <2>2. k \in 1 .. Len(issued) /\ k \notin lapsed /\ Alone(k)
    BY <1>1, <1>2, <2>1 DEF LoneOK, Inv, MemoryOK, Credentials, NoToken, SessionAssumption
  <2>3. k = m.token => m.kind # "refresh"
    BY <1>1, <2>1, <2>2 DEF GoingOK
  <2>4. Alone(k)' /\ k = credentials'.access
    BY <1>1, <2>1, <2>2, <2>3, LoneStays
  <2> QED BY <1>1, <2>1, <2>4 DEF Alone
<1>5. ASSUME NEW s \in Tasks, task'[s].pc = "leaving"
      PROVE  /\ task'[s].ans = "none" /\ task'[s].token \notin lapsed' => Alone(task[s].token)'
             /\ task'[s].ans = "ok" => Dead(task[s].token)'
  <2>1. PICK k : k = task'[s].token
    OBVIOUS
  <2>2. task[s].pc = "leaving" /\ k = task[s].token /\ Ends(task[s]) /\ k \in 1 .. Len(issued)
    BY <1>5, <2>1, ServerTasks, TokenFacts DEF Ends
  <2>3. task'[s].ans = "none" /\ k \notin lapsed' => Alone(k)'
    <3> SUFFICES ASSUME task'[s].ans = "none", k \notin lapsed' PROVE Alone(k)'
      OBVIOUS
    <3>1. task[s].ans = "none" /\ k \notin lapsed /\ Alone(k)
      BY <1>1, <1>2, <1>5, <2>2, ServerTasks DEF LoneOK
    <3>2. k = m.token => m.kind # "refresh"
      BY <1>1, <2>2, <3>1 DEF GoingOK
    <3> QED BY <2>2, <3>1, <3>2, LoneStays
  <2>4. task'[s].ans = "ok" => Dead(k)'
    <3> SUFFICES ASSUME task'[s].ans = "ok" PROVE Dead(k)'
      OBVIOUS
    <3>1. CASE task[s].ans = "ok"
      BY <1>2, <2>2, <3>1, LoneStays DEF LoneOK
    <3>2. CASE task[s].ans = "none" /\ m.kind = "logout" /\ r.ans = "ok" /\ m.token = k
      <4>1. k \notin lapsed /\ Len(issued') = Len(issued) /\ live' = live \ {k}
        BY <3>2, ServerEffect
      <4>2. Alone(k)
        BY <1>2, <2>2, <3>2, <4>1 DEF LoneOK
      <4>3. \A i \in 1 .. Len(issued) : RootOf(i)' = RootOf(i)
        BY ServerEffect
      <4> QED BY <1>1, <2>2, <4>1, <4>2, <4>3 DEF Alone, Dead
    <3> QED BY <1>5, <2>2, <3>1, <3>2, ServerTasks
  <2> QED BY <2>1, <2>3, <2>4 DEF Alone, Dead
<1> QED BY <1>3, <1>4, <1>5 DEF LoneOK

(* In the first life of the process the server removes no token that may    *)
(* still be spent: no alarm is raised, and a sign-out is of another token.  *)
LEMMA HandleFirst ==
  ASSUME SessionAssumption, Inv, ChainOK, NEW t \in Tasks, Handle(t), crashes = 0
  PROVE  FirstLife'
<1>1. /\ Awaiting(t) /\ late' = late
      /\ \E r \in Outcomes(Message(t)) : ServerStep(Message(t), r)
  BY HandleStep
<1>2. PICK m : /\ m = Message(t) /\ m.token = task[t].token
               /\ m.kind = "refresh" => Asks(task[t])
               /\ m.kind = "logout" => Ends(task[t])
  <2>1. /\ Message(t).token = task[t].token /\ task[t].ans = "none"
        /\ task[t].pc \in {"asking", "sent", "replayed", "revoking", "leaving"}
        /\ task[t].pc = "asking" => Message(t).kind = task[t].op
        /\ task[t].pc \in {"sent", "replayed"} => Message(t).kind = "api"
    BY <1>1, MessageOK DEF Awaiting
  <2>2. task[t].pc \in {"revoking", "leaving"} => Message(t).kind = "logout"
    BY <1>1, MessageOK
  <2>3. task[t].pc = "asking" => task[t].op \in {"login", "refresh"}
    BY TaskFacts DEF TaskOK, RecOK
  <2> QED BY <2>1, <2>2, <2>3 DEF Asks, Ends
<1>3. PICK r : ServerStep(m, r)
  BY <1>1, <1>2
<1>4. /\ FirstLife /\ PartedOK /\ Len(issued) \in Nat
      /\ UNCHANGED <<epoch, credentials, spent, durable, crashes>>
  BY <1>3, ServerEffect DEF ChainOK, ServerStep
<1>5. ASSUME NEW k \in live, k \notin live'
      PROVE  /\ k = m.token
             /\ Asks(task[t]) \/ (Ends(task[t]) /\ k \notin lapsed)
  <2>1. live' = r.live
    BY <1>3 DEF ServerStep, Becomes
  <2>2. CASE m.kind = "refresh"
    <3>1. Asks(task[t]) /\ m.token \in live
      BY <1>2, <1>4, <2>2 DEF FirstLife
    <3>2. Grows(r, live \ {m.token}, RootOf(m.token)) \/ live' = live
      BY <1>3, <2>2, <3>1, ServerEffect
    <3> QED BY <1>5, <2>1, <3>1, <3>2 DEF Grows
  <2>3. CASE m.kind = "logout"
    <3>1. live' = live \/ (live' = live \ {m.token} /\ m.token \notin lapsed)
      BY <1>3, <2>3, ServerEffect
    <3> QED BY <1>2, <1>5, <2>3, <3>1
  <2>4. CASE m.kind \notin {"refresh", "logout"}
    <3>1. live' = live \/ Grows(r, live, Len(issued) + 1)
      BY <1>3, <2>4, ServerEffect
    <3> QED BY <1>5, <2>1, <3>1 DEF Grows
  <2> QED BY <2>2, <2>3, <2>4
<1>6. ASSUME NEW s \in Tasks, Asks(task'[s])
      PROVE  task'[s].token \in live'
  <2>1. Asks(task[s]) /\ task'[s].token = task[s].token /\ task[s].token \in live
    BY <1>3, <1>4, <1>6, ServerTasks DEF FirstLife
  <2>2. CASE Asks(task[t]) /\ task[s].token = task[t].token
    <3>1. s = t
      BY <1>4, <2>1, <2>2 DEF PartedOK
    <3>2. task'[t].token = task[t].token /\ task'[t].ans = "none"
      BY <1>6, <2>1, <3>1 DEF Asks
    <3>3. task'[t].ans # "none"
      <4>1. task'[t].ans = "error" \/ \E x \in Outcomes(Message(t)) : task'[t].ans = x.ans
        BY AnsweredTask
      <4>2. \A x \in Outcomes(Message(t)) : x.ans \in Answers
        BY <1>1, MessageOK, OutcomeOK DEF Inv
      <4> QED BY <4>1, <4>2 DEF Answers
    <3> QED BY <3>2, <3>3
  <2>3. CASE Ends(task[t]) /\ task[s].token = task[t].token
    BY <1>2, <1>4, <1>5, <2>1, <2>2, <2>3 DEF PartedOK, GoingOK
  <2> QED BY <1>2, <1>5, <2>1, <2>2, <2>3
<1>7. ASSUME NEW s \in Tasks, Holds(task'[s])
      PROVE  task'[s].token \in live'
  <2>1. CASE Holds(task[s]) /\ task'[s].token = task[s].token
    <3>1. task[s].token \in live /\ task[s].token \notin spent
      BY <1>4, <2>1, TokenFacts DEF FirstLife
    <3>2. Asks(task[t]) => task[t].token \in spent
      BY <1>4 DEF PartedOK, GoingOK
    <3>3. Ends(task[t]) => task[t].token # task[s].token
      BY <1>4, <2>1 DEF PartedOK
    <3> QED BY <1>2, <1>5, <2>1, <3>1, <3>2, <3>3
  <2>2. CASE m.kind \in {"login", "refresh"} /\ r.ans = "ok" /\ task'[s].token = r.token
    <3>1. live' = r.live /\ r.token \in r.live
      BY <1>3, <2>2, ServerEffect DEF Grows, ServerStep, Becomes
    <3> QED BY <2>2, <3>1
  <2> QED BY <1>3, <1>7, <2>1, <2>2, ServerTasks
<1>8. credentials.refresh \notin spent \cup {NoToken} => credentials.refresh \in live'
  <2> SUFFICES ASSUME credentials.refresh \notin spent \cup {NoToken}
               PROVE  credentials.refresh \in live'
    OBVIOUS
  <2>1. credentials.refresh \in live
    BY <1>4 DEF FirstLife
  <2>2. Asks(task[t]) => task[t].token \in spent
    BY <1>4 DEF PartedOK, GoingOK
  <2>3. Ends(task[t]) => task[t].token # credentials.refresh
    BY <1>4 DEF PartedOK
  <2> QED BY <1>2, <1>5, <2>1, <2>2, <2>3
<1>9. ~AtBoot'
  <2>1. Boot \in Tasks
    BY DEF SessionAssumption, Tasks
  <2>2. AtBoot' => AtBoot
    BY <1>3, <1>4, <2>1, ServerTasks DEF AtBoot
  <2> QED BY <1>1, <2>2, NotBooting DEF Awaiting
<1>10. late' = {}
  BY <1>1, <1>4 DEF FirstLife
<1> QED BY <1>4, <1>6, <1>7, <1>8, <1>9, <1>10 DEF FirstLife

LEMMA HandleChain ==
  ASSUME SessionAssumption, Inv, ChainOK, NEW t \in Tasks, Handle(t)
  PROVE  ChainOK'
<1>1. \E m, r : ServerStep(m, r)
  BY HandleStep
<1>2. FirstLife'
  <2>1. crashes' = crashes
    BY DEF Handle, bounds
  <2> QED BY <2>1, HandleFirst DEF FirstLife
<1> QED BY <1>1, <1>2, ServerLine, ServerParted, ServerLone DEF ChainOK

LEMMA HandleLateChain ==
  ASSUME SessionAssumption, Inv, ChainOK, NEW m \in late, HandleLate(m)
  PROVE  ChainOK'
<1>1. \E r : ServerStep(m, r)
  BY HandleLateStep
<1>2. FirstLife'
  <2>1. crashes' = crashes /\ crashes # 0
    BY DEF HandleLate, bounds, ChainOK, FirstLife
  <2> QED BY <2>1 DEF FirstLife
<1> QED BY <1>1, <1>2, ServerLine, ServerParted, ServerLone DEF ChainOK

(* A process that starts has no token in hand.                             *)
LEMMA CrashChain ==
  ASSUME SessionAssumption, Inv, ChainOK, Crash
  PROVE  ChainOK'
<1>1. /\ UNCHANGED <<issued, live, lapsed, spent, ended>> /\ crashes' # 0
      /\ credentials' = NoCredentials /\ task' = Started /\ NoToken = 0
  BY DEF Crash, server, history, Inv, HistoryOK, NoToken
<1>2. \A s \in Tasks : ~Holds(task'[s]) /\ ~Asks(task'[s]) /\ ~Ends(task'[s])
                       /\ task'[s].pc \notin {"clearing", "sent", "leaving"}
  BY <1>1 DEF Started, Idle, Holds, Asks, Ends
<1>3. ASSUME NEW m \in late', m.kind = "refresh" PROVE GoingOK(m.token)'
  <2>1. PICK t \in Tasks : Awaiting(t) /\ m = Message(t)
    BY <1>3 DEF Crash
  <2>2. Asks(task[t]) /\ m.token = task[t].token
    BY <1>3, <2>1, MessageOK DEF Awaiting, Asks
  <2>3. m.token \in spent /\ m.token # NoToken
    BY <2>2, TokenFacts DEF ChainOK, PartedOK, GoingOK
  <2>4. m.token # credentials'.access
    BY <1>1, <2>3 DEF NoCredentials
  <2> QED BY <1>1, <1>2, <2>3, <2>4 DEF GoingOK
<1>4. LineOK'
  BY <1>1 DEF ChainOK, LineOK, RootOf
<1>5. PartedOK'
  BY <1>2, <1>3 DEF PartedOK
<1>6. LoneOK'
  BY <1>1, <1>2 DEF LoneOK, NoCredentials
<1>7. FirstLife'
  BY <1>1 DEF FirstLife
<1> QED BY <1>4, <1>5, <1>6, <1>7 DEF ChainOK

LEMMA InitChain == ASSUME SessionAssumption, Init PROVE ChainOK
<1>1. /\ credentials = NoCredentials /\ task = Started /\ late = {} /\ ended = {} /\ lapsed = {}
      /\ NoCredentials.access = NoToken /\ NoCredentials.refresh = NoToken
  BY DEF Init, NoCredentials
<1>2. \A s \in Tasks : ~Holds(task[s]) /\ ~Asks(task[s]) /\ ~Ends(task[s])
                       /\ task[s].pc \notin {"clearing", "sent", "leaving"}
  BY <1>1 DEF Started, Idle, Holds, Asks, Ends
<1>3. durable \in live \cup {NoToken}
  BY DEF Init
<1>4. LineOK
  <2>1. CASE issued = <<>> /\ live = {}
    BY <1>1, <2>1 DEF LineOK
  <2>2. ASSUME NEW u \in Users, issued = <<[user |-> u, root |-> 1]>>, live = {1}
        PROVE  LineOK
    <3>1. Len(issued) = 1 /\ RootOf(1) = 1
      BY <2>2 DEF RootOf
    <3>2. \A i \in 1 .. 1 : i = 1
      OBVIOUS
    <3> QED BY <1>1, <2>2, <3>1, <3>2 DEF LineOK
  <2> QED BY <2>1, <2>2 DEF Init
<1>5. PartedOK
  BY <1>1, <1>2 DEF PartedOK
<1>6. LoneOK
  BY <1>1, <1>2 DEF LoneOK
<1>7. FirstLife
  BY <1>1, <1>2, <1>3 DEF FirstLife
<1> QED BY <1>4, <1>5, <1>6, <1>7 DEF ChainOK

LEMMA NextChain == ASSUME SessionAssumption, Inv, ChainOK, Next PROVE ChainOK'
<1>1. CASE \E t \in Tasks : Continue(t) \/ Handle(t) \/ Lose(t)
  BY <1>1, ContinueClient, ClientChain, HandleChain, LoseChain
<1>2. CASE \E c \in Calls : Login(c) \/ Logout(c) \/ \E op \in Ops : Call(c, op)
  BY <1>2, CallClient, ClientChain
<1>3. CASE \E m \in late : HandleLate(m)
  BY <1>3, HandleLateChain
<1> QED BY <1>1, <1>2, <1>3, StorageChain, CrashChain DEF Next

LEMMA StutterChain == ASSUME ChainOK, UNCHANGED vars PROVE ChainOK'
BY DEF vars, server, memory, history, bounds, ChainOK, LineOK, PartedOK, GoingOK, LoneOK,
   FirstLife, Alone, Dead, RootOf, Current, AtBoot

LEMMA ChainHolds == Spec => []ChainOK
<1>1. Init => ChainOK
  BY SessionAssumption, InitChain
<1>2. Inv /\ ChainOK /\ [Next]_vars => ChainOK'
  BY SessionAssumption, NextChain, StutterChain
<1> QED BY <1>1, <1>2, Invariance, PTL DEF Spec

(* Until the process dies for the first time, every refresh token that      *)
(* /auth/refresh is asked to rotate is one the server still honours.       *)
THEOREM NoAlarmIsRaised == Spec => []RaisesNoAlarm
<1>1. Inv /\ ChainOK => RaisesNoAlarm
  <2> SUFFICES ASSUME Inv, ChainOK, crashes = 0, NEW f \in Flights,
                      task[f].pc = "asking", task[f].ans = "none"
               PROVE  task[f].token \in live
    BY DEF RaisesNoAlarm
  <2>1. f \in Tasks /\ task[f].op = "refresh"
    BY SessionAssumption, TaskFacts DEF TaskOK, RecOK, Tasks
  <2> QED BY <2>1 DEF Asks, ChainOK, FirstLife
<1> QED BY <1>1, Invariance, ChainHolds, PTL

(* "Never pretend remote revocation succeeded": a sign-in whose logout()    *)
(* resolved has no refresh token alive on the server.                      *)
THEOREM LogoutsAreTrue == Spec => []LogoutIsTrue
<1>1. ChainOK => LogoutIsTrue
  BY DEF ChainOK, LineOK, LogoutIsTrue
<1> QED BY <1>1, ChainHolds, PTL

-----------------------------------------------------------------------------
(* A credential whose revocation was confirmed is dead.                     *)
DeadOnceRevoked ==
  \A t \in Tasks : task[t].pc = "revoking" /\ task[t].ans = "ok" => task[t].token \notin live

LEMMA ClientDead ==
  ASSUME DeadOnceRevoked, NEW t \in Tasks, ClientStep(t)
  PROVE  DeadOnceRevoked'
<1> SUFFICES ASSUME NEW s \in Tasks, task'[s].pc = "revoking", task'[s].ans = "ok"
             PROVE  task'[s].token \notin live'
  BY DEF DeadOnceRevoked
<1>1. live' = live
  BY DEF ClientStep, server
<1>2. s # t
  BY DEF ClientStep, Moved
<1>3. task'[s] = task[s]
  BY <1>2 DEF ClientStep, Aside, Begun
<1> QED BY <1>1, <1>3 DEF DeadOnceRevoked

LEMMA ServerDead ==
  ASSUME SessionAssumption, Inv, DeadOnceRevoked, NEW m, NEW r, ServerStep(m, r)
  PROVE  DeadOnceRevoked'
<1> SUFFICES ASSUME NEW s \in Tasks, task'[s].pc = "revoking", task'[s].ans = "ok"
             PROVE  task'[s].token \notin live'
  BY DEF DeadOnceRevoked
<1>1. /\ task[s].pc = "revoking" /\ live' = r.live
      /\ \/ task'[s].token = task[s].token /\ task[s].ans = "ok"
         \/ Hears(s, m, r)
  BY DEF ServerStep, Becomes
<1>2. CASE task'[s].token = task[s].token /\ task[s].ans = "ok"
  <2>1. task[s].token \notin live /\ task[s].token # Len(issued) + 1
    BY <1>1, <1>2, TokenFacts DEF DeadOnceRevoked
  <2>2. live' \subseteq live \cup {Len(issued) + 1}
    BY <1>1, ServerEffect DEF Grows
  <2> QED BY <1>2, <2>1, <2>2
<1>3. CASE Hears(s, m, r)
  <2>1. m.kind = "logout" /\ r.ans = "ok" /\ task'[s].token = r.token
    BY <1>1, <1>3, MessageOK DEF Hears
  <2>2. r.token = m.token /\ live' = live \ {m.token}
    BY <2>1, ServerEffect
  <2> QED BY <2>1, <2>2
<1> QED BY <1>1, <1>2, <1>3

(* The storage, or a request that is lost: no answer is a new "ok".        *)
LEMMA AsideDead ==
  ASSUME DeadOnceRevoked, live' = live,
         \A s \in Tasks : /\ task'[s].pc = task[s].pc /\ task'[s].token = task[s].token
                          /\ task'[s].ans \in {task[s].ans, "error"}
  PROVE  DeadOnceRevoked'
BY DEF DeadOnceRevoked

LEMMA StorageTasks ==
  ASSUME SessionAssumption, Inv, StoreBegins \/ StoreEnds, NEW s \in Tasks
  PROVE  /\ task'[s].pc = task[s].pc /\ task'[s].token = task[s].token
         /\ task'[s].ans = task[s].ans
<1>1. queue # <<>>
  BY DEF StoreBegins, StoreEnds, Inv, StorageOK
<1>2. PICK t \in Tasks : t = Head(queue).by
  BY <1>1, HeadFacts
<1>3. task' = task \/ \E a : task' = [task EXCEPT ![t].stored = a]
  BY <1>2 DEF StoreBegins, StoreEnds
<1>4. ASSUME NEW a, task' = [task EXCEPT ![t].stored = a]
      PROVE  task'[s].pc = task[s].pc /\ task'[s].token = task[s].token
             /\ task'[s].ans = task[s].ans
  BY <1>4, Told
<1> QED BY <1>1, <1>3, <1>4

LEMMA NextDead ==
  ASSUME SessionAssumption, Inv, ChainOK, DeadOnceRevoked, Next
  PROVE  DeadOnceRevoked'
<1>1. CASE \E t \in Tasks : Continue(t)
  BY <1>1, ContinueClient, ClientDead
<1>2. CASE \E t \in Tasks : Handle(t)
  BY <1>2, HandleStep, ServerDead
<1>3. ASSUME NEW t \in Tasks, Lose(t) PROVE DeadOnceRevoked'
  <2>1. live' = live /\ task' = [task EXCEPT ![t].ans = "error"]
        /\ DOMAIN task = Tasks /\ task[t] \in TaskRecords
    BY <1>3, TaskFacts DEF Lose, server, Inv, TasksOK
  <2>2. task'[t] = [task[t] EXCEPT !.ans = "error"] /\ \A s \in Tasks \ {t} : task'[s] = task[s]
    BY <2>1
  <2>3. task'[t].pc = task[t].pc /\ task'[t].token = task[t].token /\ task'[t].ans = "error"
    BY <2>1, <2>2 DEF TaskRecords
  <2> QED BY <2>1, <2>2, <2>3, AsideDead
<1>4. CASE \E c \in Calls : Login(c) \/ Logout(c) \/ \E op \in Ops : Call(c, op)
  BY <1>4, CallClient, ClientDead
<1>5. CASE StoreBegins \/ StoreEnds
  <2>1. live' = live
    BY <1>5 DEF StoreBegins, StoreEnds, server
  <2> QED BY <1>5, <2>1, StorageTasks, AsideDead
<1>6. CASE \E m \in late : HandleLate(m)
  BY <1>6, HandleLateStep, ServerDead
<1>7. CASE Crash
  BY <1>7 DEF Crash, Started, Idle, DeadOnceRevoked
<1> QED BY <1>1, <1>2, <1>3, <1>4, <1>5, <1>6, <1>7 DEF Next

LEMMA DeadHolds == Spec => []DeadOnceRevoked
<1>1. Init => DeadOnceRevoked
  BY DEF Init, Started, Idle, DeadOnceRevoked
<1>2. Inv /\ ChainOK /\ DeadOnceRevoked /\ [Next]_vars => DeadOnceRevoked'
  <2> SUFFICES ASSUME Inv, ChainOK, DeadOnceRevoked, [Next]_vars PROVE DeadOnceRevoked'
    OBVIOUS
  <2>1. CASE UNCHANGED vars
    BY <2>1 DEF vars, server, DeadOnceRevoked
  <2> QED BY <2>1, SessionAssumption, NextDead
<1> QED BY <1>1, <1>2, Invariance, ChainHolds, PTL DEF Spec

(* Where the credentials that task t was given may have gone.              *)
PutAway(t) ==
  \/ credentials'.refresh = task[t].token
  \/ task[t].token \notin live
  \/ task[t].pc = "revoking" /\ task[t].ans # "ok"
  \/ task[t].stored = "failed" /\ Current(t)

(* The continuations of the task that has them.                            *)
LEMMA ContinueHands ==
  ASSUME SessionAssumption, Inv, DeadOnceRevoked, NEW t \in Tasks, Continue(t),
         InHand(t), ~InHand(t)'
  PROVE  PutAway(t)
<1>1. Answered(t) \/ Saved(t) \/ Revoked(t)
  BY DEF Continue, ReadFails, InitializeReads, LoginCleared, Dropped, FlightCleared,
     LogoutSettles, Joined, Replied, Recovered, ReplayReplied, Stored, Arrived, InHand
<1>2. ASSUME NEW pc \in {"saving", "revoking"}, Goto(t, pc) PROVE FALSE
  <2>1. task'[t].pc = pc
    BY <1>2, Gone
  <2> QED BY <2>1 DEF InHand
<1>3. CASE Answered(t)
  BY <1>2, <1>3 DEF Answered, Arrived, InHand, Revoke
<1>4. CASE Saved(t)
  BY <1>2, <1>4 DEF Saved, Revoke, PutAway
<1>5. CASE Revoked(t)
  BY <1>5 DEF Revoked, Arrived, DeadOnceRevoked, PutAway
<1> QED BY <1>1, <1>3, <1>4, <1>5

LEMMA NextHands ==
  ASSUME SessionAssumption, Inv, DeadOnceRevoked, Next, NEW t \in Tasks,
         InHand(t), ~InHand(t)', crashes' = crashes
  PROVE  PutAway(t)
<1>1. ASSUME NEW s \in Tasks \ {t}, ClientStep(s) PROVE FALSE
  <2>1. Aside(t)
    BY <1>1 DEF ClientStep
  <2>2. task'[t] # task[t]
    BY DEF InHand
  <2> QED BY <2>1, <2>2 DEF Aside, Begun, Idle, InHand
<1>2. ASSUME NEW s \in Tasks, Continue(s) PROVE PutAway(t)
  BY <1>1, <1>2, ContinueClient, ContinueHands
<1>3. ASSUME NEW s \in Tasks, Handle(s) \/ Lose(s) PROVE FALSE
  <2>1. CASE s # t
    BY <1>3, <2>1, AnsweredTask DEF InHand
  <2>2. CASE s = t
    BY <1>3, <2>2, AnsweredTask DEF Handle, Lose, Awaiting, InHand
  <2> QED BY <2>1, <2>2
<1>4. ASSUME NEW c \in Calls, Login(c) \/ Logout(c) \/ \E op \in Ops : Call(c, op)
      PROVE  FALSE
  <2>1. c \in Tasks /\ ClientStep(c) /\ task[c] = Idle
    BY <1>4, CallClient DEF Login, Logout, Call
  <2> QED BY <1>1, <2>1 DEF Idle, InHand
<1>5. CASE StoreBegins \/ StoreEnds
  BY <1>5, StorageTasks DEF InHand
<1>6. CASE \E m \in late : HandleLate(m)
  BY <1>6 DEF HandleLate, InHand
<1>7. CASE Crash
  BY <1>7 DEF Crash, Inv, HistoryOK
<1> QED BY <1>2, <1>3, <1>4, <1>5, <1>6, <1>7 DEF Next

(* As long as the process lives, credentials that a call or a refresh was   *)
(* given become the controller's or die on the server: no order of answers, *)
(* sign-ins and storage operations makes the code forget them.             *)
THEOREM NothingSlipsAway == Spec => NoneSlipsAway
<1>1. Inv /\ DeadOnceRevoked /\ [Next]_vars
      => [\A t \in Tasks : InHand(t) /\ ~InHand(t)' /\ crashes' = crashes => PutAway(t)]_vars
  BY SessionAssumption, NextHands
<1> QED BY <1>1, Invariance, DeadHolds, PTL DEF Spec, NoneSlipsAway, PutAway
=============================================================================

--------------------------- MODULE SessionClient ---------------------------
(***************************************************************************)
(* The session controller of the web and mobile applications, its secure   *)
(* storage, and the refresh tokens of the server behind it.                *)
(*                                                                         *)
(* An asynchronous function is a task that stops at every await.  What it  *)
(* awaits is answered by a step of its own (the storage, the network, a    *)
(* refresh flight); its continuation is another.  A continuation that has  *)
(* become runnable runs before the next event: every step that stands for  *)
(* an event needs `Quiet`.  A credential is a number: the access and the   *)
(* refresh token the server issued together.                               *)
(***************************************************************************)
EXTENDS Naturals, Sequences, FiniteSets

CONSTANTS
  Users,
  Calls, Boot,   \* calls of the controller; the one initialize() runs in
  Flights,       \* refreshes that can be running, of different epochs
  Ops,           \* which of "get", "post", "reload" the screens use
  StorageFails,  \* secure storage may refuse
  MaxTokens, MaxLogins, MaxCrashes,
  None

Tasks == Calls \cup Flights
Tokens == 1 .. MaxTokens
NoToken == 0

ASSUME SessionAssumption ==
  /\ Boot \in Calls /\ Calls \cap Flights = {}
  /\ None \notin Users \cup Tasks
  /\ Ops \subseteq {"get", "post", "reload"}
  /\ StorageFails \in BOOLEAN
  /\ MaxTokens \in Nat \ {0} /\ MaxLogins \in Nat /\ MaxCrashes \in Nat

VARIABLES
  issued, live, lapsed, suspended,          \* the server
  epoch, credentials, snapshot,             \* the controller's memory
  refreshFlight, cache, task, queue, busy,
  durable,                                  \* the refresh token kept on disk
  late,                                     \* requests of a dead process
  spent, storeFailed, ended,                \* history
  logins, crashes                           \* bounds

server == <<issued, live, lapsed, suspended>>
memory == <<epoch, credentials, snapshot, refreshFlight, cache>>
history == <<spent, storeFailed, ended>>
bounds == <<logins, crashes>>
vars == <<server, memory, task, queue, busy, durable, late, history, bounds>>

Idle == [op |-> "none", pc |-> "idle", epoch |-> 0, token |-> NoToken,
         ans |-> "none", stored |-> "none"]
NoCredentials == [access |-> NoToken, refresh |-> NoToken]
Loading == [status |-> "loading", user |-> None, reason |-> None]
SignedOut(why) == [status |-> "signedOut", user |-> None, reason |-> why]
Authenticated(u) == [status |-> "authenticated", user |-> u, reason |-> None]

UserOf(k) == issued[k].user

(* Sign-in that token k descends from by rotations.                        *)
RootOf(k) == issued[k].root

(* A process that starts: the screens call initialize() at once.           *)
Started == [t \in Tasks |-> IF t = Boot THEN [Idle EXCEPT !.op = "initialize",
                                                         !.pc = "reading"]
                                        ELSE Idle]

(* The device is new, or a user is signed in on it from an earlier run.    *)
Init ==
  /\ \/ issued = <<>> /\ live = {} /\ durable = NoToken
     \/ \E u \in Users : /\ issued = <<[user |-> u, root |-> 1]>>
                         /\ live = {1} /\ durable = 1
  /\ lapsed = {} /\ suspended = {}
  /\ epoch = 0 /\ credentials = NoCredentials /\ snapshot = Loading
  /\ refreshFlight = None /\ cache = None
  /\ task = Started /\ queue = <<>> /\ busy = FALSE
  /\ late = {}
  /\ spent = {} /\ storeFailed = FALSE /\ ended = {}
  /\ logins = 0 /\ crashes = 0

-----------------------------------------------------------------------------
(* The tasks.                                                              *)

(* assertCurrent(expected).  Mutant: it is left out.                       *)
AlwaysCurrent(t) == TRUE
Current(t) == epoch = task[t].epoch

(* Awaited storage or flight has answered: the continuation is runnable.   *)
Due(t) ==
  \/ task[t].pc \in {"joined", "recovering"} /\ task[t].ans # "none"
  \/ /\ task[t].pc \in {"starting", "clearing", "saving", "dropping"}
     /\ task[t].stored # "none"

Quiet == (\A t \in Tasks : ~Due(t)) /\ (queue = <<>> \/ busy)

Arrived(t, pc) ==
  task[t].pc = pc /\ task[t].ans # "none" /\ (pc \in {"joined", "recovering"} \/ Quiet)
Stored(t, pc) == task[t].pc = pc /\ task[t].stored # "none"

At(t, pc) == [task[t] EXCEPT !.pc = pc, !.ans = "none", !.stored = "none"]
Goto(t, pc) == task' = [task EXCEPT ![t] = At(t, pc)]

(* The promise of t settles.  A flight answers the calls that await it and *)
(* is no longer the refreshFlight.                                         *)
Finish(t, result) ==
  /\ task' = [s \in Tasks |->
       IF s = t THEN Idle
       ELSE IF /\ t \in Flights
               /\ task[s].pc \in {"joined", "recovering"}
               /\ task[s].epoch = task[t].epoch
            THEN [task[s] EXCEPT !.ans = result] ELSE task[s]]
  /\ refreshFlight' = IF refreshFlight = t THEN None ELSE refreshFlight

(* forget(expected, reason), as the last thing t does: it fails then.      *)
Forget(t, why) ==
  IF Current(t)
  THEN /\ epoch' = epoch + 1
       /\ credentials' = NoCredentials
       /\ cache' = None
       /\ snapshot' = SignedOut(why)
       /\ queue' = Append(queue, [by |-> t, act |-> "clear", token |-> NoToken,
                                  asserts |-> FALSE])
       /\ Goto(t, "dropping")
       /\ UNCHANGED refreshFlight
  ELSE /\ Finish(t, "failed")
       /\ UNCHANGED <<epoch, credentials, cache, snapshot, queue>>

Send(t, pc, k) == task' = [task EXCEPT ![t] = [At(t, pc) EXCEPT !.token = k]]

Flying == refreshFlight # None /\ task[refreshFlight].epoch = epoch

(* refresh(): join the flight of this epoch or begin one.                  *)
Refresh(t, pc, pair) ==
  IF Flying
  THEN /\ Goto(t, pc)
       /\ UNCHANGED <<refreshFlight, queue>>
  ELSE \E f \in Flights :
         /\ task[f] = Idle
         /\ task' = [task EXCEPT ![t] = At(t, pc),
                                 ![f] = [Idle EXCEPT !.op = "refresh",
                                            !.pc = "clearing", !.epoch = epoch,
                                            !.token = pair.refresh]]
         /\ refreshFlight' = f
         /\ queue' = Append(queue, [by |-> f, act |-> "clear",
                                    token |-> NoToken, asserts |-> TRUE])

-----------------------------------------------------------------------------
(* initialize() and login().                                               *)

ReadFails(t) ==
  /\ StorageFails /\ task[t].pc = "reading" /\ Quiet
  /\ Forget(t, "expired")
  /\ UNCHANGED <<server, busy, durable, late, history, bounds>>

InitializeReads(t) ==
  /\ task[t].pc = "reading" /\ Quiet
  /\ UNCHANGED <<server, epoch, cache, busy, durable, late, history, bounds>>
  /\ \/ /\ ~Current(t)
        /\ Finish(t, "failed")
        /\ UNCHANGED <<credentials, snapshot, queue>>
     \/ /\ Current(t) /\ durable = NoToken
        /\ snapshot' = SignedOut(None)
        /\ Finish(t, "ok")
        /\ UNCHANGED <<credentials, queue>>
     \/ /\ Current(t) /\ durable # NoToken
        /\ credentials' = [access |-> NoToken, refresh |-> durable]
        /\ Refresh(t, "joined", [access |-> NoToken, refresh |-> durable])
        /\ UNCHANGED snapshot

Login(c) ==
  /\ Quiet /\ task[c] = Idle /\ logins < MaxLogins
  /\ logins' = logins + 1
  /\ epoch' = epoch + 1
  /\ credentials' = NoCredentials
  /\ cache' = None
  /\ snapshot' = Loading
  /\ task' = [task EXCEPT ![c] = [Idle EXCEPT !.op = "login", !.pc = "starting",
                                             !.epoch = epoch + 1]]
  /\ queue' = Append(queue, [by |-> c, act |-> "clear", token |-> NoToken,
                             asserts |-> FALSE])
  /\ UNCHANGED <<server, refreshFlight, busy, durable, late, history, crashes>>

LoginCleared(c) ==
  /\ Stored(c, "starting")
  /\ \/ /\ task[c].stored = "ok" /\ Current(c)
        /\ Goto(c, "asking")
        /\ UNCHANGED <<memory, queue>>
     \/ /\ task[c].stored = "failed" \/ ~Current(c)
        /\ Forget(c, None)
  /\ UNCHANGED <<server, busy, durable, late, history, bounds>>

(* What a failed login or refresh leaves in the snapshot.                  *)
(* Mutant: the error as it came.                                           *)
ErrorCode(t) == task[t].ans
Reason(t) == IF task[t].ans = "suspended" THEN "suspended"
             ELSE IF task[t].op = "login" THEN None ELSE "expired"

(* New credentials come too late: revoke(tokens).  Mutant: they are left    *)
(* alone.                                                                  *)
LeaveAlone(t) ==
  Finish(t, "failed") /\ UNCHANGED <<epoch, credentials, snapshot, cache, queue>>
Revoke(t) == Goto(t, "revoking") /\ UNCHANGED <<memory, queue>>

(* The answer to /auth/login or /auth/refresh: save the new credentials,   *)
(* or revoke them when they come too late.                                 *)
Answered(t) ==
  /\ Arrived(t, "asking")
  /\ \/ /\ task[t].ans # "ok"
        /\ Forget(t, Reason(t))
     \/ task[t].ans = "ok" /\ ~Current(t) /\ Revoke(t)
     \/ /\ task[t].ans = "ok" /\ Current(t)
        /\ Goto(t, "saving")
        /\ queue' = Append(queue, [by |-> t, act |-> "set",
                                   token |-> task[t].token, asserts |-> TRUE])
        /\ UNCHANGED memory
  /\ UNCHANGED <<server, busy, durable, late, history, bounds>>

Saved(t) ==
  /\ Stored(t, "saving")
  /\ \/ /\ task[t].stored = "ok" /\ Current(t)
        /\ credentials' = [access |-> task[t].token, refresh |-> task[t].token]
        /\ IF t \in Flights
           THEN Finish(t, "ok")
           ELSE Send(t, "sent", task[t].token) /\ UNCHANGED refreshFlight
        /\ UNCHANGED <<epoch, snapshot, cache, queue>>
     \/ ~Current(t) /\ Revoke(t)
     \/ /\ task[t].stored = "failed" /\ Current(t)
        /\ Forget(t, Reason(t))
  /\ UNCHANGED <<server, busy, durable, late, history, bounds>>

(* revoke(tokens).catch(() => undefined), then sessionChanged().           *)
Revoked(t) ==
  /\ Arrived(t, "revoking")
  /\ Finish(t, "failed")
  /\ UNCHANGED <<server, epoch, credentials, snapshot, cache, queue, busy,
                 durable, late, history, bounds>>

(* Mutant: sign-out waits until the credentials are removed.               *)
DroppedOnceCleared(t) ==
  /\ Stored(t, "dropping") /\ task[t].stored = "ok"
  /\ Finish(t, "failed")
  /\ UNCHANGED <<server, epoch, credentials, snapshot, cache, queue, busy,
                 durable, late, history, bounds>>

Dropped(t) ==
  /\ Stored(t, "dropping")
  /\ Finish(t, "failed")
  /\ UNCHANGED <<server, epoch, credentials, snapshot, cache, queue, busy,
                 durable, late, history, bounds>>

(* The durable copy is gone: spend the refresh token.                      *)
FlightCleared(f) ==
  /\ Stored(f, "clearing")
  /\ \/ /\ task[f].stored = "ok" /\ Current(f)
        /\ Goto(f, "asking")
        /\ spent' = spent \cup {task[f].token}
        /\ UNCHANGED <<memory, queue>>
     \/ /\ task[f].stored # "ok" \/ ~Current(f)
        /\ Forget(f, "expired")
        /\ UNCHANGED spent
  /\ UNCHANGED <<server, busy, durable, late, storeFailed, ended, bounds>>

-----------------------------------------------------------------------------
(* logout(): forget and revoke at the same time.                           *)

Logout(c) ==
  /\ Quiet /\ task[c] = Idle /\ snapshot.status = "authenticated"
  /\ epoch' = epoch + 1
  /\ credentials' = NoCredentials
  /\ cache' = None
  /\ snapshot' = SignedOut(None)
  /\ task' = [task EXCEPT ![c] = [Idle EXCEPT !.op = "logout", !.pc = "leaving",
                                             !.epoch = epoch,
                                             !.token = credentials.access]]
  /\ queue' = Append(queue, [by |-> c, act |-> "clear", token |-> NoToken,
                             asserts |-> FALSE])
  /\ UNCHANGED <<server, refreshFlight, busy, durable, late, history, bounds>>

(* logout() resolves only if neither was rejected.                         *)
LoggedOut(c) == task[c].stored = "ok" /\ task[c].ans = "ok"

LogoutSettles(c) ==
  /\ Arrived(c, "leaving") /\ task[c].stored # "none"
  /\ Finish(c, "ok")
  /\ ended' = IF LoggedOut(c) THEN ended \cup {RootOf(task[c].token)} ELSE ended
  /\ UNCHANGED <<server, epoch, credentials, snapshot, cache, queue, busy,
                 durable, late, spent, storeFailed, bounds>>

-----------------------------------------------------------------------------
(* request() and reloadUser().                                             *)

Call(c, op) ==
  /\ Quiet /\ task[c] = Idle /\ credentials # NoCredentials
  /\ task' = [task EXCEPT ![c] =
       [Idle EXCEPT !.op = op, !.epoch = epoch,
                    !.pc = IF Flying THEN "joined" ELSE "sent",
                    !.token = IF Flying THEN NoToken ELSE credentials.access]]
  /\ UNCHANGED <<server, memory, queue, busy, durable, late, history, bounds>>

(* A request that fails: initialize() and login() then forget.             *)
Fail(c) ==
  IF task[c].op \in {"initialize", "login"}
  THEN Forget(c, Reason(c))
  ELSE Finish(c, "failed") /\ UNCHANGED <<epoch, credentials, snapshot, cache, queue>>

(* A request that succeeds: the caller keeps the data, or the user is      *)
(* published.                                                              *)
Succeed(c) ==
  /\ Finish(c, "ok")
  /\ cache' = IF task[c].op = "get" THEN UserOf(task[c].token) ELSE cache
  /\ snapshot' = IF task[c].op \in {"initialize", "login", "reload"}
                 THEN Authenticated(UserOf(task[c].token)) ELSE snapshot
  /\ UNCHANGED <<epoch, credentials, queue>>

Joined(c) ==
  /\ Arrived(c, "joined")
  /\ \/ /\ task[c].ans = "ok" /\ Current(c) /\ credentials # NoCredentials
        /\ Send(c, "sent", credentials.access)
        /\ UNCHANGED <<memory, queue>>
     \/ /\ ~(task[c].ans = "ok" /\ Current(c) /\ credentials # NoCredentials)
        /\ Fail(c)
  /\ UNCHANGED <<server, busy, durable, late, history, bounds>>

(* Sign-in has recovered: only a read is sent again.                       *)
Replay(c) ==
  IF task[c].op = "post"
  THEN Fail(c)
  ELSE Send(c, "replayed", credentials.access) /\ UNCHANGED <<memory, queue>>

Replied(c) ==
  /\ Arrived(c, "sent")
  /\ \/ ~Current(c) /\ Fail(c)
     \/ Current(c) /\ task[c].ans = "ok" /\ Succeed(c)
     \/ Current(c) /\ task[c].ans = "suspended" /\ Forget(c, "suspended")
     \/ Current(c) /\ task[c].ans = "error" /\ Fail(c)
     \/ /\ Current(c) /\ task[c].ans = "401"
        /\ credentials.access = task[c].token
        /\ Refresh(c, "recovering", credentials)
        /\ UNCHANGED <<epoch, credentials, snapshot, cache>>
     \/ /\ Current(c) /\ task[c].ans = "401"
        /\ credentials.access # task[c].token
        /\ Replay(c)
  /\ UNCHANGED <<server, busy, durable, late, history, bounds>>

Recovered(c) ==
  /\ Arrived(c, "recovering")
  /\ IF task[c].ans = "ok" /\ Current(c) THEN Replay(c) ELSE Fail(c)
  /\ UNCHANGED <<server, busy, durable, late, history, bounds>>

ReplayReplied(c) ==
  /\ Arrived(c, "replayed")
  /\ \/ Current(c) /\ task[c].ans = "ok" /\ Succeed(c)
     \/ ~Current(c) /\ Fail(c)
     \/ Current(c) /\ task[c].ans = "401" /\ Forget(c, "expired")
     \/ Current(c) /\ task[c].ans = "suspended" /\ Forget(c, "suspended")
     \/ Current(c) /\ task[c].ans = "error" /\ Fail(c)
  /\ UNCHANGED <<server, busy, durable, late, history, bounds>>

-----------------------------------------------------------------------------
(* Secure storage: one operation at a time, in the order of the queue.     *)

(* A guarded action of an abandoned epoch is refused before it begins.     *)
StoreBegins ==
  /\ queue # <<>> /\ ~busy
  /\ LET q == Head(queue) IN
     IF q.asserts /\ ~Current(q.by)
     THEN /\ queue' = Tail(queue)
          /\ task' = [task EXCEPT ![q.by].stored = "failed"]
          /\ UNCHANGED busy
     ELSE busy' = TRUE /\ UNCHANGED <<queue, task>>
  /\ UNCHANGED <<server, memory, durable, late, history, bounds>>

(* Mutant: clear() empties the memory store only.                          *)
MemoryEffect(q) == IF q.act = "set" THEN q.token ELSE durable
Effect(q) == IF q.act = "set" THEN q.token ELSE NoToken

(* A refused operation may or may not have had its effect.                 *)
StoreEnds ==
  /\ busy /\ Quiet
  /\ LET q == Head(queue) IN
     \/ /\ task' = [task EXCEPT ![q.by].stored = "ok"]
        /\ durable' = Effect(q)
        /\ storeFailed' = FALSE
     \/ /\ StorageFails
        /\ task' = [task EXCEPT ![q.by].stored = "failed"]
        /\ durable' \in {durable, Effect(q)}
        /\ storeFailed' = TRUE
  /\ queue' = Tail(queue)
  /\ busy' = FALSE
  /\ UNCHANGED <<server, memory, late, spent, ended, bounds>>

-----------------------------------------------------------------------------
(* The server.  Of a request it answers `ans`, and a token it issued.      *)

Awaiting(t) ==
  task[t].pc \in {"asking", "sent", "replayed", "revoking", "leaving"} /\ task[t].ans = "none"

Message(t) ==
  [kind |-> CASE task[t].pc = "asking" -> task[t].op
              [] task[t].pc \in {"sent", "replayed"} -> "api"
              [] OTHER -> "logout",
   token |-> task[t].token]

(* What becomes of the server, and the answer.                             *)
Same(ans, k) == [live |-> live, issued |-> issued, lapsed |-> lapsed,
                 suspended |-> suspended, ans |-> ans, token |-> k]

(* _issue_tokens.                                                          *)
Issue(rest, u, root) ==
  [Same("ok", Len(issued) + 1) EXCEPT
     !.live = rest \cup {Len(issued) + 1},
     !.issued = Append(issued, [user |-> u, root |-> root])]

(* An access token lapses, an administrator suspends an account: when is   *)
(* settled when the server next looks.                                     *)
Lapsing(k) == [Same("401", k) EXCEPT !.lapsed = lapsed \cup {k}]
Suspending(u, k) == [Same("suspended", k) EXCEPT !.suspended = suspended \cup {u}]

(* auth_service.login; "error": wrong password, or email not confirmed.    *)
Logins ==
  {Same("error", NoToken)}
  \cup {Suspending(u, NoToken) : u \in Users}
  \cup {Issue(live, u, Len(issued) + 1) : u \in Users \ suspended}

(* auth_service.refresh: a spent token that comes back ends every session  *)
(* of its user; suspension is found after the update and rolls it back.    *)
Rotations(k) ==
  IF k \notin live
  THEN {[Same("error", k) EXCEPT !.live = {i \in live : UserOf(i) # UserOf(k)}]}
  ELSE {Suspending(UserOf(k), k)}
       \cup {Issue(live \ {k}, v, RootOf(k)) : v \in {UserOf(k)} \ suspended}

(* get_current_user, then what the route makes of an admitted request.     *)
Admitted(k, done) ==
  {Lapsing(k)}
  \cup {Suspending(v, k) : v \in {u \in {UserOf(k)} : k \notin lapsed}}
  \cup {done : v \in {u \in {UserOf(k)} : k \notin lapsed /\ u \notin suspended}}

(* auth_service.logout.  Mutant: a lapsed access token will do.            *)
AnyRevocation(k) == {[Same("ok", k) EXCEPT !.live = live \ {k}]}
Revocations(k) == Admitted(k, [Same("ok", k) EXCEPT !.live = live \ {k}])

Outcomes(m) ==
  {r \in CASE m.kind = "login" -> Logins
           [] m.kind = "refresh" -> Rotations(m.token)
           [] m.kind = "logout" -> Revocations(m.token)
           [] OTHER -> Admitted(m.token, Same("ok", m.token)) :
     Len(r.issued) <= MaxTokens}

Becomes(r) ==
  /\ live' = r.live /\ issued' = r.issued
  /\ lapsed' = r.lapsed /\ suspended' = r.suspended

(* The answer travels back, or is lost.                                    *)
Handle(t) ==
  /\ Awaiting(t) /\ Quiet
  /\ \E r \in Outcomes(Message(t)) :
       /\ Becomes(r)
       /\ \/ task' = [task EXCEPT ![t].ans = r.ans, ![t].token = r.token]
          \/ task' = [task EXCEPT ![t].ans = "error"]
  /\ UNCHANGED <<memory, queue, busy, durable, late, history, bounds>>

(* The request never reaches the server.                                   *)
Lose(t) ==
  /\ Awaiting(t) /\ Quiet
  /\ task' = [task EXCEPT ![t].ans = "error"]
  /\ UNCHANGED <<server, memory, queue, busy, durable, late, history, bounds>>

HandleLate(m) ==
  /\ Quiet
  /\ late' = late \ {m}
  /\ \E r \in Outcomes(m) : Becomes(r)
  /\ UNCHANGED <<memory, task, queue, busy, durable, history, bounds>>

(* The process dies and starts again.  A storage operation under way may   *)
(* have happened; requests on the wire may still reach the server.         *)
Crash ==
  /\ Quiet /\ crashes < MaxCrashes
  /\ crashes' = crashes + 1
  /\ durable' \in {durable} \cup (IF busy THEN {Effect(Head(queue))} ELSE {})
  /\ late' \in SUBSET {m \in {Message(t) : t \in {s \in Tasks : Awaiting(s)}} :
                         m.kind # "api"}
  /\ epoch' = 0 /\ credentials' = NoCredentials /\ snapshot' = Loading
  /\ refreshFlight' = None /\ cache' = None
  /\ task' = Started /\ queue' = <<>> /\ busy' = FALSE
  /\ UNCHANGED <<server, history, logins>>

-----------------------------------------------------------------------------
(* A continuation of t.                                                    *)
Continue(t) ==
  \/ ReadFails(t) \/ InitializeReads(t) \/ LoginCleared(t) \/ Answered(t)
  \/ Saved(t) \/ Revoked(t) \/ Dropped(t) \/ FlightCleared(t) \/ LogoutSettles(t)
  \/ Joined(t) \/ Replied(t) \/ Recovered(t) \/ ReplayReplied(t)

Next ==
  \/ \E t \in Tasks : Continue(t) \/ Handle(t) \/ Lose(t)
  \/ \E c \in Calls : Login(c) \/ Logout(c) \/ \E op \in Ops : Call(c, op)
  \/ StoreBegins \/ StoreEnds
  \/ \E m \in late : HandleLate(m)
  \/ Crash

(* Code runs to its next await, secure storage and fetch settle.           *)
Fairness ==
  /\ \A t \in Tasks : WF_vars(Continue(t)) /\ WF_vars(Handle(t) \/ Lose(t))
  /\ WF_vars(StoreBegins) /\ WF_vars(StoreEnds)

Spec == Init /\ [][Next]_vars
FairSpec == Spec /\ Fairness

-----------------------------------------------------------------------------
(* Properties.                                                             *)

Credentials == [access : 0 .. MaxTokens, refresh : 0 .. MaxTokens]
Snapshots ==
  [status : {"loading", "signedOut", "authenticated"}, user : Users \cup {None},
   reason : {"expired", "suspended", None}]
TaskRecords ==
  [op : {"none", "initialize", "login", "logout", "refresh"} \cup Ops,
   pc : {"idle", "reading", "starting", "clearing", "asking", "saving",
         "revoking", "dropping", "leaving", "joined", "sent", "recovering",
         "replayed"},
   epoch : Nat, token : 0 .. MaxTokens,
   ans : {"none", "ok", "failed", "401", "suspended", "error"},
   stored : {"none", "ok", "failed"}]

(* Every variable keeps its shape, and no credential was invented.         *)
TypeOK ==
  /\ issued \in Seq([user : Users, root : Tokens]) /\ Len(issued) <= MaxTokens
  /\ live \subseteq 1 .. Len(issued) /\ lapsed \subseteq 1 .. Len(issued)
  /\ suspended \subseteq Users
  /\ epoch \in Nat /\ credentials \in Credentials /\ snapshot \in Snapshots
  /\ refreshFlight \in Flights \cup {None} /\ cache \in Users \cup {None}
  /\ task \in [Tasks -> TaskRecords]
  /\ queue \in Seq([by : Tasks, act : {"clear", "set"}, token : 0 .. MaxTokens,
                    asserts : BOOLEAN])
  /\ busy \in BOOLEAN /\ durable \in 0 .. Len(issued)
  /\ late \subseteq [kind : {"login", "refresh", "logout"}, token : 0 .. MaxTokens]
  /\ spent \subseteq 1 .. Len(issued) /\ storeFailed \in BOOLEAN
  /\ ended \subseteq Tokens
  /\ logins \in 0 .. MaxLogins /\ crashes \in 0 .. MaxCrashes

(* "Refresh tokens are spent once, never retried after an uncertain        *)
(* result": no refresh token goes to /auth/refresh twice, whatever is      *)
(* lost, whenever storage refuses or the process dies.                     *)
SpendsOnce ==
  [][\A f \in Flights : task[f].pc = "clearing" /\ task'[f].pc = "asking"
                         => task'[f].token \notin spent]_vars

(* What the screens show belongs to the account whose credentials the      *)
(* controller holds: the published user and the data of answers, including *)
(* answers to requests and refreshes of an account that has left.          *)
ShowsItsAccount ==
  /\ snapshot.status = "authenticated" =>
       credentials.access # NoToken /\ UserOf(credentials.access) = snapshot.user
  /\ cache # None =>
       credentials.refresh # NoToken /\ UserOf(credentials.refresh) = cache

(* Once the storage queue has drained without a refusal, the disk holds    *)
(* the current refresh token or nothing: a late write of an abandoned      *)
(* refresh never survives sign-out.                                        *)
DiskFollowsSession ==
  /\ Quiet /\ queue = <<>> /\ ~storeFailed
  /\ ~(task[Boot].pc = "reading" /\ epoch = 0)
  => durable \in {NoToken, credentials.refresh}

(* Every promise settles: no call, flight or storage operation waits for   *)
(* another for ever.                                                       *)
CallsSettle == \A t \in Tasks : task[t] # Idle ~> task[t] = Idle

Account == INSTANCE AccountSession WITH status <- snapshot.status,
                                        user <- snapshot.user
(* The snapshot is what AccountSession promises, its liveness included.    *)
ImplementsAccount == Account!Spec

(* In one life of the process no refresh token is sent that the server has *)
(* ceased to honour, so its reuse alarm, which ends every session of the   *)
(* user, is not raised: neither by two refreshes nor by a refresh that     *)
(* crosses a logout.  (A restart can raise it: the process may die when    *)
(* logout() has revoked a token and not yet deleted it.)                   *)
RaisesNoAlarm ==
  crashes = 0 => \A f \in Flights :
    task[f].pc = "asking" /\ task[f].ans = "none" => task[f].token \in live

(* Task t has been given credentials that are not the controller's yet.    *)
InHand(t) ==
  \/ task[t].pc = "asking" /\ task[t].ans = "ok"
  \/ task[t].pc \in {"saving", "revoking"}

(* Credentials that the server has issued do not slip away when their       *)
(* sign-in is abandoned on the way (the answer is late, or the save is      *)
(* still queued): as long as the process lives, whoever was given them      *)
(* makes them the controller's or sees them dead on the server, unless the  *)
(* revocation failed.  (A save that storage refuses to the current sign-in  *)
(* leaves them alive: the code revokes only when the epoch has moved.)      *)
NoneSlipsAway ==
  [][\A t \in Tasks : InHand(t) /\ ~InHand(t)' /\ crashes' = crashes =>
       \/ credentials'.refresh = task[t].token
       \/ task[t].token \notin live
       \/ task[t].pc = "revoking" /\ task[t].ans # "ok"
       \/ task[t].stored = "failed" /\ Current(t)]_vars

(* The comment in logout(): "never pretend remote revocation succeeded".   *)
(* From the moment logout() resolves, no refresh token of its sign-in is    *)
(* alive on the server.  (A refresh follows a 401 or precedes the first     *)
(* request, so a logout that crosses one presents an access token that has  *)
(* lapsed, or none: the server refuses it, and logout() does not resolve.)  *)
LogoutIsTrue == \A k \in live : RootOf(k) \notin ended
=============================================================================

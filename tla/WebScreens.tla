----------------------------- MODULE WebScreens -----------------------------
(***************************************************************************)
(* The web application around the session: its router, the forms that sign *)
(* in, register, confirm and recover, the account page, the organizer page *)
(* with its query cache, and the profiles on the server.                   *)
(*                                                                         *)
(* Screens come and go while their requests are on the way.  The session   *)
(* controller appears as what SessionClient shows of it: a snapshot, and   *)
(* an epoch whose end makes every answer to its requests be refused.       *)
(***************************************************************************)
EXTENDS Naturals

CONSTANTS
  Users, Organizers,   \* accounts, and those with the organizer role
  Calls,               \* requests of forms that can be on the way
  Addresses,           \* what returnTo says in an address that is opened
  MaxEdits, MaxSaves,
  None

VARIABLES
  profile,             \* the server's profiles, of accounts and organizers
  session,             \* the snapshot
  place,               \* the router's location
  auth,                \* the AuthPage
  form,                \* ProfilePage or OrganizerForm
  query,               \* the query cache
  call,                \* requests on the way
  asked,               \* history: pages a sign-in is to lead to
  edits, saves         \* bounds

bounds == <<edits, saves>>
vars == <<profile, session, place, auth, form, query, call, asked, bounds>>

AuthKinds == {"login", "register", "verify-email", "forgot-password", "reset-password"}
Protected == {"account", "organizer"}
Destinations == Protected \cup {"events"}
Pages == AuthKinds \cup Destinations
Fields == {"name", "phone"}
Kinds == {"account", "organizer"}

ASSUME ScreensAssumption ==
  /\ Organizers \subseteq Users /\ None \notin Users \cup Pages
  /\ Calls # {} /\ Addresses # {} /\ MaxEdits \in Nat /\ MaxSaves \in Nat

NoProfile == [f \in Fields |-> 0]

Loading == [status |-> "loading", user |-> None, profile |-> NoProfile]
SignedOut == [Loading EXCEPT !.status = "signedOut"]
Authenticated(u) ==
  [status |-> "authenticated", user |-> u, profile |-> profile["account"][u]]

NoQuery == [data |-> None, failed |-> FALSE, fetch |-> "idle", got |-> None]
NoQueries == [u \in Organizers |-> NoQuery]

NoAuth == [token |-> FALSE, done |-> FALSE]

(* History: the fields typed in, and whether the profile that the form      *)
(* compares with was replaced under it.                                    *)
NoForm == [kind |-> "none", values |-> NoProfile, saved |-> FALSE,
           touched |-> {}, shifted |-> FALSE]

(* A request is `mine` while the screen that sent it is mounted, `current`  *)
(* while its epoch lasts; `same` while the snapshot is the one it saw.     *)
Idle == [op |-> "none", user |-> None, mine |-> FALSE, current |-> FALSE,
         same |-> FALSE, answered |-> FALSE, returnTo |-> None, done |-> FALSE,
         body |-> {}, values |-> NoProfile, touched |-> {}, shifted |-> FALSE]

(* safeReturnTo.  Pages stand for paths; None for anything off the site.   *)
(* Mutant: a path of the application is enough.                            *)
AnyReturnTo(p) == IF p \in Pages THEN p ELSE "account"
SafeReturnTo(p) == IF p \in Destinations THEN p ELSE "account"

At(p, r) == [page |-> p, returnTo |-> IF p \in AuthKinds THEN SafeReturnTo(r) ELSE None]

Init ==
  /\ profile = [k \in Kinds |-> [u \in Users |-> NoProfile]]
  /\ session = Loading /\ place = At("events", None)
  /\ auth = NoAuth /\ form = NoForm /\ query = NoQueries
  /\ call = [c \in Calls |-> Idle]
  /\ asked = {} /\ edits = 0 /\ saves = 0

-----------------------------------------------------------------------------
(* Rendering.  A handler leaves the place p, the snapshot s, the cache q,   *)
(* the forms a and f and the requests cs; what is mounted follows.         *)

(* RequireSession and the roles of the route.                              *)
OnOrganizerPage(p, s) == p.page = "organizer" /\ s.user \in Organizers

Succeeded(q) == q.data # None /\ ~q.failed

Open(p, s, q) ==
  CASE p.page = "account" /\ s.user # None -> "account"
    [] OnOrganizerPage(p, s) /\ Succeeded(q[s.user]) -> "organizer"
    [] OTHER -> "none"

(* What the form compares with: the published user, the cached profile.     *)
Base(s, q) == IF s.user \in Organizers /\ Succeeded(q[s.user]) THEN q[s.user].data
              ELSE NoProfile
BaseOf(kind, s, q) == IF kind = "account" THEN s.profile ELSE Base(s, q)

Fetching(q) == [q EXCEPT !.fetch = "sent", !.got = None,
                         !.failed = q.failed /\ q.data # None]

(* useQuery: a page that mounts fetches, one that goes aborts the fetch.    *)
(* SessionProvider: another user's id clears the cache.  Mutant: it stays.  *)
KeepAll(s, q) == q
Cleared(s, q) == IF s.user # session.user THEN NoQueries ELSE q

Queried(p, s, q) ==
  [u \in Organizers |->
     IF OnOrganizerPage(p, s) /\ s.user = u
     THEN IF OnOrganizerPage(place, session) /\ s.user = session.user
          THEN q[u] ELSE Fetching(q[u])
     ELSE [q[u] EXCEPT !.fetch = "idle", !.got = None]]

Fresh(kind, values) == [NoForm EXCEPT !.kind = kind, !.values = values]

(* A request nobody waits for; the server may still handle a PATCH.        *)
Awaited(c) ==
  IF \/ c.mine \/ c.op = "logout"
     \/ c.current /\ c.op \in Kinds \cup {"login"}
     \/ c.op \in Kinds /\ ~c.answered
  THEN c ELSE Idle

Stale(cs) == [c \in Calls |-> [cs[c] EXCEPT !.current = FALSE]]

(* A form that only the answer to its own save fills again stays as it is.  *)
Over(f, base, newBase) ==
  IF f = form /\ newBase # base THEN [f EXCEPT !.shifted = TRUE] ELSE f

Render(p, s, q, a, f, cs) ==
  LET q1 == Queried(p, s, Cleared(s, q))
      open == Open(p, s, q1)
      stays == form.kind = open /\ s.user = session.user /\ p = place
      ended == s.user # session.user
  IN /\ place' = p /\ session' = s /\ query' = q1
     /\ auth' = IF p.page = place.page THEN a ELSE NoAuth
     /\ form' = IF open = "none" THEN NoForm
                ELSE IF stays
                THEN Over(f, BaseOf(open, session, query), BaseOf(open, s, q1))
                ELSE Fresh(open, BaseOf(open, s, q1))
     /\ call' = [c \in Calls |-> Awaited([cs[c] EXCEPT
          !.mine = cs[c].mine /\ IF cs[c].op \in Kinds THEN stays ELSE p.page = place.page,
          !.current = cs[c].current /\ (ended => cs[c].op = "login"),
          !.same = cs[c].same /\ s = session])]

-----------------------------------------------------------------------------
(* The router.                                                             *)

(* AuthPage and RequireSession render <Navigate>.  Mutant: every sign-in    *)
(* leads to the account page.                                              *)
LeadsHome == IF session.user # None /\ place.page \in {"login", "register"}
             THEN "account"
             ELSE IF place.page \in Protected /\ session = SignedOut THEN "login" ELSE None
Leads ==
  CASE place.page \in {"login", "register"} /\ session.user # None -> place.returnTo
    [] place.page \in Protected /\ session = SignedOut -> "login"
    [] OTHER -> None

Redirect ==
  /\ Leads # None
  /\ Render(At(Leads, place.page), session, query, auth, form, call)
  /\ asked' = IF Leads = "login" THEN {place.page} ELSE {}
  /\ UNCHANGED <<profile, bounds>>

(* Every other event finds the redirects done.                             *)
Quiet == Leads = None

Goto(p) == Render(p, session, query, auth, form, call) /\ UNCHANGED <<profile, bounds>>

(* Links of the header and of pages, and Back.                             *)
Visit(p) ==
  /\ Quiet /\ p \in Destinations \ {place.page}
  /\ Goto(At(p, None))
  /\ asked' = {}

(* The header's sign-in link keeps the AuthPage of a login that waits.      *)
HeaderLogin ==
  /\ Quiet /\ session.user = None
  /\ Goto(At("login", place.page))
  /\ asked' = (IF place.page = "login" THEN asked ELSE {})
              \cup {IF place.page \in AuthKinds THEN "account" ELSE place.page}

HeaderRegister ==
  /\ Quiet /\ session.user = None
  /\ Goto(At("register", None))
  /\ asked' = {"account"}

(* auth-links.  Mutant: the destination is not handed on.                  *)
Links(page) ==
  (IF page = "login" THEN {"register", "forgot-password"} ELSE {"login"})
  \cup (IF page # "verify-email" \/ auth.token THEN {"verify-email"} ELSE {})
  \cup (IF page = "reset-password" THEN {"forgot-password"} ELSE {})

AuthLink(kind) ==
  /\ Quiet /\ place.page \in AuthKinds /\ kind \in Links(place.page)
  /\ Render(At(kind, place.returnTo), session, query, NoAuth, form, call)
  /\ UNCHANGED <<profile, asked, bounds>>

(* An address is opened: a bookmark, or a link from an email.  The memory   *)
(* of the page before is gone; what it sent may still arrive.              *)
Load(p, r) ==
  /\ p \in AuthKinds <=> r # None
  /\ place' = At(p, r) /\ session' = Loading
  /\ auth' = [NoAuth EXCEPT !.token = p \in {"verify-email", "reset-password"}]
  /\ form' = NoForm /\ query' = NoQueries
  /\ call' = [c \in Calls |->
       IF call[c].op \in Kinds /\ ~call[c].answered
       THEN [call[c] EXCEPT !.mine = FALSE, !.current = FALSE] ELSE Idle]
  /\ asked' = IF p \in AuthKinds THEN {IF r \in Destinations THEN r ELSE "account"} ELSE {}
  /\ UNCHANGED <<profile, bounds>>

-----------------------------------------------------------------------------
(* The session.                                                            *)

SigningIn == \E c \in Calls : call[c].op = "login" /\ call[c].current

(* initialize(): there is no credential in the memory of a new page.       *)
Initialized ==
  /\ Quiet /\ session = Loading /\ ~SigningIn
  /\ Render(place, SignedOut, query, auth, form, call)
  /\ UNCHANGED <<profile, asked, bounds>>

Logout(c) ==
  /\ Quiet /\ session.user # None /\ \A d \in Calls : call[d].op # "logout"
  /\ call[c] = Idle
  /\ Render(place, SignedOut, query, auth, form,
            [Stale(call) EXCEPT ![c] = [Idle EXCEPT !.op = "logout"]])
  /\ UNCHANGED <<profile, asked, bounds>>

LogoutSettled(c) ==
  /\ Quiet /\ call[c].op = "logout"
  /\ Render(place, session, query, auth, form, [call EXCEPT ![c] = Idle])
  /\ UNCHANGED <<profile, asked, bounds>>

Done(c) == [call EXCEPT ![c] = Idle]

(* A screen disables its form while a request of it is on the way.         *)
Busy == \E c \in Calls : call[c].mine

-----------------------------------------------------------------------------
(* The AuthPage: submit() and what follows its await.                      *)

Login(c, u) ==
  /\ Quiet /\ place.page = "login" /\ ~Busy
  /\ call[c] = Idle
  /\ Render(place, Loading, query, auth, form,
            [Stale(call) EXCEPT ![c] =
               [Idle EXCEPT !.op = "login", !.user = u, !.mine = TRUE,
                            !.current = TRUE, !.returnTo = place.returnTo]])
  /\ UNCHANGED <<profile, asked, bounds>>

(* The form of a login that goes on is left by navigate(), to where its     *)
(* submission found it should lead, or by <Navigate>, which read the        *)
(* location since.  Mutant: a form that is gone navigates too.             *)
LeavesAlways(c) == {At(call[c].returnTo, None)}
Leaves(c) ==
  IF call[c].mine THEN {At(p, None) : p \in {call[c].returnTo, place.returnTo}}
  ELSE {place}

LoginSucceeds(c) ==
  /\ Quiet /\ call[c].op = "login" /\ call[c].current
  /\ \E p \in Leaves(c) :
       /\ Render(p, Authenticated(call[c].user), query, auth, form, Done(c))
       /\ asked' = IF p = place THEN asked ELSE {}
  /\ UNCHANGED <<profile, bounds>>

LoginFails(c) ==
  /\ Quiet /\ call[c].op = "login" /\ call[c].current
  /\ Render(place, SignedOut, query, auth, form, Done(c))
  /\ UNCHANGED <<profile, asked, bounds>>

(* The other forms.  "verify-email" without a token sends another link.    *)
Submit(c) ==
  /\ Quiet /\ place.page \in AuthKinds \ {"login"} /\ ~Busy /\ ~auth.done
  /\ place.page = "reset-password" => auth.token
  /\ call[c] = Idle
  /\ Render(place, session, query, [auth EXCEPT !.done = FALSE], form,
            [call EXCEPT ![c] =
               [Idle EXCEPT !.op = "submit", !.mine = TRUE, !.same = TRUE,
                            !.done = \/ place.page \in {"register", "reset-password"}
                                     \/ place.page = "verify-email" /\ auth.token]])
  /\ UNCHANGED <<profile, asked, bounds>>

(* A new password ends the session that its form was submitted in.         *)
Submitted(c) ==
  /\ Quiet /\ call[c].op = "submit"
  /\ LET out == place.page = "reset-password" /\ call[c].same
     IN Render(place, IF out THEN SignedOut ELSE session, query,
               [auth EXCEPT !.done = call[c].done], form,
               IF out THEN [Stale(call) EXCEPT ![c] = Idle] ELSE Done(c))
  /\ UNCHANGED <<profile, asked, bounds>>

SubmitFails(c) ==
  /\ Quiet /\ call[c].op = "submit"
  /\ Render(place, session, query, auth, form, Done(c))
  /\ UNCHANGED <<profile, asked, bounds>>

-----------------------------------------------------------------------------
(* ProfilePage and OrganizerForm.                                          *)

Type(f) ==
  /\ Quiet /\ form.kind # "none" /\ ~Busy /\ edits < MaxEdits
  /\ edits' = edits + 1
  /\ form' = [form EXCEPT !.values[f] = edits + 1, !.touched = @ \cup {f},
                         !.saved = FALSE]
  /\ UNCHANGED <<profile, session, place, auth, query, call, asked, saves>>

Body(values, base) == {f \in Fields : values[f] # base[f]}
Only(fields, values) == [f \in Fields |-> IF f \in fields THEN values[f] ELSE 0]

Save(c) ==
  LET body == Body(form.values, BaseOf(form.kind, session, query)) IN
  /\ Quiet /\ form.kind # "none" /\ ~Busy /\ call[c] = Idle /\ saves < MaxSaves
  /\ saves' = saves + 1
  /\ Render(place, session, query, auth, [form EXCEPT !.saved = FALSE],
            [call EXCEPT ![c] =
               [Idle EXCEPT !.op = form.kind, !.user = session.user, !.mine = TRUE,
                            !.current = TRUE, !.body = body,
                            !.values = Only(body, form.values),
                            !.touched = form.touched, !.shifted = form.shifted]])
  /\ UNCHANGED <<profile, asked, edits>>

(* PATCH /me and PATCH /organizers/me on the server.                       *)
Written(c) ==
  [f \in Fields |-> IF f \in call[c].body THEN call[c].values[f]
                    ELSE profile[call[c].op][call[c].user][f]]

HandlePatch(c) ==
  /\ Quiet /\ call[c].op \in Kinds /\ ~call[c].answered
  /\ profile' = [profile EXCEPT ![call[c].op][call[c].user] = Written(c)]
  /\ Render(place, session, query, auth, form,
            [call EXCEPT ![c] = [@ EXCEPT !.answered = TRUE, !.values = Written(c),
                                          !.body = {}, !.touched = {}, !.shifted = FALSE]])
  /\ UNCHANGED <<asked, bounds>>

Stored(c) ==
  IF call[c].mine
  THEN [form EXCEPT !.values = call[c].values, !.saved = TRUE,
                    !.touched = {}, !.shifted = FALSE]
  ELSE form

Succeeds(c, kind) ==
  Quiet /\ call[c].op = kind /\ call[c].answered /\ call[c].current

(* updateUser(); an answer of another epoch never gets here.               *)
AccountSaved(c) ==
  /\ Succeeds(c, "account")
  /\ Render(place, [session EXCEPT !.profile = call[c].values], query, auth,
            Stored(c), Done(c))
  /\ UNCHANGED <<profile, asked, bounds>>

(* cache.setQueryData().  Mutant: the cache is left as it was.             *)
KeepCached(q, u, values) == q
Cached(q, u, values) == [q EXCEPT ![u].data = values, ![u].failed = FALSE]

OrganizerSaved(c) ==
  /\ Succeeds(c, "organizer")
  /\ Render(place, session, Cached(query, call[c].user, call[c].values), auth,
            Stored(c), Done(c))
  /\ UNCHANGED <<profile, asked, bounds>>

(* Refused, or lost either way; or the sign-in could not be recovered.     *)
SaveFails(c) ==
  /\ Quiet /\ call[c].op \in Kinds
  /\ \/ Render(place, session, query, auth, form, Done(c))
     \/ /\ call[c].current /\ ~call[c].answered
        /\ Render(place, SignedOut, query, auth, form, [Stale(call) EXCEPT ![c] = Idle])
  /\ UNCHANGED <<profile, asked, bounds>>

(* Another tab or device of the user saves a field.                        *)
Elsewhere(k, u, f) ==
  /\ k = "organizer" => u \in Organizers
  /\ Quiet /\ edits < MaxEdits
  /\ edits' = edits + 1
  /\ profile' = [profile EXCEPT ![k][u][f] = edits + 1]
  /\ UNCHANGED <<session, place, auth, form, query, call, asked, saves>>

-----------------------------------------------------------------------------
(* The query of the organizer page.                                        *)

Fetches(u, phases) == Quiet /\ session.user = u /\ query[u].fetch \in phases

(* The window gets the focus back, or the retry button is pressed.         *)
Refetch(u) ==
  /\ Fetches(u, {"idle"}) /\ OnOrganizerPage(place, session)
  /\ Render(place, session, [query EXCEPT ![u] = Fetching(@)], auth, form, call)
  /\ UNCHANGED <<profile, asked, bounds>>

FetchRead(u) ==
  /\ Fetches(u, {"sent"})
  /\ Render(place, session,
            [query EXCEPT ![u].fetch = "read", ![u].got = profile["organizer"][u]],
            auth, form, call)
  /\ UNCHANGED <<profile, asked, bounds>>

Fetched(u) ==
  /\ Fetches(u, {"read"})
  /\ Render(place, session, [query EXCEPT ![u] = [NoQuery EXCEPT !.data = query[u].got]],
            auth, form, call)
  /\ UNCHANGED <<profile, asked, bounds>>

(* A failure keeps the data, and the page shows the failure instead.       *)
FetchFails(u) ==
  /\ Fetches(u, {"sent", "read"})
  /\ \/ Render(place, session,
               [query EXCEPT ![u] = [NoQuery EXCEPT !.data = query[u].data, !.failed = TRUE]],
               auth, form, call)
     \/ Render(place, SignedOut, query, auth, form, Stale(call))
  /\ UNCHANGED <<profile, asked, bounds>>

-----------------------------------------------------------------------------
Next ==
  \/ Redirect \/ HeaderLogin \/ HeaderRegister \/ Initialized
  \/ \E p \in Destinations : Visit(p)
  \/ \E k \in AuthKinds : AuthLink(k)
  \/ \E p \in Pages, r \in Addresses \cup {None} : Load(p, r)
  \/ \E f \in Fields : Type(f)
  \/ \E k \in Kinds, u \in Users, f \in Fields : Elsewhere(k, u, f)
  \/ \E c \in Calls :
       \/ Logout(c) \/ LogoutSettled(c)
       \/ \E u \in Users : Login(c, u)
       \/ LoginSucceeds(c) \/ LoginFails(c)
       \/ Submit(c) \/ Submitted(c) \/ SubmitFails(c)
       \/ Save(c) \/ HandlePatch(c) \/ AccountSaved(c) \/ OrganizerSaved(c)
       \/ SaveFails(c)
  \/ \E u \in Organizers : Refetch(u) \/ FetchRead(u) \/ Fetched(u) \/ FetchFails(u)

Spec == Init /\ [][Next]_vars

-----------------------------------------------------------------------------
(* Properties.                                                             *)

Profiles == [Fields -> 0 .. MaxEdits]
CallRecords ==
  [op : Kinds \cup {"none", "login", "logout", "submit"}, user : Users \cup {None},
   mine : BOOLEAN, current : BOOLEAN, same : BOOLEAN, answered : BOOLEAN,
   returnTo : Destinations \cup {None}, done : BOOLEAN, body : SUBSET Fields,
   values : Profiles, touched : SUBSET Fields, shifted : BOOLEAN]

(* Every variable keeps its shape; a request is `mine` only on the screen   *)
(* it was sent from, and only the user who is signed in has its answers.    *)
TypeOK ==
  /\ profile \in [Kinds -> [Users -> Profiles]]
  /\ session \in [status : {"loading", "signedOut", "authenticated"},
                  user : Users \cup {None}, profile : Profiles]
  /\ place \in [page : Pages, returnTo : Destinations \cup {None}]
  /\ auth \in [token : BOOLEAN, done : BOOLEAN]
  /\ form \in [kind : Kinds \cup {"none"}, values : Profiles,
               saved : BOOLEAN, touched : SUBSET Fields, shifted : BOOLEAN]
  /\ query \in [Organizers -> [data : Profiles \cup {None}, failed : BOOLEAN,
                               fetch : {"idle", "sent", "read"},
                               got : Profiles \cup {None}]]
  /\ call \in [Calls -> CallRecords]
  /\ asked \subseteq Destinations
  /\ edits \in 0 .. MaxEdits /\ saves \in 0 .. MaxSaves
  /\ \A c \in Calls : call[c].mine =>
       call[c].op = form.kind \/ (place.page \in AuthKinds /\ call[c].op \notin Kinds)
  /\ \A c \in Calls : call[c].op \in Kinds /\ call[c].current =>
       call[c].user = session.user

(* "absence of private cached data after logout/account change"            *)
(* (FRONTEND_PLAN.md): what the query cache holds belongs to the user who   *)
(* is signed in, whatever answers arrive after another sign-in.            *)
OwnData ==
  \A u \in Organizers \ {session.user} : query[u].data = None

(* "Delayed auth-form continuations do not redirect an abandoned form"      *)
(* (F1_CHECKLIST.md): when a sign-in ends, the user is moved from the form  *)
(* that was waiting for it, and from no other screen.                      *)
AbandonedFormsStayQuiet ==
  [][session' # session /\ session' # Loading /\ place' # place
       => place.page = "login" /\ \E c \in Calls : call[c].op = "login" /\ call[c].mine]_vars

(* "Authenticated visits to login/register redirect to the safe             *)
(* destination" (F1_CHECKLIST.md): a sign-in leads to a page the user had   *)
(* asked for before it, through any number of auth pages in between.       *)
SignInLeadsBack ==
  [][session'.user # None /\ place.page \in {"login", "register"} /\ place' # place
       => place'.page \in asked]_vars

(* "PATCH sends changed fields only" (F1_CHECKLIST.md): saving a form       *)
(* changes no field that was not typed in it, whatever other sessions and   *)
(* abandoned forms have saved, and in whatever order the answers came.      *)
(* Except when the profile it compares with was replaced under it: by a     *)
(* refetch, or by the answer to a form that was left.  Then its untouched   *)
(* fields count as changed, and the save puts them back.                   *)
NothingReverted ==
  [][profile' # profile /\ edits' = edits
     => \E c \in Calls :
          /\ call[c].op \in Kinds /\ ~call[c].answered /\ call'[c] # call[c]
          /\ \A k \in Kinds, u \in Users, f \in Fields :
               profile'[k][u][f] # profile[k][u][f] =>
                 /\ k = call[c].op /\ u = call[c].user
                 /\ f \in call[c].touched \/ call[c].shifted]_vars
=============================================================================

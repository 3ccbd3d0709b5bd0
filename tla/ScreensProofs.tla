--------------------------- MODULE ScreensProofs ---------------------------
(***************************************************************************)
(* Theorems about WebScreens, for any number of users and requests.        *)
(* Everything rests on two lemmas about Render: what it is given decides   *)
(* what is mounted, cached and still awaited (RenderMounts), and whether    *)
(* forms and requests hold what was typed (RenderTyped).                   *)
(***************************************************************************)
EXTENDS WebScreens, TLAPS

Places == [page : Pages, returnTo : Destinations \cup {None}]
Sessions == [status : {"loading", "signedOut", "authenticated"},
             user : Users \cup {None}, profile : Profiles]
Auths == [token : BOOLEAN, done : BOOLEAN]
Forms == [kind : Kinds \cup {"none"}, values : Profiles,
          saved : BOOLEAN, touched : SUBSET Fields, shifted : BOOLEAN]
Queries == [Organizers -> [data : Profiles \cup {None}, failed : BOOLEAN,
                           fetch : {"idle", "sent", "read"},
                           got : Profiles \cup {None}]]

(* An auth page knows where it leads.                                      *)
PlaceOK(p) == p \in Places /\ (p.page \in AuthKinds => p.returnTo \in Destinations)

(* Nothing is cached for anybody but the user of s.                        *)
Private(s, q) == \A u \in Organizers \ {s.user} : q[u].data = None

(* A request that is `mine` belongs to what is mounted, one that is         *)
(* `current` to the user who is signed in.                                 *)
CallOK(r, kind, page, user) ==
  /\ r \in CallRecords
  /\ r.answered => r.op \in Kinds
  /\ r.op \in Kinds \cup {"login"} => r.user \in Users
  /\ r.op = "login" => r.returnTo \in Destinations
  /\ r.mine /\ r.op \in Kinds => r.op = kind
  /\ r.mine /\ r.op \notin Kinds => page \in AuthKinds
  /\ r.mine /\ r.op = "login" => page = "login"
  /\ r.op \in Kinds /\ r.current => r.user = user

(* Sign-in leads to a page that was asked for.                             *)
PlaceAsked(p, pages) == p.page \in AuthKinds => p.returnTo \in pages
CallAsked(r, pages) == r.mine /\ r.op = "login" => r.returnTo \in pages

Counted ==
  /\ profile \in [Kinds -> [Users -> Profiles]]
  /\ asked \subseteq Destinations
  /\ edits \in 0 .. MaxEdits /\ saves \in 0 .. MaxSaves

Mounted ==
  /\ session \in Sessions /\ PlaceOK(place)
  /\ auth \in Auths /\ form \in Forms /\ (form.kind # "none" => session.user # None)
  /\ query \in Queries /\ Private(session, query)
  /\ DOMAIN call = Calls /\ call = [c \in Calls |-> call[c]]
  /\ \A c \in Calls : CallOK(call[c], form.kind, place.page, session.user)

Asked == PlaceAsked(place, asked) /\ \A c \in Calls : CallAsked(call[c], asked)

Inv == Counted /\ Mounted /\ Asked

-----------------------------------------------------------------------------
LEMMA IdleOK ==
  ASSUME ScreensAssumption, NEW kind, NEW page, NEW user
  PROVE  /\ NoProfile \in Profiles /\ CallOK(Idle, kind, page, user)
         /\ \A pages : CallAsked(Idle, pages)
         /\ NoForm \in Forms /\ NoAuth \in Auths /\ NoQueries \in Queries
         /\ Loading \in Sessions /\ SignedOut \in Sessions
         /\ Loading.user = None /\ SignedOut.user = None /\ NoForm.kind = "none"
BY SMT DEF ScreensAssumption, NoProfile, Profiles, Idle, CallOK, CallRecords, CallAsked,
   NoForm, Forms, NoAuth, Auths, NoQueries, NoQuery, Queries, Loading, SignedOut,
   Sessions, Fields, Kinds, Destinations, Protected

LEMMA InitInv == ScreensAssumption /\ Init => Inv
<1> SUFFICES ASSUME ScreensAssumption, Init PROVE Inv
  OBVIOUS
<1>1. Counted
  BY IdleOK DEF ScreensAssumption, Init, Counted, Kinds
<1>2. PlaceOK(place) /\ place.page \notin AuthKinds
  BY DEF Init, At, PlaceOK, Places, Pages, AuthKinds, Destinations, Protected
<1>3. Private(session, query)
  BY DEF Init, Private, NoQueries, NoQuery
<1> QED BY <1>1, <1>2, <1>3, IdleOK DEF Init, Inv, Mounted, Asked, PlaceAsked

-----------------------------------------------------------------------------
(* What Render is given by a handler.                                      *)
Rendered(p, s, q, a, f, cs) ==
  /\ PlaceOK(p) /\ s \in Sessions /\ a \in Auths
  /\ f \in Forms /\ f.kind = form.kind
  /\ q \in Queries /\ Private(session, q)
  /\ \A c \in Calls : CallOK(cs[c], form.kind, place.page, session.user)

RenderedAsked(p, cs, pages) ==
  /\ PlaceAsked(p, pages)
  /\ p.page = place.page => \A c \in Calls : CallAsked(cs[c], pages)

(* The cache stays well formed, and holds what belongs to the user of s.   *)
Query == [data : Profiles \cup {None}, failed : BOOLEAN,
          fetch : {"idle", "sent", "read"}, got : Profiles \cup {None}]

LEMMA FetchingOK ==
  ASSUME NEW x \in Query
  PROVE  /\ Fetching(x) \in Query /\ Fetching(x).data = x.data
         /\ [x EXCEPT !.fetch = "idle", !.got = None] \in Query
         /\ [x EXCEPT !.fetch = "idle", !.got = None].data = x.data
<1>1. (x.failed /\ x.data # None) \in BOOLEAN
  OBVIOUS
<1>2. \A b \in BOOLEAN :
        /\ [x EXCEPT !.fetch = "sent", !.got = None, !.failed = b] \in Query
        /\ [x EXCEPT !.fetch = "sent", !.got = None, !.failed = b].data = x.data
  BY DEF Query
<1>3. Fetching(x) \in Query /\ Fetching(x).data = x.data
  BY <1>1, <1>2, Zenon DEF Fetching
<1> QED BY <1>3 DEF Query

LEMMA QueriedOK ==
  ASSUME ScreensAssumption, NEW p, NEW s, NEW q \in Queries, Private(session, q)
  PROVE  /\ Queried(p, s, Cleared(s, q)) \in Queries
         /\ Private(s, Queried(p, s, Cleared(s, q)))
<1> DEFINE q0 == Cleared(s, q)
           q1 == Queried(p, s, q0)
<1>1. q0 \in Queries /\ Private(s, q0)
  <2>1. CASE s.user # session.user
    BY <2>1, IdleOK DEF Cleared, Private, NoQueries, NoQuery
  <2>2. CASE s.user = session.user
    BY <2>2 DEF Cleared, Private
  <2> QED BY <2>1, <2>2
<1>2. Queries = [Organizers -> Query]
  BY DEF Queries, Query
<1> HIDE DEF q0
<1>3. ASSUME NEW u \in Organizers
      PROVE  q1[u] \in Query /\ q1[u].data = q0[u].data
  <2>1. q0[u] \in Query
    BY <1>1, <1>2
  <2>2. q1[u] \in {q0[u], Fetching(q0[u]), [q0[u] EXCEPT !.fetch = "idle", !.got = None]}
    BY DEF Queried
  <2> QED BY <2>1, <2>2, FetchingOK
<1>4. q1 = [u \in Organizers |-> q1[u]]
  BY DEF Queried
<1>5. q1 \in Queries
  <2> HIDE DEF q1
  <2> QED BY <1>2, <1>3, <1>4
<1>6. Private(s, q1)
  <2> HIDE DEF q1
  <2> QED BY <1>1, <1>3 DEF Private
<1> QED BY <1>5, <1>6 DEF q0

LEMMA OpenOK ==
  ASSUME ScreensAssumption, NEW p, NEW s \in Sessions, NEW q \in Queries
  PROVE  /\ Open(p, s, q) \in Kinds \cup {"none"}
         /\ \A k \in Kinds : Fresh(k, BaseOf(k, s, q)) \in Forms
                            /\ Fresh(k, BaseOf(k, s, q)).kind = k
<1>1. Open(p, s, q) \in Kinds \cup {"none"}
  BY DEF Open, Kinds
<1>2. ASSUME NEW k \in Kinds
      PROVE  BaseOf(k, s, q) \in Profiles
  BY IdleOK DEF BaseOf, Base, Succeeded, Sessions, Queries
<1>3. ASSUME NEW k \in Kinds, NEW v \in Profiles
      PROVE  Fresh(k, v) \in Forms /\ Fresh(k, v).kind = k
  BY IdleOK DEF Fresh, NoForm, Forms
<1> QED BY <1>1, <1>2, <1>3

(* What is mounted after a handler follows from what it gave to Render.     *)
LEMMA RenderMounts ==
  ASSUME ScreensAssumption, Mounted, NEW p, NEW s, NEW q, NEW a, NEW f, NEW cs,
         Render(p, s, q, a, f, cs), Rendered(p, s, q, a, f, cs)
  PROVE  Mounted' /\ place' = p /\ session' = s
<1> DEFINE q1 == Queried(p, s, Cleared(s, q))
           open == Open(p, s, q1)
           stays == form.kind = open /\ s.user = session.user /\ p = place
           sent(c) == [cs[c] EXCEPT
             !.mine = cs[c].mine /\ IF cs[c].op \in Kinds THEN stays
                                    ELSE p.page = place.page,
             !.current = cs[c].current /\ (s.user # session.user => cs[c].op = "login"),
             !.same = cs[c].same /\ s = session]
<1>1. /\ place' = p /\ session' = s /\ query' = q1
      /\ auth' = IF p.page = place.page THEN a ELSE NoAuth
      /\ form' = IF open = "none" THEN NoForm
                 ELSE IF stays
                 THEN Over(f, BaseOf(open, session, query), BaseOf(open, s, q1))
                 ELSE Fresh(open, BaseOf(open, s, q1))
      /\ call' = [c \in Calls |-> Awaited(sent(c))]
  BY Zenon DEF Render
<1>2. q1 \in Queries /\ Private(s, q1)
  BY QueriedOK, Zenon DEF Rendered
<1>3. open \in Kinds \cup {"none"}
  BY <1>2, OpenOK, Zenon DEF Rendered
<1>3a. open # "none" => s.user # None
  BY Zenon DEF Open, OnOrganizerPage, ScreensAssumption
<1>4. form' \in Forms /\ form'.kind = open
  <2>1. CASE open = "none"
    BY <1>1, <2>1, IdleOK DEF NoForm
  <2>2. CASE open # "none" /\ stays
    <3>1. form' \in {f, [f EXCEPT !.shifted = TRUE]}
      BY <1>1, <2>2, Zenon DEF Over
    <3>2. f \in Forms /\ f.kind = open
      BY <2>2 DEF Rendered
    <3> QED BY <3>1, <3>2 DEF Forms
  <2>3. CASE open # "none" /\ ~stays
    BY <1>1, <1>2, <1>3, <2>3, OpenOK, Zenon DEF Rendered
  <2> QED BY <2>1, <2>2, <2>3
<1> HIDE DEF q1, open
<1>5. ASSUME NEW c \in Calls
      PROVE  CallOK(call'[c], form'.kind, place'.page, session'.user)
  <2> DEFINE r == cs[c]
             m == r.mine /\ IF r.op \in Kinds THEN stays ELSE p.page = place.page
             u == r.current /\ (s.user # session.user => r.op = "login")
             e == r.same /\ s = session
  <2>1. CallOK(r, form.kind, place.page, session.user)
    BY DEF Rendered
  <2>2. m \in BOOLEAN /\ u \in BOOLEAN /\ e \in BOOLEAN
    BY <2>1 DEF CallOK, CallRecords
  <2>3. stays => form'.kind = form.kind
    BY <1>4
  <2>4. CallOK([r EXCEPT !.mine = m, !.current = u, !.same = e], form'.kind, p.page, s.user)
    <3>1. /\ m => r.mine /\ IF r.op \in Kinds THEN stays ELSE p.page = place.page
          /\ u => r.current /\ (s.user # session.user => r.op = "login")
      OBVIOUS
    <3> HIDE DEF m, u, e, r, stays
    <3>2. /\ m /\ r.op \in Kinds => r.op = form'.kind
          /\ m /\ r.op \notin Kinds => p.page \in AuthKinds
          /\ m /\ r.op = "login" => p.page = "login"
          /\ r.op \in Kinds /\ u => r.user = s.user
      BY <2>1, <2>3, <3>1 DEF CallOK, Kinds
    <3> QED BY <2>1, <2>2, <3>2 DEF CallOK, CallRecords
  <2>5. sent(c) = [r EXCEPT !.mine = m, !.current = u, !.same = e]
    OBVIOUS
  <2>6. call'[c] \in {sent(c), Idle}
    BY <1>1 DEF Awaited
  <2> HIDE DEF m, u, e, r, sent
  <2> QED BY <1>1, <2>4, <2>5, <2>6, IdleOK
<1> QED
  BY <1>1, <1>2, <1>4, <1>3a, <1>5, IdleOK DEF Mounted, Rendered

LEMMA RenderAsks ==
  ASSUME ScreensAssumption, NEW p, NEW s, NEW q, NEW a, NEW f, NEW cs,
         Render(p, s, q, a, f, cs), Rendered(p, s, q, a, f, cs),
         RenderedAsked(p, cs, asked')
  PROVE  Asked'
<1>1. place' = p
  BY Zenon DEF Render
<1>2. ASSUME NEW c \in Calls
      PROVE  CallAsked(call'[c], asked')
  <2> DEFINE stays == /\ form.kind = Open(p, s, Queried(p, s, Cleared(s, q)))
                      /\ s.user = session.user /\ p = place
             r == [cs[c] EXCEPT
               !.mine = cs[c].mine /\ IF cs[c].op \in Kinds THEN stays
                                      ELSE p.page = place.page,
               !.current = cs[c].current /\ (s.user # session.user => cs[c].op = "login"),
               !.same = cs[c].same /\ s = session]
  <2>1. call'[c] = Awaited(r)
    <3>1. call' = [d \in Calls |-> Awaited([cs[d] EXCEPT
               !.mine = cs[d].mine /\ IF cs[d].op \in Kinds THEN stays
                                      ELSE p.page = place.page,
               !.current = cs[d].current /\ (s.user # session.user => cs[d].op = "login"),
               !.same = cs[d].same /\ s = session])]
      BY Zenon DEF Render
    <3> HIDE DEF stays
    <3> QED BY <3>1
  <2>2. call'[c] \in {r, Idle}
    BY <2>1, Zenon DEF Awaited
  <2>3. cs[c] \in CallRecords
    BY DEF Rendered, CallOK
  <2>4. CallAsked(r, asked')
    <3> HIDE DEF stays
    <3>1. r.op = cs[c].op /\ r.returnTo = cs[c].returnTo
      BY <2>3 DEF CallRecords
    <3>2. r.mine => cs[c].mine /\ (cs[c].op \notin Kinds => p.page = place.page)
      BY <2>3 DEF CallRecords
    <3> QED BY <3>1, <3>2 DEF RenderedAsked, CallAsked, Kinds
  <2> HIDE DEF r
  <2> QED BY <2>2, <2>4, IdleOK
<1> QED BY <1>1, <1>2 DEF Asked, RenderedAsked

(* A handler that leaves the user where he is.                             *)
LEMMA StaysPut ==
  ASSUME ScreensAssumption, Inv, NEW s \in Sessions, NEW q \in Queries, NEW a \in Auths,
         NEW f \in Forms, NEW cs, Private(session, q), f.kind = form.kind,
         \A c \in Calls : /\ CallOK(cs[c], form.kind, place.page, session.user)
                          /\ CallAsked(cs[c], asked),
         Render(place, s, q, a, f, cs), asked' = asked, Counted'
  PROVE  Inv' /\ place' = place /\ session' = s
<1>1. Rendered(place, s, q, a, f, cs)
  BY DEF Rendered, Inv, Mounted
<1>2. RenderedAsked(place, cs, asked')
  BY DEF RenderedAsked, Inv, Asked
<1> QED BY <1>1, <1>2, RenderMounts, RenderAsks DEF Inv

(* A handler that takes the user to another page.                          *)
LEMMA TakesTo ==
  ASSUME ScreensAssumption, Inv, NEW p, PlaceOK(p), NEW s \in Sessions, NEW a \in Auths,
         NEW cs, \A c \in Calls : CallOK(cs[c], form.kind, place.page, session.user),
         Render(p, s, query, a, form, cs), RenderedAsked(p, cs, asked'), Counted'
  PROVE  Inv' /\ place' = p /\ session' = s
<1>1. Rendered(p, s, query, a, form, cs)
  BY DEF Rendered, Inv, Mounted
<1> QED BY <1>1, RenderMounts, RenderAsks DEF Inv

LEMMA AtOK ==
  ASSUME ScreensAssumption, NEW p \in Pages, NEW r
  PROVE  /\ PlaceOK(At(p, r)) /\ At(p, r).page = p
         /\ p \in AuthKinds => At(p, r).returnTo = SafeReturnTo(r)
         /\ SafeReturnTo(r) \in Destinations
         /\ r \in Destinations => SafeReturnTo(r) = r
BY DEF PlaceOK, Places, At, SafeReturnTo, Pages, Destinations, Protected

(* Where requests stand: untouched, of an epoch that ended, or answered.    *)
LEMMA CallsOK ==
  ASSUME ScreensAssumption, Inv, NEW c \in Calls
  PROVE  /\ call[c] \in CallRecords
         /\ CallOK(call[c], form.kind, place.page, session.user)
         /\ CallAsked(call[c], asked)
         /\ CallOK(Stale(call)[c], form.kind, place.page, session.user)
         /\ CallAsked(Stale(call)[c], asked)
<1>1. CallOK(call[c], form.kind, place.page, session.user) /\ CallAsked(call[c], asked)
  BY DEF Inv, Mounted, Asked
<1> QED BY <1>1 DEF Stale, CallOK, CallAsked, CallRecords

(* One request is replaced, in the calls as they are or in stale ones.      *)
LEMMA OneCallOK ==
  ASSUME ScreensAssumption, Inv, NEW c \in Calls, NEW r,
         CallOK(r, form.kind, place.page, session.user), CallAsked(r, asked)
  PROVE  \A d \in Calls :
           /\ CallOK([call EXCEPT ![c] = r][d], form.kind, place.page, session.user)
           /\ CallAsked([call EXCEPT ![c] = r][d], asked)
           /\ CallOK([Stale(call) EXCEPT ![c] = r][d], form.kind, place.page, session.user)
           /\ CallAsked([Stale(call) EXCEPT ![c] = r][d], asked)
<1> SUFFICES ASSUME NEW d \in Calls
    PROVE /\ CallOK([call EXCEPT ![c] = r][d], form.kind, place.page, session.user)
          /\ CallAsked([call EXCEPT ![c] = r][d], asked)
          /\ CallOK([Stale(call) EXCEPT ![c] = r][d], form.kind, place.page, session.user)
          /\ CallAsked([Stale(call) EXCEPT ![c] = r][d], asked)
  OBVIOUS
<1>1. DOMAIN call = Calls /\ DOMAIN Stale(call) = Calls
  BY DEF Inv, Mounted, Stale
<1>2. [call EXCEPT ![c] = r][d] \in {r, call[d]}
  BY <1>1
<1>3. [Stale(call) EXCEPT ![c] = r][d] \in {r, Stale(call)[d]}
  BY <1>1
<1> QED BY <1>2, <1>3, CallsOK

-----------------------------------------------------------------------------
(* What a step keeps, and where it may take the user.                      *)
QuietMove ==
  session' # session /\ session' # Loading /\ place' # place
  => place.page = "login" /\ \E c \in Calls : call[c].op = "login" /\ call[c].mine

BackMove ==
  session'.user # None /\ place.page \in {"login", "register"} /\ place' # place
  => place'.page \in asked

Step == Inv' /\ QuietMove /\ BackMove

LEMMA StaysStep ==
  ASSUME Inv', place' = place
  PROVE  Step
BY DEF Step, QuietMove, BackMove

LEMMA CountedKept ==
  ASSUME Inv, UNCHANGED <<profile, bounds>>
  PROVE  asked' \subseteq Destinations => Counted'
BY DEF Inv, Counted, bounds

LEMMA AskedKept ==
  ASSUME Inv, UNCHANGED <<profile, asked, bounds>>
  PROVE  Counted'
BY DEF Inv, Counted, bounds

(* A user who is signed in does not stay on login or register.             *)
LEMMA QuietOK ==
  ASSUME ScreensAssumption, Inv, Quiet, place.page \in {"login", "register"}
  PROVE  session.user = None
<1> SUFFICES ASSUME session.user # None PROVE FALSE
  OBVIOUS
<1>1. Leads = place.returnTo
  <2>1. place.page \notin Protected
    BY DEF Protected
  <2> QED BY <2>1, Zenon DEF Leads
<1>2. place.returnTo \in Destinations
  BY DEF Inv, Mounted, PlaceOK, AuthKinds
<1> QED BY <1>1, <1>2 DEF Quiet, ScreensAssumption, Pages

LEMMA RedirectStep == ASSUME ScreensAssumption, Inv, Redirect PROVE Step
<1>1. CASE place.page \in {"login", "register"} /\ session.user # None
  <2>1. Leads = place.returnTo
    <3>1. place.page \notin Protected
      BY <1>1 DEF Protected
    <3> QED BY <1>1, <3>1, Zenon DEF Leads
  <2>2. place.returnTo \in Destinations /\ place.returnTo \in asked
    BY <1>1 DEF Inv, Mounted, PlaceOK, Asked, PlaceAsked, AuthKinds
  <2> DEFINE p == At(Leads, place.page)
  <2>3. PlaceOK(p) /\ p.page = place.returnTo
    BY <2>1, <2>2, AtOK DEF Pages
  <2>4. asked' = {} /\ RenderedAsked(p, call, asked')
    BY <1>1, <2>1, <2>2, <2>3
    DEF Redirect, RenderedAsked, PlaceAsked, Destinations, Protected, AuthKinds
  <2>5. Render(p, session, query, auth, form, call) /\ Counted'
    BY <2>4, CountedKept DEF Redirect
  <2>6. Inv' /\ place' = p /\ session' = session
    <3> HIDE DEF p
    <3> QED BY <2>3, <2>4, <2>5, TakesTo, CallsOK DEF Inv, Mounted
  <2> QED BY <2>2, <2>3, <2>6 DEF Step, QuietMove, BackMove
<1>2. CASE place.page \in Protected /\ session = SignedOut
  <2>1. Leads = "login" /\ place.page \notin AuthKinds /\ place.page \in Destinations
    BY <1>2, Zenon, IdleOK DEF Leads, Protected, AuthKinds, Destinations
  <2> DEFINE p == At("login", place.page)
  <2>2. PlaceOK(p) /\ p.page = "login" /\ p.returnTo = place.page
    BY <2>1, AtOK DEF Pages, AuthKinds
  <2>3. asked' = {place.page} /\ RenderedAsked(p, call, asked')
    BY <1>2, <2>1, <2>2
    DEF Redirect, RenderedAsked, PlaceAsked, Protected, AuthKinds
  <2>4. Render(p, session, query, auth, form, call) /\ Counted'
    BY <2>1, <2>3, CountedKept DEF Redirect
  <2>5. Inv' /\ place' = p /\ session' = session
    <3> HIDE DEF p
    <3> QED BY <2>2, <2>3, <2>4, TakesTo, CallsOK DEF Inv, Mounted
  <2> QED BY <1>2, <2>5 DEF Step, QuietMove, BackMove, Protected
<1> QED
  <2>1. ~(place.page \in {"login", "register"} /\ session.user # None)
        /\ ~(place.page \in Protected /\ session = SignedOut) => Leads = None
    BY Zenon DEF Leads
  <2> QED BY <1>1, <1>2, <2>1 DEF Redirect

LEMMA VisitStep ==
  ASSUME ScreensAssumption, Inv, NEW d \in Destinations, Visit(d) PROVE Step
<1> DEFINE p == At(d, None)
<1>1. PlaceOK(p) /\ p.page = d /\ d \notin AuthKinds /\ d # place.page
  BY AtOK DEF Pages, Visit, AuthKinds, Destinations, Protected
<1>2. asked' = {} /\ RenderedAsked(p, call, asked')
  BY <1>1 DEF Visit, RenderedAsked, PlaceAsked
<1>3. Render(p, session, query, auth, form, call) /\ Counted'
  BY <1>2, CountedKept DEF Visit, Goto
<1>4. Inv' /\ place' = p /\ session' = session
  <2> HIDE DEF p
  <2> QED BY <1>1, <1>2, <1>3, TakesTo, CallsOK DEF Inv, Mounted
<1> QED BY <1>4, QuietOK DEF Visit, Step, QuietMove, BackMove

LEMMA HeaderLoginStep == ASSUME ScreensAssumption, Inv, HeaderLogin PROVE Step
<1> DEFINE p == At("login", place.page)
<1>1. PlaceOK(p) /\ p.page = "login" /\ p.returnTo = SafeReturnTo(place.page)
  BY AtOK DEF Pages, AuthKinds
<1>2. SafeReturnTo(place.page) = IF place.page \in AuthKinds THEN "account" ELSE place.page
  BY DEF SafeReturnTo, Inv, Mounted, PlaceOK, Places, Pages, AuthKinds, Destinations, Protected
<1>3. /\ p.returnTo \in asked' /\ asked' \subseteq Destinations
      /\ place.page = "login" => asked \subseteq asked'
  BY <1>1, <1>2, AtOK DEF HeaderLogin, Inv, Counted, Pages, AuthKinds
<1>4. RenderedAsked(p, call, asked')
  BY <1>1, <1>3, CallsOK DEF RenderedAsked, PlaceAsked, CallAsked
<1>5. Render(p, session, query, auth, form, call) /\ Counted'
  BY <1>3, CountedKept DEF HeaderLogin, Goto
<1>6. Inv' /\ place' = p /\ session' = session
  <2> HIDE DEF p
  <2> QED BY <1>1, <1>4, <1>5, TakesTo, CallsOK DEF Inv, Mounted
<1> QED BY <1>6 DEF HeaderLogin, Step, QuietMove, BackMove

LEMMA HeaderRegisterStep == ASSUME ScreensAssumption, Inv, HeaderRegister PROVE Step
<1> DEFINE p == At("register", None)
<1>1. PlaceOK(p) /\ p.page = "register" /\ p.returnTo = "account"
  BY AtOK DEF Pages, AuthKinds, SafeReturnTo, ScreensAssumption, Destinations
<1>2. asked' = {"account"}
  BY DEF HeaderRegister
<1>3. RenderedAsked(p, call, asked')
  BY <1>1, <1>2, CallsOK DEF RenderedAsked, PlaceAsked, CallAsked, CallOK, Kinds
<1>4. Render(p, session, query, auth, form, call) /\ Counted'
  BY <1>2, CountedKept DEF HeaderRegister, Goto, Destinations, Protected
<1>5. Inv' /\ place' = p /\ session' = session
  <2> HIDE DEF p
  <2> QED BY <1>1, <1>3, <1>4, TakesTo, CallsOK DEF Inv, Mounted
<1> QED BY <1>5 DEF HeaderRegister, Step, QuietMove, BackMove

LEMMA AuthLinkStep ==
  ASSUME ScreensAssumption, Inv, NEW k \in AuthKinds, AuthLink(k) PROVE Step
<1> DEFINE p == At(k, place.returnTo)
<1>1. place.page \in AuthKinds /\ place.returnTo \in Destinations
      /\ place.returnTo \in asked
  BY DEF AuthLink, Inv, Mounted, PlaceOK, Asked, PlaceAsked
<1>2. PlaceOK(p) /\ p.page = k /\ p.returnTo = place.returnTo
  BY <1>1, AtOK DEF Pages
<1>3. asked' = asked /\ RenderedAsked(p, call, asked')
  BY <1>1, <1>2, CallsOK DEF AuthLink, RenderedAsked, PlaceAsked
<1>4. Render(p, session, query, NoAuth, form, call) /\ Counted'
  BY AskedKept DEF AuthLink
<1>5. Inv' /\ place' = p /\ session' = session
  <2> HIDE DEF p
  <2> QED BY <1>2, <1>3, <1>4, IdleOK, TakesTo, CallsOK DEF Inv, Mounted
<1> QED BY <1>5, QuietOK DEF AuthLink, Step, QuietMove, BackMove

LEMMA LoadStep ==
  ASSUME ScreensAssumption, Inv, NEW p \in Pages, NEW r, Load(p, r) PROVE Step
<1> DEFINE SafeR == IF r \in Destinations THEN r ELSE "account"
<1>1. place' = At(p, r) /\ session' = Loading /\ form' = NoForm /\ query' = NoQueries
  BY DEF Load
<1>2. PlaceOK(place') /\ place'.page = p /\ (p \in AuthKinds => place'.returnTo = SafeR)
  BY <1>1, AtOK DEF SafeReturnTo
<1>3. SafeR \in Destinations
  BY DEF Destinations, Protected
<1>4. Private(session', query')
  BY <1>1 DEF Private, NoQueries, NoQuery
<1>5. auth' \in Auths
  <2>1. (p \in {"verify-email", "reset-password"}) \in BOOLEAN
    OBVIOUS
  <2>2. \A b \in BOOLEAN : [NoAuth EXCEPT !.token = b] \in Auths
    BY DEF NoAuth, Auths
  <2> QED BY <2>1, <2>2, Zenon DEF Load
<1>6. Counted' /\ PlaceAsked(place', asked')
  <2>1. asked' = IF p \in AuthKinds THEN {SafeR} ELSE {}
    BY DEF Load
  <2> HIDE DEF SafeR
  <2>2. asked' \subseteq Destinations
    BY <2>1, <1>3
  <2>3. Counted'
    BY <2>2, CountedKept DEF Load
  <2> QED BY <2>1, <2>3, <1>2 DEF PlaceAsked
<1>7. ASSUME NEW c \in Calls
      PROVE  CallOK(call'[c], form'.kind, place'.page, session'.user)
             /\ CallAsked(call'[c], asked')
  <2>1. call'[c] \in {Idle, [call[c] EXCEPT !.mine = FALSE, !.current = FALSE]}
    BY DEF Load
  <2>2. call'[c] = Idle \/ /\ call'[c] \in CallRecords /\ ~call'[c].mine
                           /\ ~call'[c].current /\ call'[c].op = call[c].op
                           /\ call'[c].answered = call[c].answered
                           /\ call'[c].user = call[c].user
                           /\ call'[c].returnTo = call[c].returnTo
    BY <2>1, CallsOK DEF CallRecords
  <2>3. /\ call[c].answered => call[c].op \in Kinds
        /\ call[c].op \in Kinds \cup {"login"} => call[c].user \in Users
        /\ call[c].op = "login" => call[c].returnTo \in Destinations
    BY CallsOK DEF CallOK
  <2> QED BY <2>2, <2>3, IdleOK DEF CallOK, CallAsked
<1>8. DOMAIN call' = Calls /\ call' = [c \in Calls |-> call'[c]]
  BY DEF Load
<1>9. Inv'
  BY <1>1, <1>2, <1>4, <1>5, <1>6, <1>7, <1>8, IdleOK
  DEF Inv, Mounted, Asked
<1> QED BY <1>1, <1>9, IdleOK DEF Step, QuietMove, BackMove

LEMMA TypeStep == ASSUME ScreensAssumption, Inv, NEW f \in Fields, Type(f) PROVE Step
<1>1. edits' \in 0 .. MaxEdits /\ edits + 1 \in 0 .. MaxEdits
  BY DEF Type, Inv, Counted, ScreensAssumption
<1>2. form' \in Forms /\ form'.kind = form.kind
  <2>1. form \in Forms
    BY DEF Inv, Mounted
  <2>2. \A v \in Profiles : [v EXCEPT ![f] = edits + 1] \in Profiles
    BY <1>1 DEF Profiles
  <2>3. form' = [form EXCEPT !.values = [form.values EXCEPT ![f] = edits + 1],
                             !.touched = form.touched \cup {f}, !.saved = FALSE]
    BY <2>1 DEF Type, Forms
  <2> QED BY <2>1, <2>2, <2>3 DEF Forms
<1>3. Counted'
  BY <1>1 DEF Type, Inv, Counted
<1>4. Mounted'
  BY <1>2 DEF Type, Inv, Mounted
<1>5. Asked' /\ place' = place
  BY DEF Type, Inv, Asked
<1> QED BY <1>3, <1>4, <1>5, StaysStep DEF Inv

LEMMA ElsewhereStep ==
  ASSUME ScreensAssumption, Inv, NEW k \in Kinds, NEW u \in Users, NEW f \in Fields,
         Elsewhere(k, u, f)
  PROVE  Step
<1>1. edits + 1 \in 0 .. MaxEdits /\ edits' = edits + 1
  BY DEF Elsewhere, Inv, Counted, ScreensAssumption
<1>2. profile' \in [Kinds -> [Users -> Profiles]]
  <2> DEFINE v == [profile[k][u] EXCEPT ![f] = edits + 1]
  <2>1. v \in Profiles
    BY <1>1 DEF Inv, Counted, Profiles
  <2>2. profile' = [profile EXCEPT ![k] = [profile[k] EXCEPT ![u] = v]]
    BY DEF Elsewhere, Inv, Counted
  <2> HIDE DEF v
  <2> QED BY <2>1, <2>2 DEF Inv, Counted
<1>3. Counted'
  BY <1>1, <1>2 DEF Elsewhere, Inv, Counted
<1>4. Mounted' /\ Asked' /\ place' = place
  BY DEF Elsewhere, Inv, Mounted, Asked
<1> QED BY <1>3, <1>4, StaysStep DEF Inv

LEMMA InitializedStep == ASSUME ScreensAssumption, Inv, Initialized PROVE Step
<1>1. Counted'
  BY AskedKept DEF Initialized
<1> QED BY <1>1, IdleOK, CallsOK, StaysPut, StaysStep DEF Initialized, Inv, Mounted

LEMMA DoneOK ==
  ASSUME ScreensAssumption, Inv, NEW c \in Calls
  PROVE  \A d \in Calls : /\ CallOK(Done(c)[d], form.kind, place.page, session.user)
                          /\ CallAsked(Done(c)[d], asked)
BY IdleOK, OneCallOK DEF Done

LEMMA LogoutStep == ASSUME ScreensAssumption, Inv, NEW c \in Calls, Logout(c) PROVE Step
<1> DEFINE r == [Idle EXCEPT !.op = "logout"]
<1>1. CallOK(r, form.kind, place.page, session.user) /\ CallAsked(r, asked)
  BY IdleOK DEF CallOK, CallAsked, CallRecords, Idle, Kinds
<1>2. Render(place, SignedOut, query, auth, form, [Stale(call) EXCEPT ![c] = r])
      /\ asked' = asked /\ Counted'
  BY AskedKept DEF Logout
<1> HIDE DEF r
<1> DEFINE cs == [Stale(call) EXCEPT ![c] = r]
<1>3. \A d \in Calls : /\ CallOK(cs[d], form.kind, place.page, session.user)
                      /\ CallAsked(cs[d], asked)
  BY <1>1, OneCallOK
<1> HIDE DEF cs
<1> QED BY <1>2, <1>3, IdleOK, StaysPut, StaysStep DEF Inv, Mounted, cs

LEMMA LogoutSettledStep ==
  ASSUME ScreensAssumption, Inv, NEW c \in Calls, LogoutSettled(c) PROVE Step
<1>1. Render(place, session, query, auth, form, Done(c)) /\ asked' = asked /\ Counted'
  BY AskedKept DEF LogoutSettled, Done
<1> QED BY <1>1, DoneOK, StaysPut, StaysStep DEF Inv, Mounted

LEMMA LoginStep ==
  ASSUME ScreensAssumption, Inv, NEW c \in Calls, NEW u \in Users, Login(c, u) PROVE Step
<1> DEFINE r == [Idle EXCEPT !.op = "login", !.user = u, !.mine = TRUE,
                             !.current = TRUE, !.returnTo = place.returnTo]
<1>1. /\ place.page = "login" /\ place.returnTo \in Destinations
      /\ place.returnTo \in asked
  BY DEF Login, Inv, Mounted, PlaceOK, Asked, PlaceAsked, AuthKinds
<1>2. CallOK(r, form.kind, place.page, session.user) /\ CallAsked(r, asked)
  BY <1>1, IdleOK DEF CallOK, CallAsked, CallRecords, Idle, Kinds, AuthKinds
<1>3. Render(place, Loading, query, auth, form, [Stale(call) EXCEPT ![c] = r])
      /\ asked' = asked /\ Counted'
  BY AskedKept DEF Login
<1> HIDE DEF r
<1> DEFINE cs == [Stale(call) EXCEPT ![c] = r]
<1>4. \A d \in Calls : /\ CallOK(cs[d], form.kind, place.page, session.user)
                      /\ CallAsked(cs[d], asked)
  BY <1>2, OneCallOK
<1> HIDE DEF cs
<1> QED BY <1>3, <1>4, IdleOK, StaysPut, StaysStep DEF Inv, Mounted, cs

(* The one step that signs a user in and moves him.                        *)
LEMMA LoginSucceedsStep ==
  ASSUME ScreensAssumption, Inv, NEW c \in Calls, LoginSucceeds(c) PROVE Step
<1> DEFINE s == Authenticated(call[c].user)
<1>1. PICK p \in Leaves(c) :
        /\ Render(p, s, query, auth, form, Done(c))
        /\ asked' = IF p = place THEN asked ELSE {}
  BY DEF LoginSucceeds
<1>2. call[c].op = "login" /\ UNCHANGED <<profile, bounds>> /\ Counted'
  BY <1>1, CountedKept DEF LoginSucceeds, Inv, Counted
<1>3. s \in Sessions
  <2>1. call[c].user \in Users
    BY <1>2, CallsOK DEF CallOK
  <2>2. profile["account"][call[c].user] \in Profiles
    BY <2>1 DEF Inv, Counted, Kinds
  <2> QED BY <2>1, <2>2 DEF Authenticated, Loading, Sessions
<1>4. CASE p = place
  <2>1. asked' = asked /\ Render(place, s, query, auth, form, Done(c))
    BY <1>1, <1>4
  <2> HIDE DEF s
  <2> QED BY <1>2, <1>3, <2>1, DoneOK, StaysPut, StaysStep DEF Inv, Mounted
<1>5. CASE p # place
  <2>1. call[c].mine /\ place.page = "login"
    BY <1>2, <1>5, CallsOK DEF Leaves, CallOK
  <2>2. PICK d \in {call[c].returnTo, place.returnTo} : p = At(d, None)
    BY <2>1 DEF Leaves
  <2>3. d \in Destinations /\ d \in asked
    BY <1>2, <2>1, CallsOK DEF CallOK, CallAsked, Inv, Mounted, Asked, PlaceOK,
       PlaceAsked, AuthKinds
  <2>4. PlaceOK(p) /\ p.page = d /\ d \notin AuthKinds
    BY <2>2, <2>3, AtOK DEF Pages, Destinations, Protected, AuthKinds
  <2>5. RenderedAsked(p, Done(c), asked')
    BY <2>1, <2>4 DEF RenderedAsked, PlaceAsked, AuthKinds
  <2>6. Inv' /\ place' = p /\ session' = s
    <3> HIDE DEF s
    <3> QED BY <1>1, <1>2, <1>3, <2>4, <2>5, DoneOK, TakesTo DEF Inv, Mounted
  <2> QED BY <1>2, <2>1, <2>3, <2>4, <2>6 DEF Step, QuietMove, BackMove
<1> QED BY <1>4, <1>5

LEMMA LoginFailsStep ==
  ASSUME ScreensAssumption, Inv, NEW c \in Calls, LoginFails(c) PROVE Step
<1>1. Render(place, SignedOut, query, auth, form, Done(c)) /\ asked' = asked /\ Counted'
  BY AskedKept DEF LoginFails
<1> QED BY <1>1, IdleOK, DoneOK, StaysPut, StaysStep DEF Inv, Mounted

LEMMA SubmitStep == ASSUME ScreensAssumption, Inv, NEW c \in Calls, Submit(c) PROVE Step
<1> DEFINE last == \/ place.page \in {"register", "reset-password"}
                   \/ place.page = "verify-email" /\ auth.token
           r == [Idle EXCEPT !.op = "submit", !.mine = TRUE, !.same = TRUE, !.done = last]
           a == [auth EXCEPT !.done = FALSE]
           cs == [call EXCEPT ![c] = r]
<1>1. last \in BOOLEAN
  BY DEF Inv, Mounted, Auths
<1>2. place.page \in AuthKinds
  BY DEF Submit
<1>3. CallOK(r, form.kind, place.page, session.user) /\ CallAsked(r, asked)
  <2> HIDE DEF last
  <2> QED BY <1>1, <1>2, IdleOK DEF CallOK, CallAsked, CallRecords, Idle, Kinds
<1>4. Render(place, session, query, a, form, cs) /\ asked' = asked /\ Counted'
  BY AskedKept DEF Submit
<1>5. a \in Auths
  BY DEF Inv, Mounted, Auths
<1> HIDE DEF r, a
<1>6. \A d \in Calls : /\ CallOK(cs[d], form.kind, place.page, session.user)
                      /\ CallAsked(cs[d], asked)
  BY <1>3, OneCallOK
<1> HIDE DEF cs
<1> QED BY <1>4, <1>5, <1>6, StaysPut, StaysStep DEF Inv, Mounted

LEMMA SubmittedStep ==
  ASSUME ScreensAssumption, Inv, NEW c \in Calls, Submitted(c) PROVE Step
<1> DEFINE out == place.page = "reset-password" /\ call[c].same
           s == IF out THEN SignedOut ELSE session
           a == [auth EXCEPT !.done = call[c].done]
           cs == IF out THEN [Stale(call) EXCEPT ![c] = Idle] ELSE Done(c)
<1>1. Render(place, s, query, a, form, cs) /\ asked' = asked /\ Counted'
  BY AskedKept DEF Submitted
<1>2. s \in Sessions
  BY IdleOK DEF Inv, Mounted
<1>3. a \in Auths
  BY CallsOK DEF CallRecords, Inv, Mounted, Auths
<1>4. \A d \in Calls : /\ CallOK(cs[d], form.kind, place.page, session.user)
                      /\ CallAsked(cs[d], asked)
  <2> HIDE DEF out
  <2> QED BY IdleOK, OneCallOK, DoneOK
<1> HIDE DEF s, a, cs
<1> QED BY <1>1, <1>2, <1>3, <1>4, StaysPut, StaysStep DEF Inv, Mounted

LEMMA SubmitFailsStep ==
  ASSUME ScreensAssumption, Inv, NEW c \in Calls, SubmitFails(c) PROVE Step
<1>1. Render(place, session, query, auth, form, Done(c)) /\ asked' = asked /\ Counted'
  BY AskedKept DEF SubmitFails
<1> QED BY <1>1, DoneOK, StaysPut, StaysStep DEF Inv, Mounted

LEMMA SaveStep == ASSUME ScreensAssumption, Inv, NEW c \in Calls, Save(c) PROVE Step
<1> DEFINE body == Body(form.values, BaseOf(form.kind, session, query))
           v == Only(body, form.values)
           r == [Idle EXCEPT !.op = form.kind, !.user = session.user, !.mine = TRUE,
                             !.current = TRUE, !.body = body, !.values = v,
                             !.touched = form.touched, !.shifted = form.shifted]
           f == [form EXCEPT !.saved = FALSE]
           cs == [call EXCEPT ![c] = r]
<1>1. form \in Forms /\ form.kind \in Kinds /\ session.user \in Users
  BY DEF Save, Inv, Mounted, Forms, Sessions
<1>2. body \in SUBSET Fields
  BY DEF Body
<1>2a. v \in Profiles
  <2> HIDE DEF body
  <2> QED BY <1>1 DEF Only, Forms, Profiles, ScreensAssumption
<1>3. CallOK(r, form.kind, place.page, session.user) /\ CallAsked(r, asked)
  <2> HIDE DEF body, v
  <2> QED BY <1>1, <1>2, <1>2a, IdleOK DEF CallOK, CallAsked, CallRecords, Idle, Kinds, Forms
<1>4. f \in Forms /\ f.kind = form.kind
  BY <1>1 DEF Forms
<1>5. Render(place, session, query, auth, f, cs) /\ asked' = asked /\ Counted'
  BY DEF Save, Inv, Counted, ScreensAssumption
<1> HIDE DEF r, f
<1>6. \A d \in Calls : /\ CallOK(cs[d], form.kind, place.page, session.user)
                      /\ CallAsked(cs[d], asked)
  BY <1>3, OneCallOK
<1> HIDE DEF cs
<1> QED BY <1>4, <1>5, <1>6, StaysPut, StaysStep DEF Inv, Mounted

LEMMA HandlePatchStep ==
  ASSUME ScreensAssumption, Inv, NEW c \in Calls, HandlePatch(c) PROVE Step
<1> DEFINE v == Written(c)
           r == [call[c] EXCEPT !.answered = TRUE, !.values = v, !.body = {},
                                !.touched = {}, !.shifted = FALSE]
           cs == [call EXCEPT ![c] = r]
<1>1. /\ call[c] \in CallRecords /\ call[c].op \in Kinds /\ call[c].user \in Users
      /\ CallOK(call[c], form.kind, place.page, session.user)
  BY CallsOK DEF HandlePatch, CallOK
<1>2. v \in Profiles
  <2>1. profile[call[c].op][call[c].user] \in Profiles
    BY <1>1 DEF Inv, Counted
  <2>2. call[c].values \in Profiles
    BY <1>1 DEF CallRecords
  <2> QED BY <2>1, <2>2 DEF Written, Profiles
<1>3. profile' \in [Kinds -> [Users -> Profiles]]
  <2> HIDE DEF v
  <2>1. profile' = [profile EXCEPT ![call[c].op][call[c].user] = v]
    BY DEF HandlePatch, v
  <2> QED BY <2>1, <1>1, <1>2 DEF Inv, Counted
<1>4. CallOK(r, form.kind, place.page, session.user) /\ CallAsked(r, asked)
  <2> HIDE DEF v
  <2> QED BY <1>1, <1>2, CallsOK DEF CallOK, CallAsked, CallRecords
<1>5. Render(place, session, query, auth, form, cs) /\ asked' = asked /\ Counted'
  <2>1. Render(place, session, query, auth, form, cs)
    BY Zenon DEF HandlePatch
  <2> QED BY <2>1, <1>3 DEF HandlePatch, Inv, Counted, bounds
<1> HIDE DEF v, r
<1>6. \A d \in Calls : /\ CallOK(cs[d], form.kind, place.page, session.user)
                      /\ CallAsked(cs[d], asked)
  BY <1>4, OneCallOK
<1> HIDE DEF cs
<1> QED BY <1>5, <1>6, StaysPut, StaysStep DEF Inv, Mounted

LEMMA StoredOK ==
  ASSUME ScreensAssumption, Inv, NEW c \in Calls
  PROVE  Stored(c) \in Forms /\ Stored(c).kind = form.kind
<1>1. form \in Forms /\ call[c].values \in Profiles
  BY CallsOK DEF Inv, Mounted, CallRecords
<1> QED BY <1>1 DEF Stored, Forms

LEMMA AccountSavedStep ==
  ASSUME ScreensAssumption, Inv, NEW c \in Calls, AccountSaved(c) PROVE Step
<1> DEFINE s == [session EXCEPT !.profile = call[c].values]
<1>1. s \in Sessions
  BY CallsOK DEF CallRecords, Inv, Mounted, Sessions
<1>2. Render(place, s, query, auth, Stored(c), Done(c)) /\ asked' = asked /\ Counted'
  BY AskedKept DEF AccountSaved
<1> HIDE DEF s
<1> QED BY <1>1, <1>2, StoredOK, DoneOK, StaysPut, StaysStep DEF Inv, Mounted

(* What the cache holds changes only for the user who is signed in.        *)
LEMMA OwnQueryOK ==
  ASSUME ScreensAssumption, Inv, NEW x \in Query
  PROVE  LET q == [query EXCEPT ![session.user] = x] IN
         q \in Queries /\ Private(session, q)
BY DEF Inv, Mounted, Queries, Query, Private

LEMMA OrganizerSavedStep ==
  ASSUME ScreensAssumption, Inv, NEW c \in Calls, OrganizerSaved(c) PROVE Step
<1> DEFINE u == session.user
           v == call[c].values
           q == Cached(query, u, v)
<1>1. call[c].user = u /\ v \in Profiles
  BY CallsOK DEF OrganizerSaved, Succeeds, CallOK, CallRecords, Kinds
<1>2. query \in [Organizers -> Query] /\ Queries = [Organizers -> Query]
  BY DEF Inv, Mounted, Queries, Query
<1>3. q = [query EXCEPT ![u] = [query[u] EXCEPT !.data = v, !.failed = FALSE]]
  BY <1>2 DEF Cached, Query
<1>4. q \in Queries /\ Private(session, q)
  <2>1. CASE u \in Organizers
    <3>1. [query[u] EXCEPT !.data = v, !.failed = FALSE] \in Query
      BY <1>1, <1>2, <2>1 DEF Query
    <3> QED BY <1>3, <3>1, OwnQueryOK
  <2>2. CASE u \notin Organizers
    <3> DEFINE y == [query[u] EXCEPT !.data = v, !.failed = FALSE]
    <3> HIDE DEF y
    <3>1. q = [query EXCEPT ![u] = y]
      BY <1>3 DEF y
    <3> HIDE DEF q
    <3>2. q = query
      BY <1>2, <2>2, <3>1
    <3> QED BY <3>2 DEF Inv, Mounted
  <2> QED BY <2>1, <2>2
<1>5. Render(place, session, q, auth, Stored(c), Done(c)) /\ asked' = asked /\ Counted'
  BY <1>1, AskedKept DEF OrganizerSaved
<1> HIDE DEF q
<1> QED BY <1>4, <1>5, StoredOK, DoneOK, StaysPut, StaysStep DEF Inv, Mounted

LEMMA SaveFailsStep ==
  ASSUME ScreensAssumption, Inv, NEW c \in Calls, SaveFails(c) PROVE Step
<1> DEFINE cs == [Stale(call) EXCEPT ![c] = Idle]
<1>1. asked' = asked /\ Counted'
  BY AskedKept DEF SaveFails
<1>2. CASE Render(place, session, query, auth, form, Done(c))
  BY <1>1, <1>2, DoneOK, StaysPut, StaysStep DEF Inv, Mounted
<1>3. CASE Render(place, SignedOut, query, auth, form, cs)
  <2>1. \A d \in Calls : /\ CallOK(cs[d], form.kind, place.page, session.user)
                        /\ CallAsked(cs[d], asked)
    BY IdleOK, OneCallOK
  <2> HIDE DEF cs
  <2> QED BY <1>1, <1>3, <2>1, IdleOK, StaysPut, StaysStep DEF Inv, Mounted
<1> QED BY <1>2, <1>3 DEF SaveFails

(* A fetch of the user who is signed in goes on.                           *)
LEMMA FetchStep ==
  ASSUME ScreensAssumption, Inv, NEW x \in Query,
         Render(place, session, [query EXCEPT ![session.user] = x], auth, form, call),
         UNCHANGED <<profile, asked, bounds>>
  PROVE  Step
<1> DEFINE q == [query EXCEPT ![session.user] = x]
<1>1. q \in Queries /\ Private(session, q)
  BY OwnQueryOK
<1>2. asked' = asked /\ Counted'
  BY AskedKept
<1>3. Render(place, session, q, auth, form, call)
  OBVIOUS
<1> HIDE DEF q
<1> QED BY <1>1, <1>2, <1>3, CallsOK, StaysPut, StaysStep DEF Inv, Mounted

LEMMA QueryStep ==
  ASSUME ScreensAssumption, Inv, NEW u \in Organizers,
         Refetch(u) \/ FetchRead(u) \/ Fetched(u) \/ FetchFails(u)
  PROVE  Step
<1>1. session.user = u /\ query[u] \in Query /\ query \in [Organizers -> Query]
  BY DEF Refetch, FetchRead, Fetched, FetchFails, Fetches, Inv, Mounted, Queries, Query
<1>2. CASE Refetch(u)
  <2>1. Fetching(query[u]) \in Query
    BY <1>1, FetchingOK
  <2> QED BY <1>1, <1>2, <2>1, FetchStep DEF Refetch
<1>3. CASE FetchRead(u)
  <2> DEFINE x == [query[u] EXCEPT !.fetch = "read", !.got = profile["organizer"][u]]
  <2>1. profile["organizer"][u] \in Profiles
    BY DEF ScreensAssumption, Inv, Counted, Kinds
  <2>2. x \in Query
    BY <1>1, <2>1 DEF Query
  <2>3. [query EXCEPT ![u].fetch = "read", ![u].got = profile["organizer"][u]]
        = [query EXCEPT ![u] = x]
    BY <1>1 DEF Query
  <2>4. Render(place, session, [query EXCEPT ![u] = x], auth, form, call)
    BY <1>3, <2>3 DEF FetchRead
  <2> HIDE DEF x
  <2> QED BY <1>1, <1>3, <2>2, <2>4, FetchStep DEF FetchRead
<1>4. CASE Fetched(u)
  <2>1. [NoQuery EXCEPT !.data = query[u].got] \in Query
    BY <1>1 DEF NoQuery, Query
  <2> QED BY <1>1, <1>4, <2>1, FetchStep DEF Fetched
<1>5. CASE FetchFails(u)
  <2>1. [NoQuery EXCEPT !.data = query[u].data, !.failed = TRUE] \in Query
    BY <1>1 DEF NoQuery, Query
  <2>2. CASE Render(place, SignedOut, query, auth, form, Stale(call))
    <3>1. asked' = asked /\ Counted'
      BY <1>5, AskedKept DEF FetchFails
    <3> QED BY <2>2, <3>1, IdleOK, CallsOK, StaysPut, StaysStep DEF Inv, Mounted
  <2> QED BY <1>1, <1>5, <2>1, <2>2, FetchStep DEF FetchFails
<1> QED BY <1>2, <1>3, <1>4, <1>5

LEMMA NextStep == ASSUME ScreensAssumption, Inv, Next PROVE Step
BY RedirectStep, HeaderLoginStep, HeaderRegisterStep, InitializedStep, VisitStep,
   AuthLinkStep, LoadStep, TypeStep, ElsewhereStep, LogoutStep, LogoutSettledStep, LoginStep,
   LoginSucceedsStep, LoginFailsStep, SubmitStep, SubmittedStep, SubmitFailsStep,
   SaveStep, HandlePatchStep, AccountSavedStep, OrganizerSavedStep, SaveFailsStep,
   QueryStep DEF Next

LEMMA StutterStep == ASSUME Inv, UNCHANGED vars PROVE Step
BY DEF vars, bounds, Step, QuietMove, BackMove, Inv, Counted, Mounted, Asked

LEMMA Invariance == Spec => []Inv
<1>1. Init => Inv
  BY ScreensAssumption, InitInv
<1>2. Inv /\ [Next]_vars => Inv'
  BY ScreensAssumption, NextStep, StutterStep DEF Step
<1> QED BY <1>1, <1>2, PTL DEF Spec

-----------------------------------------------------------------------------
(* WebScreens: the variables keep their shapes, a request is `mine` only    *)
(* while the screen it was sent from is mounted, and a save in its epoch is *)
(* one of the user who is signed in.                                       *)
THEOREM ScreensTypeCorrect == Spec => []TypeOK
<1>1. Inv => TypeOK
  <2> SUFFICES ASSUME Inv PROVE TypeOK
    OBVIOUS
  <2>1. call \in [Calls -> CallRecords]
    BY DEF Inv, Mounted, CallOK
  <2> QED BY <2>1 DEF TypeOK, Inv, Counted, Mounted, CallOK, PlaceOK, Places, Sessions,
     Auths, Forms, Queries
<1> QED BY <1>1, Invariance, PTL

(* SessionProvider and useQuery: whatever answers arrive after a sign-in,   *)
(* the query cache holds nobody's profile but that of the user signed in.  *)
THEOREM CacheIsPrivate == Spec => []OwnData
<1>1. Inv => OwnData
  BY DEF Inv, Mounted, Private, OwnData
<1> QED BY <1>1, Invariance, PTL

(* AuthPage: when a sign-in ends, the user is moved from the form that      *)
(* waited for it and from no other screen.                                 *)
THEOREM AbandonedFormsNeverNavigate == Spec => AbandonedFormsStayQuiet
<1>1. Inv /\ [Next]_vars
      => [session' # session /\ session' # Loading /\ place' # place
          => place.page = "login" /\ \E c \in Calls : call[c].op = "login" /\ call[c].mine]_vars
  BY ScreensAssumption, NextStep DEF Step, QuietMove
<1> QED BY <1>1, Invariance, PTL DEF Spec, AbandonedFormsStayQuiet

(* auth-links, safeReturnTo and navigate(): through any number of auth      *)
(* pages, a sign-in ends on a page that was asked for.                     *)
THEOREM SignInsLeadBack == Spec => SignInLeadsBack
<1>1. Inv /\ [Next]_vars
      => [session'.user # None /\ place.page \in {"login", "register"} /\ place' # place
          => place'.page \in asked]_vars
  BY ScreensAssumption, NextStep DEF Step, BackMove
<1> QED BY <1>1, Invariance, PTL DEF Spec, SignInLeadsBack
-----------------------------------------------------------------------------
(* Saves change what was typed.  Of a form under which nothing was replaced *)
(* what was not typed is what it compares with; so what it sends was typed. *)
FormTyped(f, s, q) ==
  f.kind # "none" /\ ~f.shifted
  => \A x \in Fields \ f.touched : f.values[x] = BaseOf(f.kind, s, q)[x]

CallTyped(r) == r.op \in Kinds /\ ~r.answered /\ ~r.shifted => r.body \subseteq r.touched

Typed == FormTyped(form, session, query) /\ \A c \in Calls : CallTyped(call[c])

(* A form is mounted on something to compare with.                          *)
HasBase(kind, s, q) == kind = "organizer" => s.user \in Organizers /\ Succeeded(q[s.user])

(* What a page compares with does not change when it stays mounted.         *)
LEMMA BaseStays ==
  ASSUME ScreensAssumption, NEW s, NEW q \in Queries, s.user = session.user, NEW kind
  PROVE  LET q1 == Queried(place, s, Cleared(s, q)) IN
         /\ BaseOf(kind, s, q1) = BaseOf(kind, s, q)
         /\ HasBase(kind, s, q1) <=> HasBase(kind, s, q)
<1> DEFINE q1 == Queried(place, s, Cleared(s, q))
<1>1. Cleared(s, q) = q
  BY DEF Cleared
<1>2. ASSUME s.user \in Organizers
      PROVE  q1[s.user].data = q[s.user].data /\ q1[s.user].failed = q[s.user].failed
  <2>1. q[s.user] \in Query
    BY <1>2 DEF Queries, Query
  <2>2. OnOrganizerPage(place, s) = OnOrganizerPage(place, session)
    BY DEF OnOrganizerPage
  <2>3. q1[s.user] \in {q[s.user], [q[s.user] EXCEPT !.fetch = "idle", !.got = None]}
    BY <1>1, <1>2, <2>2, Zenon DEF Queried
  <2> HIDE DEF q1
  <2> QED BY <2>1, <2>3 DEF Query
<1> HIDE DEF q1
<1> QED BY <1>2 DEF BaseOf, Base, HasBase, Succeeded, q1

LEMMA RenderTyped ==
  ASSUME ScreensAssumption, Inv, Typed, NEW p, NEW s, NEW q \in Queries, NEW a, NEW f,
         NEW cs, Render(p, s, q, a, f, cs),
         f = form \/ (HasBase(f.kind, s, q) => FormTyped(f, s, q)), f.kind = form.kind,
         \A c \in Calls : cs[c] \in CallRecords /\ CallTyped(cs[c])
  PROVE  Typed'
<1> DEFINE q1 == Queried(p, s, Cleared(s, q))
           open == Open(p, s, q1)
           stays == form.kind = open /\ s.user = session.user /\ p = place
           old == BaseOf(open, session, query)
           new == BaseOf(open, s, q1)
           sent(c) == [cs[c] EXCEPT
             !.mine = cs[c].mine /\ IF cs[c].op \in Kinds THEN stays
                                    ELSE p.page = place.page,
             !.current = cs[c].current /\ (s.user # session.user => cs[c].op = "login"),
             !.same = cs[c].same /\ s = session]
<1>1. /\ session' = s /\ query' = q1
      /\ form' = IF open = "none" THEN NoForm
                 ELSE IF stays THEN Over(f, old, new) ELSE Fresh(open, new)
      /\ call' = [c \in Calls |-> Awaited(sent(c))]
  BY Zenon DEF Render
<1>2. stays => new = BaseOf(open, s, q) /\ (HasBase(open, s, q1) <=> HasBase(open, s, q))
  BY BaseStays
<1>2a. HasBase(open, s, q1)
  BY DEF HasBase, Open, OnOrganizerPage
<1> HIDE DEF q1, open, old
<1>3. FormTyped(form', s, q1)
  <2>1. CASE open = "none"
    BY <1>1, <2>1 DEF FormTyped, NoForm
  <2>2. CASE open # "none" /\ ~stays
    <3>1. form' = Fresh(open, new)
      BY <1>1, <2>2
    <3>2. Fresh(open, new).kind = open /\ Fresh(open, new).values = new
      BY DEF Fresh, NoForm
    <3> QED BY <3>1, <3>2 DEF FormTyped
  <2>3. CASE open # "none" /\ stays
    <3>1. form' = Over(f, old, new)
      BY <1>1, <2>3
    <3>2. form \in Forms /\ form.kind = open
      BY <2>3 DEF Inv, Mounted
    <3> HIDE DEF new
    <3>3. CASE f = form /\ new # old
      BY <3>1, <3>2, <3>3 DEF Over, FormTyped, Forms
    <3>4. CASE f = form /\ new = old
      <4>1. form' = form
        BY <3>1, <3>4 DEF Over
      <4>2. BaseOf(form.kind, session, query) = BaseOf(form.kind, s, q1)
        BY <3>2, <3>4 DEF old, new
      <4> QED BY <4>1, <4>2 DEF FormTyped, Typed
    <3>5. CASE f # form
      <4>1. form' = f /\ FormTyped(f, s, q)
        BY <1>2, <1>2a, <2>3, <3>1, <3>2, <3>5 DEF Over
      <4>2. BaseOf(f.kind, s, q) = BaseOf(f.kind, s, q1)
        BY <1>2, <2>3, <3>2 DEF new
      <4> QED BY <4>1, <4>2 DEF FormTyped
    <3> QED BY <3>3, <3>4, <3>5
  <2> QED BY <2>1, <2>2, <2>3
<1> HIDE DEF new, stays
<1>4. ASSUME NEW c \in Calls
      PROVE  CallTyped(call'[c])
  <2>1. call'[c] \in {sent(c), Idle}
    BY <1>1, Zenon DEF Awaited
  <2>2. CallTyped(Idle)
    BY DEF CallTyped, Idle, Kinds
  <2>3. /\ sent(c).op = cs[c].op /\ sent(c).answered = cs[c].answered
        /\ sent(c).shifted = cs[c].shifted /\ sent(c).body = cs[c].body
        /\ sent(c).touched = cs[c].touched
    BY DEF CallRecords
  <2> HIDE DEF sent
  <2>4. CallTyped(sent(c))
    BY <2>3 DEF CallTyped
  <2> QED BY <2>1, <2>2, <2>4
<1> QED BY <1>1, <1>3, <1>4 DEF Typed

(* Where requests stand, once more.                                        *)
LEMMA CallsTyped ==
  ASSUME ScreensAssumption, Inv, Typed, NEW c \in Calls, NEW r \in CallRecords, CallTyped(r)
  PROVE  \A d \in Calls :
           /\ call[d] \in CallRecords /\ CallTyped(call[d])
           /\ Stale(call)[d] \in CallRecords /\ CallTyped(Stale(call)[d])
           /\ [call EXCEPT ![c] = r][d] \in CallRecords /\ CallTyped([call EXCEPT ![c] = r][d])
           /\ [Stale(call) EXCEPT ![c] = r][d] \in CallRecords
           /\ CallTyped([Stale(call) EXCEPT ![c] = r][d])
<1> SUFFICES ASSUME NEW d \in Calls
    PROVE  /\ call[d] \in CallRecords /\ CallTyped(call[d])
           /\ Stale(call)[d] \in CallRecords /\ CallTyped(Stale(call)[d])
           /\ [call EXCEPT ![c] = r][d] \in CallRecords /\ CallTyped([call EXCEPT ![c] = r][d])
           /\ [Stale(call) EXCEPT ![c] = r][d] \in CallRecords
           /\ CallTyped([Stale(call) EXCEPT ![c] = r][d])
  OBVIOUS
<1>1. call[d] \in CallRecords /\ CallTyped(call[d])
  BY CallsOK DEF Typed
<1>2. Stale(call)[d] \in CallRecords /\ CallTyped(Stale(call)[d])
  <2>1. Stale(call)[d] = [call[d] EXCEPT !.current = FALSE]
    BY DEF Stale
  <2> QED BY <1>1, <2>1 DEF CallTyped, CallRecords
<1>3. DOMAIN call = Calls /\ DOMAIN Stale(call) = Calls
  BY DEF Inv, Mounted, Stale
<1>4. [call EXCEPT ![c] = r][d] \in {r, call[d]}
      /\ [Stale(call) EXCEPT ![c] = r][d] \in {r, Stale(call)[d]}
  BY <1>3
<1> QED BY <1>1, <1>2, <1>4

(* A request that saves nothing takes a place, or gives it up.              *)
Plain(r) == r \in CallRecords /\ r.op \notin Kinds

LEMMA IdlePlain ==
  ASSUME ScreensAssumption PROVE Plain(Idle)
BY IdleOK DEF Plain, Idle, CallOK, Kinds

LEMMA PlainTyped ==
  ASSUME ScreensAssumption, Inv, Typed, NEW p, NEW s, NEW q \in Queries, NEW a,
         NEW c \in Calls, NEW r, Plain(r),
         NEW cs \in {call, Stale(call), [call EXCEPT ![c] = r], [Stale(call) EXCEPT ![c] = r]},
         Render(p, s, q, a, form, cs)
  PROVE  Typed'
<1>1. r \in CallRecords /\ CallTyped(r)
  BY DEF Plain, CallTyped
<1>2. \A d \in Calls : cs[d] \in CallRecords /\ CallTyped(cs[d])
  BY <1>1, CallsTyped
<1> QED BY <1>2, RenderTyped

LEMMA QueryOK == ASSUME Inv PROVE query \in Queries
BY DEF Inv, Mounted

(* The router, the session and the other forms save nothing.               *)
LEMMA MoveTyped ==
  ASSUME ScreensAssumption, Inv, Typed,
         \/ Redirect \/ HeaderLogin \/ HeaderRegister \/ Initialized
         \/ \E p \in Destinations : Visit(p)
         \/ \E k \in AuthKinds : AuthLink(k)
  PROVE  Typed'
<1>1. PICK c \in Calls : TRUE
  BY DEF ScreensAssumption
<1>2. PICK p, s, a : Render(p, s, query, a, form, call)
  BY DEF Redirect, HeaderLogin, HeaderRegister, Initialized, Visit, AuthLink, Goto
<1> QED BY <1>1, <1>2, IdlePlain, QueryOK, PlainTyped

LEMMA LoadTyped ==
  ASSUME ScreensAssumption, Inv, Typed, NEW p \in Pages, NEW r, Load(p, r)
  PROVE  Typed'
<1>1. FormTyped(form', session', query')
  BY DEF Load, FormTyped, NoForm
<1>2. ASSUME NEW c \in Calls PROVE CallTyped(call'[c])
  <2>1. call'[c] \in {Idle, [call[c] EXCEPT !.mine = FALSE, !.current = FALSE]}
    BY DEF Load
  <2>2. call[c] \in CallRecords /\ CallTyped(call[c])
    BY CallsOK DEF Typed
  <2>3. CallTyped(Idle)
    BY IdlePlain DEF Plain, CallTyped
  <2>4. CallTyped([call[c] EXCEPT !.mine = FALSE, !.current = FALSE])
    BY <2>2 DEF CallTyped, CallRecords
  <2> QED BY <2>1, <2>3, <2>4
<1> QED BY <1>1, <1>2 DEF Typed

LEMMA TypeTyped ==
  ASSUME ScreensAssumption, Inv, Typed, NEW x \in Fields, Type(x)
  PROVE  Typed'
<1>1. form \in Forms
  BY DEF Inv, Mounted
<1>2. form' = [form EXCEPT !.values = [form.values EXCEPT ![x] = edits + 1],
                           !.touched = form.touched \cup {x}, !.saved = FALSE]
  BY <1>1 DEF Type, Forms
<1>3. form.values \in Profiles
  BY <1>1 DEF Forms
<1>4. FormTyped(form', session', query')
  <2>1. /\ form'.kind = form.kind /\ form'.shifted = form.shifted
        /\ form'.touched = form.touched \cup {x}
        /\ \A y \in Fields \ {x} : form'.values[y] = form.values[y]
    BY <1>1, <1>2, <1>3 DEF Forms, Profiles
  <2>2. session' = session /\ query' = query
    BY DEF Type
  <2> QED BY <2>1, <2>2 DEF FormTyped, Typed
<1> QED BY <1>4 DEF Type, Typed

LEMMA ElsewhereTyped ==
  ASSUME Typed, NEW k \in Kinds, NEW u \in Users, NEW x \in Fields, Elsewhere(k, u, x)
  PROVE  Typed'
BY DEF Elsewhere, Typed

LEMMA FormsTyped ==
  ASSUME ScreensAssumption, Inv, Typed, NEW c \in Calls,
         \/ Logout(c) \/ LogoutSettled(c) \/ LoginSucceeds(c) \/ LoginFails(c)
         \/ \E u \in Users : Login(c, u)
         \/ Submit(c) \/ Submitted(c) \/ SubmitFails(c) \/ SaveFails(c)
  PROVE  Typed'
<1>1. CASE Logout(c)
  <2> DEFINE r == [Idle EXCEPT !.op = "logout"]
  <2>1. Plain(r)
    BY IdlePlain DEF Plain, Idle, CallRecords, Kinds
  <2>2. Render(place, SignedOut, query, auth, form, [Stale(call) EXCEPT ![c] = r])
    BY <1>1 DEF Logout
  <2> HIDE DEF r
  <2> QED BY <2>1, <2>2, QueryOK, PlainTyped
<1>2. CASE \E u \in Users : Login(c, u)
  <2>1. PICK u \in Users : Login(c, u)
    BY <1>2
  <2> DEFINE r == [Idle EXCEPT !.op = "login", !.user = u, !.mine = TRUE,
                               !.current = TRUE, !.returnTo = place.returnTo]
  <2>2. Plain(r)
    <3>1. place.returnTo \in Destinations \cup {None}
      BY DEF Inv, Mounted, PlaceOK, Places
    <3> QED BY <3>1, IdlePlain DEF Plain, Idle, CallRecords, Kinds
  <2>3. Render(place, Loading, query, auth, form, [Stale(call) EXCEPT ![c] = r])
    BY <2>1 DEF Login
  <2> HIDE DEF r
  <2> QED BY <2>2, <2>3, QueryOK, PlainTyped
<1>3. CASE Submit(c)
  <2> DEFINE last == \/ place.page \in {"register", "reset-password"}
                     \/ place.page = "verify-email" /\ auth.token
             r == [Idle EXCEPT !.op = "submit", !.mine = TRUE, !.same = TRUE, !.done = last]
             a == [auth EXCEPT !.done = FALSE]
  <2>1. last \in BOOLEAN
    BY DEF Inv, Mounted, Auths
  <2>2. Plain(r)
    <3> HIDE DEF last
    <3> QED BY <2>1, IdlePlain DEF Plain, Idle, CallRecords, Kinds
  <2>3. Render(place, session, query, a, form, [call EXCEPT ![c] = r])
    BY <1>3 DEF Submit
  <2> HIDE DEF r, a
  <2> QED BY <2>2, <2>3, QueryOK, PlainTyped
<1>4. CASE \/ LogoutSettled(c) \/ LoginSucceeds(c) \/ LoginFails(c)
           \/ Submitted(c) \/ SubmitFails(c) \/ SaveFails(c)
  <2>1. ASSUME NEW p, NEW s, NEW a, Render(p, s, query, a, form, Done(c))
        PROVE  Typed'
    BY <2>1, IdlePlain, QueryOK, PlainTyped DEF Done
  <2>2. ASSUME NEW p, NEW s, NEW a,
               Render(p, s, query, a, form, [Stale(call) EXCEPT ![c] = Idle])
        PROVE  Typed'
    BY <2>2, IdlePlain, QueryOK, PlainTyped
  <2>3. CASE LogoutSettled(c)
    BY <2>1, <2>3 DEF LogoutSettled, Done
  <2>4. CASE LoginSucceeds(c) \/ LoginFails(c) \/ SubmitFails(c)
    BY <2>1, <2>4 DEF LoginSucceeds, LoginFails, SubmitFails
  <2>5. CASE Submitted(c)
    <3> DEFINE out == place.page = "reset-password" /\ call[c].same
               s == IF out THEN SignedOut ELSE session
               a == [auth EXCEPT !.done = call[c].done]
    <3>1. Render(place, s, query, a, form,
                 IF out THEN [Stale(call) EXCEPT ![c] = Idle] ELSE Done(c))
      BY <2>5 DEF Submitted
    <3> HIDE DEF out, s, a
    <3> QED BY <2>1, <2>2, <3>1
  <2>6. CASE SaveFails(c)
    BY <2>1, <2>2, <2>6 DEF SaveFails
  <2> QED BY <1>4, <2>3, <2>4, <2>5, <2>6
<1> QED BY <1>1, <1>2, <1>3, <1>4

LEMMA SaveTyped ==
  ASSUME ScreensAssumption, Inv, Typed, NEW c \in Calls, Save(c)
  PROVE  Typed'
<1> DEFINE body == Body(form.values, BaseOf(form.kind, session, query))
           v == Only(body, form.values)
           r == [Idle EXCEPT !.op = form.kind, !.user = session.user, !.mine = TRUE,
                             !.current = TRUE, !.body = body, !.values = v,
                             !.touched = form.touched, !.shifted = form.shifted]
           f == [form EXCEPT !.saved = FALSE]
           cs == [call EXCEPT ![c] = r]
<1>1. /\ form \in Forms /\ form.kind \in Kinds /\ session.user \in Users \cup {None}
      /\ form.values \in Profiles
  BY DEF Save, Inv, Mounted, Forms, Sessions
<1>2. body \in SUBSET Fields
  BY DEF Body
<1>3. v \in Profiles
  <2> HIDE DEF body
  <2> QED BY <1>1 DEF Only, Profiles, ScreensAssumption
<1>4. ~form.shifted => body \subseteq form.touched
  BY <1>1 DEF Typed, FormTyped, Body, Kinds
<1> HIDE DEF body, v
<1>5. r \in CallRecords /\ CallTyped(r)
  BY <1>1, <1>2, <1>3, <1>4, IdlePlain DEF Plain, Idle, CallRecords, CallTyped, Forms
<1>6. f.kind = form.kind /\ FormTyped(f, session, query)
  BY <1>1 DEF FormTyped, Typed, Forms
<1>7. Render(place, session, query, auth, f, cs)
  BY DEF Save, body, v
<1> HIDE DEF r, f
<1>8. \A d \in Calls : cs[d] \in CallRecords /\ CallTyped(cs[d])
  BY <1>5, CallsTyped
<1> HIDE DEF cs
<1> QED BY <1>6, <1>7, <1>8, QueryOK, RenderTyped

(* The answer to its own save fills a form with what it compares with.      *)
LEMMA StoredTyped ==
  ASSUME ScreensAssumption, Inv, NEW c \in Calls, NEW s, NEW q, call[c].op \in Kinds,
         call[c].mine /\ HasBase(call[c].op, s, q)
           => BaseOf(call[c].op, s, q) = call[c].values
  PROVE  LET f == Stored(c) IN
         f.kind = form.kind /\ (f = form \/ (HasBase(f.kind, s, q) => FormTyped(f, s, q)))
<1>1. form \in Forms
  BY DEF Inv, Mounted
<1>2. CASE call[c].mine
  <2>1. call[c].op = form.kind
    BY <1>2, CallsOK DEF CallOK
  <2>2. Stored(c).kind = form.kind /\ Stored(c).values = call[c].values
    BY <1>1, <1>2 DEF Stored, Forms
  <2> QED BY <1>2, <2>1, <2>2 DEF FormTyped
<1>3. CASE ~call[c].mine
  BY <1>3 DEF Stored
<1> QED BY <1>2, <1>3

LEMMA DoneTyped ==
  ASSUME ScreensAssumption, Inv, Typed, NEW c \in Calls
  PROVE  \A d \in Calls : Done(c)[d] \in CallRecords /\ CallTyped(Done(c)[d])
<1>1. Idle \in CallRecords /\ CallTyped(Idle)
  BY IdlePlain DEF Plain, CallTyped
<1> QED BY <1>1, CallsTyped DEF Done

LEMMA AccountSavedTyped ==
  ASSUME ScreensAssumption, Inv, Typed, NEW c \in Calls, AccountSaved(c)
  PROVE  Typed'
<1> DEFINE s == [session EXCEPT !.profile = call[c].values]
<1>1. call[c].op = "account" /\ BaseOf("account", s, query) = call[c].values
  BY DEF AccountSaved, Succeeds, BaseOf, Inv, Mounted, Sessions
<1>2. Render(place, s, query, auth, Stored(c), Done(c))
  BY DEF AccountSaved
<1> HIDE DEF s
<1>3. /\ Stored(c).kind = form.kind
      /\ Stored(c) = form \/ (HasBase(Stored(c).kind, s, query) => FormTyped(Stored(c), s, query))
  BY <1>1, StoredTyped DEF Kinds
<1> QED BY <1>2, <1>3, DoneTyped, QueryOK, RenderTyped
LEMMA OrganizerSavedTyped ==
  ASSUME ScreensAssumption, Inv, Typed, NEW c \in Calls, OrganizerSaved(c)
  PROVE  Typed'
<1> DEFINE u == session.user
           v == call[c].values
           q == Cached(query, u, v)
<1>1. call[c].op = "organizer" /\ call[c].user = u /\ v \in Profiles
  BY CallsOK DEF OrganizerSaved, Succeeds, CallOK, CallRecords, Kinds
<1>2. query \in [Organizers -> Query] /\ Queries = [Organizers -> Query]
  BY DEF Inv, Mounted, Queries, Query
<1>3. q \in Queries /\ (u \in Organizers => q[u].data = v)
  <2> DEFINE x == [query[u] EXCEPT !.data = v, !.failed = FALSE]
  <2>1. q = [query EXCEPT ![u] = x]
    BY <1>2 DEF Cached, Query
  <2>2. CASE u \in Organizers
    <3>1. x \in Query /\ x.data = v
      BY <1>1, <1>2, <2>2 DEF Query
    <3> HIDE DEF x, q
    <3> QED BY <1>2, <2>1, <2>2, <3>1
  <2>3. CASE u \notin Organizers
    <3> HIDE DEF x, q
    <3>1. q = query
      BY <1>2, <2>1, <2>3
    <3> QED BY <1>2, <2>3, <3>1
  <2> QED BY <2>2, <2>3
<1>4. Render(place, session, q, auth, Stored(c), Done(c))
  BY <1>1 DEF OrganizerSaved
<1> HIDE DEF q
<1>5. HasBase("organizer", session, q) => BaseOf("organizer", session, q) = v
  BY <1>3 DEF HasBase, BaseOf, Base
<1>6. /\ Stored(c).kind = form.kind
      /\ \/ Stored(c) = form
         \/ HasBase(Stored(c).kind, session, q) => FormTyped(Stored(c), session, q)
  BY <1>1, <1>5, StoredTyped DEF Kinds
<1> QED BY <1>3, <1>4, <1>6, DoneTyped, RenderTyped

LEMMA HandlePatchTyped ==
  ASSUME ScreensAssumption, Inv, Typed, NEW c \in Calls, HandlePatch(c)
  PROVE  Typed'
<1> DEFINE v == Written(c)
           r == [call[c] EXCEPT !.answered = TRUE, !.values = v, !.body = {},
                                !.touched = {}, !.shifted = FALSE]
           cs == [call EXCEPT ![c] = r]
<1>1. /\ call[c] \in CallRecords /\ call[c].op \in Kinds /\ call[c].user \in Users
  BY CallsOK DEF HandlePatch, CallOK
<1>2. v \in Profiles
  <2>1. profile[call[c].op][call[c].user] \in Profiles
    BY <1>1 DEF Inv, Counted
  <2>2. call[c].values \in Profiles
    BY <1>1 DEF CallRecords
  <2> QED BY <2>1, <2>2 DEF Written, Profiles
<1>3. Render(place, session, query, auth, form, cs)
  BY Zenon DEF HandlePatch
<1>4. r \in CallRecords /\ CallTyped(r)
  <2> HIDE DEF v
  <2> QED BY <1>1, <1>2 DEF CallRecords, CallTyped
<1> HIDE DEF v, r
<1>5. \A d \in Calls : cs[d] \in CallRecords /\ CallTyped(cs[d])
  BY <1>4, CallsTyped
<1> HIDE DEF cs
<1> QED BY <1>3, <1>5, QueryOK, RenderTyped

LEMMA QueryTyped ==
  ASSUME ScreensAssumption, Inv, Typed, NEW u \in Organizers,
         Refetch(u) \/ FetchRead(u) \/ Fetched(u) \/ FetchFails(u)
  PROVE  Typed'
<1>1. query[u] \in Query /\ query \in [Organizers -> Query] /\ Queries = [Organizers -> Query]
  BY DEF Inv, Mounted, Queries, Query
<1>2. PICK c \in Calls : TRUE
  BY DEF ScreensAssumption
<1>3. ASSUME NEW x \in Query,
             Render(place, session, [query EXCEPT ![u] = x], auth, form, call)
      PROVE  Typed'
  <2> DEFINE q == [query EXCEPT ![u] = x]
  <2>1. q \in Queries
    BY <1>1
  <2>2. Render(place, session, q, auth, form, call)
    BY <1>3
  <2> HIDE DEF q
  <2> QED BY <1>2, <2>1, <2>2, IdlePlain, PlainTyped
<1>4. CASE Refetch(u)
  BY <1>1, <1>3, <1>4, FetchingOK DEF Refetch
<1>5. CASE FetchRead(u)
  <2> DEFINE x == [query[u] EXCEPT !.fetch = "read", !.got = profile["organizer"][u]]
  <2>1. profile["organizer"][u] \in Profiles
    BY DEF ScreensAssumption, Inv, Counted, Kinds
  <2>2. x \in Query
    BY <1>1, <2>1 DEF Query
  <2>3. [query EXCEPT ![u].fetch = "read", ![u].got = profile["organizer"][u]]
        = [query EXCEPT ![u] = x]
    BY <1>1 DEF Query
  <2>4. Render(place, session, [query EXCEPT ![u] = x], auth, form, call)
    BY <1>5, <2>3 DEF FetchRead
  <2> HIDE DEF x
  <2> QED BY <1>3, <2>2, <2>4
<1>6. CASE Fetched(u)
  <2>1. [NoQuery EXCEPT !.data = query[u].got] \in Query
    BY <1>1 DEF NoQuery, Query
  <2> QED BY <1>3, <1>6, <2>1 DEF Fetched
<1>7. CASE FetchFails(u)
  <2>1. [NoQuery EXCEPT !.data = query[u].data, !.failed = TRUE] \in Query
    BY <1>1 DEF NoQuery, Query
  <2>2. CASE Render(place, SignedOut, query, auth, form, Stale(call))
    BY <1>2, <2>2, IdlePlain, QueryOK, PlainTyped
  <2> QED BY <1>3, <1>7, <2>1, <2>2 DEF FetchFails
<1> QED BY <1>4, <1>5, <1>6, <1>7

LEMMA NextTyped == ASSUME ScreensAssumption, Inv, Typed, Next PROVE Typed'
BY MoveTyped, LoadTyped, TypeTyped, ElsewhereTyped, FormsTyped, SaveTyped,
   AccountSavedTyped, OrganizerSavedTyped, HandlePatchTyped, QueryTyped DEF Next

(* Of the steps of this page only the handling of a save changes a profile, *)
(* and in it only what was sent.                                           *)
SavesTyped ==
  profile' # profile /\ edits' = edits
  => \E c \in Calls :
       /\ call[c].op \in Kinds /\ ~call[c].answered /\ call'[c] # call[c]
       /\ \A k \in Kinds, u \in Users, f \in Fields :
            profile'[k][u][f] # profile[k][u][f] =>
              /\ k = call[c].op /\ u = call[c].user
              /\ f \in call[c].touched \/ call[c].shifted

LEMMA HandlePatchSaves ==
  ASSUME ScreensAssumption, Inv, Typed, NEW c \in Calls, HandlePatch(c)
  PROVE  SavesTyped
<1>1. /\ call[c].op \in Kinds /\ ~call[c].answered /\ call[c].user \in Users
      /\ call[c] \in CallRecords /\ CallTyped(call[c])
  BY CallsOK DEF HandlePatch, CallOK, Typed
<1>2. call'[c] # call[c]
  <2> DEFINE r == [call[c] EXCEPT !.answered = TRUE, !.values = Written(c), !.body = {},
                                  !.touched = {}, !.shifted = FALSE]
             cs == [call EXCEPT ![c] = r]
             stays == /\ form.kind = Open(place, session, Queried(place, session,
                                                          Cleared(session, query)))
                      /\ session.user = session.user /\ place = place
             m == cs[c].mine /\ IF cs[c].op \in Kinds THEN stays ELSE place.page = place.page
             u == cs[c].current /\ (session.user # session.user => cs[c].op = "login")
             e == cs[c].same /\ session = session
             sent == [cs[c] EXCEPT !.mine = m, !.current = u, !.same = e]
  <2>1. call'[c] = Awaited(sent)
    <3>1. Render(place, session, query, auth, form, cs)
      BY Zenon DEF HandlePatch
    <3> QED BY <3>1, Zenon DEF Render
  <2>2. r.answered /\ cs[c] = r
    BY <1>1 DEF CallRecords, Inv, Mounted
  <2>3. sent.answered
    <3> HIDE DEF m, u, e
    <3>1. "answered" \in DOMAIN r
      BY <1>1 DEF CallRecords
    <3> HIDE DEF r
    <3> QED BY <2>2, <3>1
  <2>4. call'[c] \in {sent, Idle}
    BY <2>1, Zenon DEF Awaited
  <2>5. Idle.op \notin Kinds
    BY DEF Idle, Kinds
  <2> HIDE DEF sent
  <2> QED BY <1>1, <2>3, <2>4, <2>5
<1>3. ASSUME NEW k \in Kinds, NEW u \in Users, NEW f \in Fields,
             profile'[k][u][f] # profile[k][u][f]
      PROVE  k = call[c].op /\ u = call[c].user /\ f \in call[c].body
  <2> DEFINE v == Written(c)
  <2>1. profile' = [profile EXCEPT ![call[c].op] = [profile[call[c].op] EXCEPT ![call[c].user] = v]]
    BY <1>1 DEF HandlePatch, Inv, Counted
  <2>2. f \notin call[c].body => v[f] = profile[call[c].op][call[c].user][f]
    BY DEF Written
  <2> HIDE DEF v
  <2> QED BY <1>1, <1>3, <2>1, <2>2 DEF Inv, Counted
<1> QED BY <1>1, <1>2, <1>3 DEF SavesTyped, CallTyped

LEMMA NextSaves == ASSUME ScreensAssumption, Inv, Typed, Next PROVE SavesTyped
<1>1. CASE \E c \in Calls : HandlePatch(c)
  BY <1>1, HandlePatchSaves
<1>2. CASE \E k \in Kinds, u \in Users, f \in Fields : Elsewhere(k, u, f)
  <2>1. edits' = edits + 1 /\ edits \in Nat
    BY <1>2 DEF Elsewhere, Inv, Counted
  <2> QED BY <2>1 DEF SavesTyped
<1>3. CASE ~(\E c \in Calls : HandlePatch(c))
           /\ ~(\E k \in Kinds, u \in Users, f \in Fields : Elsewhere(k, u, f))
  <2>1. profile' = profile
    BY <1>3 DEF Next, Redirect, HeaderLogin, HeaderRegister, Initialized, Visit, AuthLink,
       Load, Type, Logout, LogoutSettled, Login, LoginSucceeds, LoginFails, Submit,
       Submitted, SubmitFails, Save, AccountSaved, OrganizerSaved, SaveFails, Refetch,
       FetchRead, Fetched, FetchFails, Goto
  <2> QED BY <2>1 DEF SavesTyped
<1> QED BY <1>1, <1>2, <1>3

LEMMA TypedInvariance == Spec => []Typed
<1>1. Init => Typed
  BY DEF Init, Typed, FormTyped, CallTyped, NoForm, Idle, Kinds
<1>2. Inv /\ Typed /\ [Next]_vars => Typed'
  <2>1. ASSUME Typed, UNCHANGED vars PROVE Typed'
    BY <2>1 DEF vars, Typed
  <2> QED BY <2>1, ScreensAssumption, NextTyped
<1> QED BY <1>1, <1>2, Invariance, PTL DEF Spec

(* ProfilePage and OrganizerForm: whatever other sessions save, whatever    *)
(* forms were left and in whatever order their answers come, the handling   *)
(* of a save changes the fields that were typed in its form, and those      *)
(* only: unless what the form compares with was replaced under it.          *)
THEOREM SavesChangeWhatWasTyped == Spec => NothingReverted
<1>1. Inv /\ Typed /\ [Next]_vars => [SavesTyped]_vars
  BY ScreensAssumption, NextSaves
<1>2. [SavesTyped]_vars
      => [profile' # profile /\ edits' = edits
          => \E c \in Calls :
               /\ call[c].op \in Kinds /\ ~call[c].answered /\ call'[c] # call[c]
               /\ \A k \in Kinds, u \in Users, f \in Fields :
                    profile'[k][u][f] # profile[k][u][f] =>
                      /\ k = call[c].op /\ u = call[c].user
                      /\ f \in call[c].touched \/ call[c].shifted]_vars
  BY DEF SavesTyped
<1> QED BY <1>1, <1>2, Invariance, TypedInvariance, PTL DEF Spec, NothingReverted
=============================================================================

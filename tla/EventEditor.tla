---------------------------- MODULE EventEditor ----------------------------
(***************************************************************************)
(* The event editor of the web application: the hook that loads data, the  *)
(* form of an event with its publication dialog, its ticket types and its  *)
(* refund policy, the router around them, and the events on the server.    *)
(*                                                                         *)
(* Screens come and go while their requests are on the way.  A load is     *)
(* aborted with its screen; a write is not, and its answer still navigates *)
(* when it created an event.  The content of an event is the number of the *)
(* edit it stems from.  The organiser's address is verified, and seats are *)
(* not assigned.                                                           *)
(***************************************************************************)
EXTENDS Naturals, FiniteSets

CONSTANTS
  Events,        \* the events there are or will be
  Ops,           \* the writes the organiser uses
  Writes,        \* writes that can be on the way
  TicketPages,   \* pages of the table of ticket types
  MaxEdits, MaxWrites,
  None, Failed

AllOps == {"create", "save", "publish", "unpublish", "cancel", "duplicate",
           "ticket", "refund-policy", "profile"}

ASSUME EditorAssumption ==
  /\ Ops \subseteq AllOps
  /\ Events # {} /\ Writes # {}
  /\ TicketPages \in Nat \ {0} /\ MaxEdits \in Nat
  /\ MaxWrites \in Nat
  /\ {"elsewhere", "profile", "new", None} \cap Events = {}
  /\ None \notin {"elsewhere", "profile", "new", Failed}

VARIABLES
  row, ticketRev,          \* events and their ticket types on the server
  user,                    \* whether a user is published
  place, came,             \* where the router is, and the editor page before
  eventHook, ticketHook,   \* two useResource
  form,                    \* EditorForm with TicketEditor and RefundEditor
  write,                   \* writes on the way
  meddled,                 \* history: events changed behind the form's back
  edits, sent              \* bounds

server == <<row, ticketRev>>
bounds == <<edits, sent>>
router == <<place, came>>
vars == <<server, user, router, eventHook, ticketHook, form, write, meddled, bounds>>

Statuses == {"draft", "published", "cancelled"}
NoRow == [content |-> 0, status |-> "none"]
Places == Events \cup {"elsewhere", "profile", "new"}

NoLoad == [phase |-> "idle", data |-> None]
NothingGot == [path |-> None, data |-> None]
NoHook == [path |-> None, load |-> NoLoad, got |-> NothingGot]

(* A write is `mine` while the screen that sent it is mounted, `current`    *)
(* while its session lasts.                                                *)
Idle == [op |-> "none", event |-> None, content |-> 0, mine |-> FALSE,
         current |-> FALSE, phase |-> "idle", result |-> None, rev |-> 0]

NoTickets == [open |-> FALSE, pending |-> FALSE, page |-> 1, acked |-> 0]
Fresh(r) == [mounted |-> TRUE, event |-> r, dirty |-> FALSE, draft |-> 0,
             pending |-> FALSE, saved |-> FALSE, action |-> "none",
             tickets |-> NoTickets, refunding |-> FALSE]
Closed == [Fresh(NoRow) EXCEPT !.mounted = FALSE]

(* One event exists; the user is on another page.                          *)
Init ==
  /\ \E e \in Events : row = [f \in Events |->
       IF f = e THEN [content |-> 0, status |-> "draft"] ELSE NoRow]
  /\ ticketRev = [e \in Events |-> 0]
  /\ user = TRUE /\ place = "elsewhere" /\ came = None
  /\ eventHook = NoHook /\ ticketHook = NoHook /\ form = Closed
  /\ write = [w \in Writes |-> Idle]
  /\ meddled = {} /\ edits = 0 /\ sent = 0

-----------------------------------------------------------------------------
(* useResource.  What is shown must have come for the path, the version    *)
(* and the request identity of now.  Versions and identities do not come   *)
(* back: a new one drops what the hook has.  A path does come back.        *)

Requested(path) == IF path = None THEN NoLoad ELSE [NoLoad EXCEPT !.phase = "sent"]

(* The effect: another path aborts the load and begins one.                *)
OnPath(h, path) ==
  IF h.path = path THEN h ELSE [h EXCEPT !.path = path, !.load = Requested(path)]

(* reload(), and another request identity.  Mutant: reload is forgotten.   *)
NotReloaded(h) == h
Reloaded(h) == [h EXCEPT !.load = Requested(h.path), !.got = NothingGot]

Shown(h) == IF h.got.path = h.path THEN h.got.data ELSE None

(* setState of an answer that was not aborted.                             *)
Received(h, data) ==
  [h EXCEPT !.load = NoLoad, !.got = [path |-> h.path, data |-> data]]

-----------------------------------------------------------------------------
(* Rendering.  Place p, user u, the hooks h and t and the form f as a       *)
(* handler left them: which screens are mounted, and what they load.       *)

InEditor(p, u) == u /\ p \in Events \cup {"new"}

EventPath(h, p, u) ==
  IF InEditor(p, u) THEN OnPath(h, IF p \in Events THEN p ELSE None) ELSE NoHook

TicketPath(t, p, page) == OnPath(t, <<p, page>>)

(* Mutant: the form does not wait for its event.                           *)
OpenWhileLoading(h, p, u) == InEditor(p, u)
FormOpen(h, p, u) ==
  InEditor(p, u) /\ (p = "new" \/ Shown(h) \notin {None, Failed})

(* Mutant: an answer finds whatever form is mounted.                       *)
StillMine(w, p) == w.mine
Mine(w, p) == w.mine /\ p = place

(* An answer nobody waits for changes nothing.                             *)
Awaited(w) ==
  IF \/ w.phase = "sent"
     \/ w.current /\ (w.mine \/ w.op \in {"create", "duplicate", "profile"})
  THEN w ELSE Idle

Render(p, u, h, t, f, ws) ==
  LET h1 == EventPath(h, p, u)
      open == FormOpen(h1, p, u)
      same == form.mounted /\ open /\ p = place
      f1 == IF ~open THEN Closed ELSE IF same THEN f
            ELSE Fresh(IF p = "new" THEN NoRow ELSE Shown(h1))
  IN /\ place' = p /\ user' = u
     /\ eventHook' = h1
     /\ form' = f1
     /\ ticketHook' = IF open /\ p \in Events
                      THEN TicketPath(IF same THEN t ELSE NoHook, p, f1.tickets.page)
                      ELSE NoHook
     /\ write' = [w \in Writes |-> Awaited(
          [ws[w] EXCEPT !.mine = Mine(ws[w], p) /\ (ws[w].op = "profile" \/ open),
                        !.current = ws[w].current /\ u])]

(* A handler that changes the form alone.                                  *)
Update(f) ==
  /\ form' = f
  /\ UNCHANGED <<server, user, router, eventHook, ticketHook, meddled>>

(* Links.  None leads from one page of the editor to another.              *)
Editors == Events \cup {"new"}

Navigate(p) ==
  /\ user /\ p # place
  /\ place \notin Editors \/ p \notin Editors
  /\ p \in Events => row[p] # NoRow
  /\ Render(p, user, eventHook, ticketHook, form, write)
  /\ came' = None
  /\ UNCHANGED <<server, meddled, bounds>>

(* The Back button, after navigate() from one page of the editor to another.*)
Back ==
  /\ user /\ came # None /\ came # place
  /\ Render(came, user, eventHook, ticketHook, form, write)
  /\ came' = None
  /\ UNCHANGED <<server, meddled, bounds>>

(* Sign-out, expiry or suspension; RequireSession leads to /login.         *)
SessionEnds ==
  /\ user
  /\ Render("elsewhere", FALSE, eventHook, ticketHook, form, write)
  /\ came' = None
  /\ UNCHANGED <<server, meddled, bounds>>

(* Sign-in leads back to where the user came from.                         *)
SignsIn ==
  /\ ~user
  /\ \E p \in {q \in Places : q \in Events => row[q] # NoRow} :
       Render(p, TRUE, eventHook, ticketHook, form, write)
  /\ UNCHANGED <<server, came, meddled, bounds>>

-----------------------------------------------------------------------------
(* The form of the event.  The dialog is modal.                            *)

(* Mutant: the form can be used while it is being saved.                   *)
DisabledWhenCancelled == form.event.status = "cancelled"
Disabled == form.pending \/ form.event.status = "cancelled"

Usable == form.mounted /\ form.action = "none"

(* mutate() and its buttons.  Mutant: one of the conditions is missing.    *)
NotDirty == ~form.dirty
Ready == ~form.pending /\ ~form.dirty

(* onChange.                                                               *)
Type ==
  /\ Usable /\ ~Disabled /\ edits < MaxEdits
  /\ edits' = edits + 1
  /\ Update([form EXCEPT !.dirty = TRUE, !.draft = edits + 1, !.saved = FALSE])
  /\ UNCHANGED <<write, sent>>

Request(w, op, content) ==
  /\ op \in Ops /\ write[w] = Idle
  /\ write' = [write EXCEPT ![w] =
       [Idle EXCEPT !.op = op, !.event = IF place \in Events THEN place ELSE None,
                    !.content = content, !.mine = TRUE, !.current = TRUE,
                    !.phase = "sent"]]
  /\ sent < MaxWrites /\ sent' = sent + 1
  /\ UNCHANGED edits

(* onSubmit; an empty form does not validate.                              *)
Save(w) ==
  /\ Usable /\ ~Disabled
  /\ form.dirty \/ form.event # NoRow
  /\ Request(w, IF form.event = NoRow THEN "create" ELSE "save",
             IF form.dirty THEN form.draft ELSE form.event.content)
  /\ Update([form EXCEPT !.pending = TRUE, !.saved = FALSE])

Toggle(status) == IF status = "published" THEN "unpublish" ELSE "publish"

OpenDialog(action) ==
  /\ Usable /\ form.event # NoRow /\ form.event.status # "cancelled" /\ Ready
  /\ action \in {Toggle(form.event.status), "cancel"}
  /\ Update([form EXCEPT !.action = action])
  /\ UNCHANGED <<write, edits, sent>>

CloseDialog ==
  /\ form.action # "none" /\ ~form.pending
  /\ Update([form EXCEPT !.action = "none"])
  /\ UNCHANGED <<write, edits, sent>>

Mutate(w) ==
  /\ form.mounted /\ form.event # NoRow /\ Ready
  /\ Request(w, IF form.action = "none" THEN "duplicate" ELSE form.action, 0)
  /\ Update([form EXCEPT !.pending = TRUE, !.saved = FALSE])

-----------------------------------------------------------------------------
(* The ticket types and the refund policy.                                 *)

Locked == form.pending \/ form.dirty \/ form.event.status = "cancelled"

TicketsUsable == Usable /\ form.event # NoRow /\ ~form.tickets.pending

SelectTicket(open) ==
  /\ TicketsUsable /\ ~Locked /\ form.tickets.open # open
  /\ Update([form EXCEPT !.tickets.open = open])
  /\ UNCHANGED <<write, edits, sent>>

SaveTicket(w) ==
  /\ TicketsUsable /\ ~Locked /\ form.tickets.open
  /\ Request(w, "ticket", 0)
  /\ Update([form EXCEPT !.tickets.pending = TRUE])

TurnPage(page) ==
  /\ TicketsUsable /\ Shown(ticketHook) \notin {None, Failed}
  /\ page \in {form.tickets.page - 1, form.tickets.page + 1} \cap (1 .. TicketPages)
  /\ form' = [form EXCEPT !.tickets.page = page]
  /\ ticketHook' = TicketPath(ticketHook, place, page)
  /\ UNCHANGED <<server, user, router, eventHook, write, meddled, bounds>>

SaveRefundPolicy(w) ==
  /\ Usable /\ form.event # NoRow /\ ~Locked /\ ~form.refunding
  /\ Request(w, "refund-policy", 0)
  /\ Update([form EXCEPT !.refunding = TRUE])

(* ProfilePage: PATCH /me; its answer becomes the published user object.   *)
SaveProfile(w) ==
  /\ user /\ place = "profile"
  /\ \A v \in Writes : ~(write[v].op = "profile" /\ write[v].mine)
  /\ Request(w, "profile", 0)
  /\ Update(form)

-----------------------------------------------------------------------------
(* The retry buttons and the answers to loads.                             *)

ReloadEvent ==
  /\ InEditor(place, user) /\ Shown(eventHook) = Failed
  /\ Render(place, user, Reloaded(eventHook), ticketHook, form, write)
  /\ UNCHANGED <<server, came, meddled, bounds>>

ReloadTickets ==
  /\ Usable /\ Shown(ticketHook) = Failed
  /\ ticketHook' = Reloaded(ticketHook)
  /\ UNCHANGED <<server, user, router, eventHook, form, write, meddled, bounds>>

ReadTickets ==
  /\ ticketHook.load.phase = "sent"
  /\ ticketHook' = [ticketHook EXCEPT !.load =
                      [phase |-> "read", data |-> ticketRev[place]]]
  /\ UNCHANGED <<server, user, router, eventHook, form, write, meddled, bounds>>

(* The answer to a load; any may fail.  What changes an event between its   *)
(* reading and the answer is nothing this form knows of: it might as well  *)
(* change later.  For ticket types the difference matters.                 *)
EventLoaded ==
  /\ eventHook.load.phase = "sent"
  /\ \E data \in {row[place], Failed} :
       Render(place, user, Received(eventHook, data), ticketHook, form, write)
  /\ UNCHANGED <<server, came, meddled, bounds>>

TicketsLoaded ==
  /\ ticketHook.load.phase # "idle"
  /\ \E data \in {Failed} \cup {d \in {ticketHook.load.data} : ticketHook.load.phase = "read"} :
       ticketHook' = Received(ticketHook, data)
  /\ UNCHANGED <<server, user, router, eventHook, form, write, meddled, bounds>>

-----------------------------------------------------------------------------
(* The server.                                                             *)

(* The statuses from which an operation may succeed, and the one it leaves.*)
Admits(op) ==
  CASE op = "publish" -> {"draft"}
    [] op = "unpublish" -> {"published"}
    [] op \in {"save", "cancel", "ticket"} -> {"draft", "published"}
    [] OTHER -> Statuses

After(w) ==
  LET r == row[write[w].event] IN
  CASE write[w].op = "save" -> [r EXCEPT !.content = write[w].content]
    [] write[w].op = "publish" -> [r EXCEPT !.status = "published"]
    [] write[w].op = "unpublish" -> [r EXCEPT !.status = "draft"]
    [] write[w].op = "cancel" -> [r EXCEPT !.status = "cancelled"]
    [] OTHER -> r

Answered(w, e, rev) ==
  write' = [write EXCEPT ![w] = Awaited([write[w] EXCEPT
              !.phase = "ok", !.event = e, !.rev = rev,
              !.result = IF e \in Events THEN row'[e] ELSE None])]

(* A write that an unmounted form left behind.                             *)
Meddles(w) ==
  meddled' = IF write[w].mine THEN meddled ELSE meddled \cup ({write[w].event} \cap Events)

HandleChange(w) ==
  /\ write[w].phase = "sent" /\ write[w].event \in Events
  /\ write[w].op # "duplicate"
  /\ row[write[w].event].status \in Admits(write[w].op)
  /\ row' = [row EXCEPT ![write[w].event] = After(w)]
  /\ IF write[w].op = "ticket"
     THEN /\ ticketRev[write[w].event] < MaxEdits
          /\ ticketRev' = [ticketRev EXCEPT ![write[w].event] = @ + 1]
     ELSE UNCHANGED ticketRev
  /\ Answered(w, write[w].event, ticketRev'[write[w].event])
  /\ Meddles(w)
  /\ UNCHANGED <<user, router, eventHook, ticketHook, form, bounds>>

(* create_event and duplicate_event.                                       *)
HandleNew(w) ==
  /\ write[w].phase = "sent" /\ write[w].op \in {"create", "duplicate"}
  /\ \E e \in Events :
       /\ row[e] = NoRow
       /\ row' = [row EXCEPT ![e] =
            [content |-> IF write[w].op = "create" THEN write[w].content
                         ELSE row[write[w].event].content,
             status |-> "draft"]]
       /\ Answered(w, e, 0)
  /\ UNCHANGED <<ticketRev, user, router, eventHook, ticketHook, form, meddled,
                 bounds>>

HandleProfile(w) ==
  /\ write[w].phase = "sent" /\ write[w].op = "profile"
  /\ row' = row
  /\ Answered(w, None, 0)
  /\ UNCHANGED <<ticketRev, user, router, eventHook, ticketHook, form, meddled,
                 bounds>>

Handle(w) == HandleChange(w) \/ HandleNew(w) \/ HandleProfile(w)

-----------------------------------------------------------------------------
(* The answers to writes, after the controller's assertCurrent().          *)

Succeeds(w) == write[w].phase = "ok" /\ write[w].current
Done(w) == [write EXCEPT ![w] = Idle]

Stored(w) ==
  LET f == [form EXCEPT !.event = write[w].result, !.pending = FALSE, !.saved = TRUE]
  IN IF write[w].op = "save" THEN [f EXCEPT !.dirty = FALSE, !.draft = 0]
     ELSE [f EXCEPT !.action = "none"]

EventSaved(w) ==
  /\ Succeeds(w) /\ write[w].op \in {"save", "publish", "unpublish", "cancel"}
  /\ form' = IF write[w].mine THEN Stored(w) ELSE form
  /\ write' = Done(w)
  /\ UNCHANGED <<server, user, router, eventHook, ticketHook, meddled, bounds>>

(* navigate() to the new event, wherever the user is by now.               *)
EventCreated(w) ==
  /\ Succeeds(w) /\ write[w].op \in {"create", "duplicate"}
  /\ Render(write[w].event, user, eventHook, ticketHook,
            IF write[w].mine THEN [form EXCEPT !.pending = FALSE] ELSE form, Done(w))
  /\ came' = IF write[w].op = "duplicate" /\ place \in Editors THEN place ELSE came
  /\ UNCHANGED <<server, meddled, bounds>>

TicketSaved(w) ==
  /\ Succeeds(w) /\ write[w].op = "ticket"
  /\ IF write[w].mine
     THEN /\ form' = [form EXCEPT !.tickets.open = FALSE, !.tickets.pending = FALSE,
                                  !.tickets.acked = write[w].rev]
          /\ ticketHook' = Reloaded(ticketHook)
     ELSE UNCHANGED <<form, ticketHook>>
  /\ write' = Done(w)
  /\ UNCHANGED <<server, user, router, eventHook, meddled, bounds>>

PolicySaved(w) ==
  /\ Succeeds(w) /\ write[w].op = "refund-policy"
  /\ form' = IF write[w].mine THEN [form EXCEPT !.refunding = FALSE] ELSE form
  /\ write' = Done(w)
  /\ UNCHANGED <<server, user, router, eventHook, ticketHook, meddled, bounds>>

(* updateUser publishes another object: every request has a new identity.  *)
ProfileSaved(w) ==
  /\ Succeeds(w) /\ write[w].op = "profile"
  /\ Render(place, user, Reloaded(eventHook), Reloaded(ticketHook), form, Done(w))
  /\ UNCHANGED <<server, came, meddled, bounds>>

(* catch, finally: it was refused, never arrived, or its answer is lost.   *)
WriteFailed(w) ==
  /\ write[w] # Idle
  /\ form' = IF ~write[w].mine \/ write[w].op = "profile" THEN form
             ELSE CASE write[w].op = "ticket" -> [form EXCEPT !.tickets.pending = FALSE]
                    [] write[w].op = "refund-policy" -> [form EXCEPT !.refunding = FALSE]
                    [] write[w].op \in {"create", "save"} -> [form EXCEPT !.pending = FALSE]
                    [] OTHER -> [form EXCEPT !.pending = FALSE, !.action = "none"]
  /\ write' = Done(w)
  /\ UNCHANGED <<server, user, router, eventHook, ticketHook, meddled, bounds>>

Settle(w) ==
  \/ EventSaved(w) \/ EventCreated(w) \/ TicketSaved(w) \/ PolicySaved(w)
  \/ ProfileSaved(w) \/ WriteFailed(w)

Loaded == EventLoaded \/ TicketsLoaded

Next ==
  \/ \E p \in Places : Navigate(p)
  \/ Back \/ SessionEnds \/ SignsIn
  \/ Type \/ CloseDialog \/ \E a \in {"publish", "unpublish", "cancel"} : OpenDialog(a)
  \/ \E open \in BOOLEAN : SelectTicket(open)
  \/ \E page \in 1 .. TicketPages : TurnPage(page)
  \/ \E w \in Writes :
       \/ Save(w) \/ Mutate(w) \/ SaveTicket(w) \/ SaveRefundPolicy(w) \/ SaveProfile(w)
       \/ Handle(w) \/ Settle(w)
  \/ ReloadEvent \/ ReloadTickets \/ ReadTickets \/ Loaded

Spec == Init /\ [][Next]_vars

-----------------------------------------------------------------------------
(* Properties.                                                             *)

Rows == [content : 0 .. MaxEdits, status : Statuses \cup {"none"}]
Hooks(paths, data) ==
  [path : paths \cup {None},
   load : [phase : {"idle", "sent", "read"}, data : data \cup {None}],
   got : [path : paths \cup {None}, data : data \cup {None, Failed}]]
Forms ==
  [mounted : BOOLEAN, event : Rows, dirty : BOOLEAN, draft : 0 .. MaxEdits,
   pending : BOOLEAN, saved : BOOLEAN,
   action : {"none", "publish", "unpublish", "cancel"},
   tickets : [open : BOOLEAN, pending : BOOLEAN, page : 1 .. TicketPages,
              acked : 0 .. MaxEdits],
   refunding : BOOLEAN]
WriteRecords ==
  [op : AllOps \cup {"none"}, event : Events \cup {None}, content : 0 .. MaxEdits,
   mine : BOOLEAN, current : BOOLEAN, phase : {"idle", "sent", "ok"},
   result : Rows \cup {None}, rev : 0 .. MaxEdits]

(* Every variable keeps its shape; only events that exist have a form, and *)
(* a write that belongs to a screen belongs to the one that is mounted.    *)
TypeOK ==
  /\ row \in [Events -> Rows] /\ ticketRev \in [Events -> 0 .. MaxEdits]
  /\ user \in BOOLEAN /\ place \in Places /\ came \in Editors \cup {None}
  /\ eventHook \in Hooks(Events, Rows)
  /\ ticketHook \in Hooks(Events \X (1 .. TicketPages), 0 .. MaxEdits)
  /\ form \in Forms /\ write \in [Writes -> WriteRecords]
  /\ meddled \subseteq Events /\ edits \in 0 .. MaxEdits
  /\ sent \in 0 .. MaxWrites
  /\ form.mounted /\ place \in Events => row[place] # NoRow
  /\ \A w \in Writes : write[w].mine =>
       form.mounted \/ (place = "profile" /\ write[w].op = "profile")

(* "Saved" under the form is true: the server has what the form shows, and *)
(* nothing has been typed since; unless a write of a form that is gone has  *)
(* come in between.                                                        *)
SavedMeansStored ==
  form.mounted /\ form.saved /\ place \notin meddled =>
    place \in Events /\ row[place] = form.event /\ ~form.dirty

(* The table of ticket types never shows an inventory older than the last  *)
(* saved change that the editor was told of, however late loads answer.    *)
NeverStaleTickets ==
  Shown(ticketHook) \notin {None, Failed} => Shown(ticketHook) >= form.tickets.acked

(* The dialog offers what the status allows: the status does not change    *)
(* under a confirmation, although a save may bring another one.            *)
DialogMatchesStatus ==
  form.action # "none" =>
    /\ form.event.status \in {"draft", "published"}
    /\ form.action \in {Toggle(form.event.status), "cancel"}

(* What has been typed stays until it is stored, or the router moves, or   *)
(* the event is loaded again: no answer to another write of the form takes *)
(* it away.  (The event is loaded again when a profile that was saved on   *)
(* the page before is answered; and a form that ObsoleteHidden is about    *)
(* goes when the load under it fails.)                                     *)
DraftSurvives ==
  [][form.dirty =>
       \/ form'.dirty /\ form'.draft >= form.draft
       \/ form'.saved /\ form'.event.content = form.draft
       \/ place' # place
       \/ Shown(eventHook') \in {None, Failed}]_vars

(* "The request identity below hides obsolete data" (data.ts): the form of *)
(* an event opens on what the server has, unless a write of a form that is *)
(* gone has come in between.                                               *)
ObsoleteHidden ==
  [][form'.mounted /\ place' \in Events \ meddled'
     /\ (place' # place \/ ~form.mounted)
       => form'.event = row'[place']]_vars
=============================================================================

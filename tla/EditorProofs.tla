---------------------------- MODULE EditorProofs ----------------------------
(***************************************************************************)
(* Theorems about EventEditor for every set of events and of writes, and   *)
(* for all values of its bounds.                                           *)
(***************************************************************************)
EXTENDS EventEditor, TLAPS

-----------------------------------------------------------------------------
(* Hooks: what the operators on them leave in the fields.                  *)

LEMMA HookFields ==
  ASSUME NEW paths, NEW data, NEW h \in Hooks(paths, data),
         NEW path \in paths \cup {None}
  PROVE  LET k == OnPath(h, path) IN
         /\ k \in Hooks(paths, data)
         /\ k.path = path /\ k.got = h.got
         /\ IF h.path = path THEN k.load = h.load
            ELSE /\ k.load.phase \in {"idle", "sent"}
                 /\ k.load.phase = "sent" => path # None
  BY DEF Hooks, OnPath, Requested, NoLoad

LEMMA NoHookFields ==
  ASSUME NEW paths, NEW data
  PROVE  /\ NoHook \in Hooks(paths, data)
         /\ NoHook.path = None /\ NoHook.load.phase = "idle" /\ NoHook.got.data = None
  BY DEF Hooks, NoHook, NoLoad, NothingGot

LEMMA ReloadedFields ==
  ASSUME NEW paths, NEW data, NEW h \in Hooks(paths, data)
  PROVE  LET k == Reloaded(h) IN
         /\ k \in Hooks(paths, data)
         /\ k.path = h.path /\ k.got.data = None
         /\ k.load.phase \in {"idle", "sent"}
         /\ k.load.phase = "sent" => h.path # None
  BY DEF Hooks, Reloaded, Requested, NoLoad, NothingGot

LEMMA ReceivedFields ==
  ASSUME NEW paths, NEW data, NEW h \in Hooks(paths, data),
         NEW d \in data \cup {None, Failed}
  PROVE  LET k == Received(h, d) IN
         /\ k \in Hooks(paths, data)
         /\ k.path = h.path /\ k.got.data = d /\ k.load.phase = "idle"
  BY DEF Hooks, Received, NoLoad

LEMMA ReadFields ==
  ASSUME NEW paths, NEW data, NEW h \in Hooks(paths, data), NEW d \in data
  PROVE  LET k == [h EXCEPT !.load = [phase |-> "read", data |-> d]] IN
         /\ k \in Hooks(paths, data)
         /\ k.path = h.path /\ k.got = h.got
         /\ k.load.phase = "read" /\ k.load.data = d
  BY DEF Hooks

(* Forms and writes.                                                       *)
LEMMA FreshFields ==
  ASSUME NEW r \in Rows
  PROVE  LET f == Fresh(r) IN
         /\ f \in Forms /\ f.mounted /\ f.event = r /\ ~f.dirty /\ f.draft = 0
         /\ ~f.pending /\ ~f.saved /\ f.action = "none"
         /\ f.tickets = NoTickets /\ f.tickets.acked = 0
  BY EditorAssumption DEF Forms, Fresh, NoTickets

LEMMA ClosedFields ==
  /\ Closed \in Forms /\ ~Closed.mounted /\ ~Closed.dirty /\ Closed.draft = 0
  /\ ~Closed.pending /\ ~Closed.saved /\ Closed.action = "none"
  /\ Closed.tickets.acked = 0
  <1>1. NoRow \in Rows
    BY EditorAssumption DEF NoRow, Rows
  <1>2. Fresh(NoRow) \in Forms
    BY <1>1, FreshFields
  <1>3. QED
    BY <1>1, <1>2, FreshFields DEF Closed, Forms

LEMMA IdleFields ==
  /\ Idle \in WriteRecords /\ Idle.op = "none" /\ ~Idle.mine /\ Idle.phase = "idle"
  /\ Idle.event = None
  BY EditorAssumption DEF Idle, WriteRecords

(* A write that is rendered, or answered, keeps what it was sent with.      *)
LEMMA AwaitedFields ==
  ASSUME NEW x \in WriteRecords
  PROVE  Awaited(x) \in WriteRecords /\ Awaited(x) \in {x, Idle}
  BY IdleFields DEF Awaited

LEMMA RowFields == NoRow \in Rows /\ NoRow.status = "none" /\ "none" \notin Statuses
  BY EditorAssumption DEF NoRow, Rows, Statuses

-----------------------------------------------------------------------------
(* Rendering: what is left on the screen.  A form survives where it is; any *)
(* other form is new, or there is none.                                    *)
LEMMA RenderForm ==
  ASSUME NEW p \in Places, NEW u \in BOOLEAN,
         NEW h \in Hooks(Events, Rows), NEW t \in Hooks(Events \X (1 .. TicketPages), 0 .. MaxEdits),
         NEW f \in Forms, NEW ws \in [Writes -> WriteRecords], Render(p, u, h, t, f, ws),
         f.mounted = form.mounted
  PROVE  /\ place' = p /\ user' = u /\ eventHook' = EventPath(h, p, u)
         /\ eventHook' \in Hooks(Events, Rows) /\ form' \in Forms
         /\ form'.mounted /\ form.mounted /\ p = place => form' = f
         /\ form'.mounted /\ ~(form.mounted /\ p = place) =>
              \E r \in Rows : /\ form' = Fresh(r)
                              /\ p = "new" => r = NoRow
                              /\ p \in Events => r = eventHook'.got.data /\ r \notin {None, Failed}
         /\ form'.mounted => u /\ p \in Editors
         /\ ~form'.mounted => form' = Closed
         /\ form.mounted /\ ~form'.mounted /\ p = place /\ u /\ p \in Editors =>
              Shown(eventHook') \in {None, Failed}
  <1> DEFINE h1 == EventPath(h, p, u)
             open == FormOpen(h1, p, u)
             same == form.mounted /\ open /\ p = place
             r == IF p = "new" THEN NoRow ELSE Shown(h1)
             f1 == IF ~open THEN Closed ELSE IF same THEN f ELSE Fresh(r)
  <1>1. place' = p /\ user' = u /\ eventHook' = h1 /\ form' = f1
    BY Zenon DEF Render
  <1>2. h1 \in Hooks(Events, Rows)
    <2>1. ASSUME NEW path \in Events \cup {None} PROVE OnPath(h, path) \in Hooks(Events, Rows)
      BY HookFields
    <2>2. QED
      BY <2>1, NoHookFields DEF EventPath
  <1>3. open => u /\ p \in Editors /\ (p # "new" => Shown(h1) \notin {None, Failed})
    BY DEF FormOpen, InEditor, Editors
  <1>4. ~open /\ u /\ p \in Editors => Shown(h1) \in {None, Failed}
    BY DEF FormOpen, InEditor, Editors
  <1>5. Shown(h1) \notin {None, Failed} => Shown(h1) = h1.got.data /\ h1.got.data \in Rows
    BY <1>2 DEF Shown, Hooks
  <1>6. open => r \in Rows
    BY <1>3, <1>5, RowFields
  <1>7. p \in Events => p # "new"
    BY EditorAssumption
  <1> HIDE DEF h1, open
  <1>8. place' = p /\ user' = u /\ eventHook' = EventPath(h, p, u)
    BY Zenon DEF Render
  <1>9. CASE ~open
    BY <1>1, <1>2, <1>4, <1>9, <1>8, ClosedFields
  <1>10. CASE open /\ same
    BY <1>1, <1>2, <1>3, <1>10, <1>8
  <1>11. CASE open /\ ~same
    <2>1. form' = Fresh(r) /\ Fresh(r) \in Forms /\ Fresh(r).mounted
      BY <1>1, <1>6, <1>11, FreshFields
    <2>2. /\ p = "new" => r = NoRow
          /\ p \in Events => r = h1.got.data /\ r \notin {None, Failed}
      BY <1>3, <1>5, <1>7, <1>11
    <2> HIDE DEF r
    <2>3. QED
      BY <1>1, <1>2, <1>3, <1>6, <1>11, <1>8, <2>1, <2>2
  <1>12. QED
    BY <1>9, <1>10, <1>11

LEMMA RenderTickets ==
  ASSUME NEW p \in Places, NEW u \in BOOLEAN,
         NEW h \in Hooks(Events, Rows), NEW t \in Hooks(Events \X (1 .. TicketPages), 0 .. MaxEdits),
         NEW f \in Forms, NEW ws \in [Writes -> WriteRecords], Render(p, u, h, t, f, ws),
         f.mounted = form.mounted
  PROVE  \/ ticketHook' = NoHook
         \/ /\ form'.mounted /\ p \in Events
            /\ \E path \in Events \X (1 .. TicketPages) :
                 ticketHook' = OnPath(IF form.mounted /\ p = place THEN t ELSE NoHook, path)
  <1> DEFINE h1 == EventPath(h, p, u)
             open == FormOpen(h1, p, u)
             same == form.mounted /\ open /\ p = place
  <1>1. ticketHook' = IF open /\ p \in Events
                      THEN TicketPath(IF same THEN t ELSE NoHook, p, form'.tickets.page)
                      ELSE NoHook
    BY Zenon DEF Render
  <1>2. form' = IF ~open THEN Closed ELSE IF same THEN f
                ELSE Fresh(IF p = "new" THEN NoRow ELSE Shown(h1))
    BY Zenon DEF Render
  <1>3. form' \in Forms
    BY RenderForm
  <1>4. form'.tickets.page \in 1 .. TicketPages
    BY <1>3 DEF Forms
  <1>5. CASE open /\ p \in Events
    <2>1. ticketHook' = OnPath(IF form.mounted /\ p = place THEN t ELSE NoHook,
                               <<p, form'.tickets.page>>)
      BY <1>1, <1>5 DEF TicketPath
    <2>2. form'.mounted
      <3>1. same => form' = f /\ f.mounted
        <4>1. same => form' = f
          BY <1>2
        <4>2. QED
          BY <4>1
      <3>2. QED
        BY <1>2, <1>5, <3>1 DEF Fresh
    <2>3. QED
      BY <1>4, <1>5, <2>1, <2>2
  <1>6. QED
    BY <1>1, <1>5

LEMMA RenderWrites ==
  ASSUME NEW p \in Places, NEW u \in BOOLEAN, NEW h, NEW t, NEW f,
         NEW ws \in [Writes -> WriteRecords], Render(p, u, h, t, f, ws),
         f.mounted = form.mounted, form.mounted \in BOOLEAN
  PROVE  /\ write' \in [Writes -> WriteRecords]
         /\ \A w \in Writes :
              \/ write'[w] = Idle
              \/ /\ write'[w].op = ws[w].op /\ write'[w].event = ws[w].event
                 /\ write'[w].content = ws[w].content /\ write'[w].phase = ws[w].phase
                 /\ write'[w].result = ws[w].result /\ write'[w].rev = ws[w].rev
                 /\ write'[w].mine =>
                      ws[w].mine /\ p = place /\ (ws[w].op = "profile" \/ form'.mounted)
  <1> DEFINE open == FormOpen(EventPath(h, p, u), p, u)
             m(w) == Mine(ws[w], p) /\ (ws[w].op = "profile" \/ open)
             c(w) == ws[w].current /\ u
             x(w) == [ws[w] EXCEPT !.mine = m(w), !.current = c(w)]
  <1>1. write' = [w \in Writes |-> Awaited(x(w))]
    BY Zenon DEF Render
  <1>2. open /\ form.mounted /\ p = place => form' = f
    BY DEF Render
  <1>3. open /\ ~(form.mounted /\ p = place) => form'.mounted
    BY DEF Render, Fresh
  <1>4. open => form'.mounted
    BY <1>2, <1>3
  <1> HIDE DEF open
  <1>5. ASSUME NEW w \in Writes
        PROVE  /\ x(w) \in WriteRecords
               /\ x(w).op = ws[w].op /\ x(w).event = ws[w].event
               /\ x(w).content = ws[w].content /\ x(w).phase = ws[w].phase
               /\ x(w).result = ws[w].result /\ x(w).rev = ws[w].rev
               /\ x(w).mine => ws[w].mine /\ p = place /\ (ws[w].op = "profile" \/ open)
    <2>1. ws[w] \in WriteRecords
      OBVIOUS
    <2>2. m(w) \in BOOLEAN /\ c(w) \in BOOLEAN
      OBVIOUS
    <2>3. m(w) => ws[w].mine /\ p = place /\ (ws[w].op = "profile" \/ open)
      BY DEF Mine
    <2> HIDE DEF m, c
    <2>4. QED
      BY <2>1, <2>2, <2>3 DEF WriteRecords
  <1> HIDE DEF x
  <1>6. ASSUME NEW w \in Writes
        PROVE  write'[w] \in WriteRecords /\ write'[w] \in {x(w), Idle}
    BY <1>1, <1>5, AwaitedFields
  <1>7. write' \in [Writes -> WriteRecords]
    BY <1>1, <1>6
  <1>8. QED
    BY <1>4, <1>5, <1>6, <1>7

-----------------------------------------------------------------------------
(* The inductive invariant.  One save, dialog or duplicate at a time        *)
(* belongs to the form that is mounted, whose buttons are disabled for so   *)
(* long; what it was answered is what the server has, unless a write of a   *)
(* form that is gone came in between.  A hook loads for the page that is    *)
(* mounted and has nothing older than the editor was told of.               *)

Main == {"create", "save", "publish", "unpublish", "cancel", "duplicate"}
Storing == {"save", "publish", "unpublish", "cancel"}
OnEvent == Storing \cup {"ticket", "refund-policy", "duplicate"}

(* The fields of every variable: the first part of TypeOK.                  *)
Shaped ==
  /\ row \in [Events -> Rows] /\ ticketRev \in [Events -> 0 .. MaxEdits]
  /\ user \in BOOLEAN /\ place \in Places /\ came \in Editors \cup {None}
  /\ eventHook \in Hooks(Events, Rows)
  /\ ticketHook \in Hooks(Events \X (1 .. TicketPages), 0 .. MaxEdits)
  /\ form \in Forms /\ write \in [Writes -> WriteRecords]
  /\ meddled \subseteq Events /\ edits \in 0 .. MaxEdits
  /\ sent \in 0 .. MaxWrites

Standing ==
  /\ \A e \in Events : row[e] # NoRow => row[e].status \in Statuses
  /\ \A p \in {place, came} \cap Events : row[p] # NoRow

(* A write on the way to, or answered by, the server.                       *)
WriteOf(x) ==
  /\ x.event \in Events => row[x.event] # NoRow
  /\ x.op \in OnEvent => x.event \in Events
  /\ x.op = "create" /\ x.phase = "ok" => x.event \in Events
  /\ x.op = "create" /\ x.phase = "sent" => x.event = None
  /\ x.op = "profile" => x.event = None
  /\ x.op \in Storing /\ x.phase = "ok" =>
       /\ x.result \in Rows /\ x.result.status \in Statuses
       /\ x.op = "save" => x.result.content = x.content
  /\ x.op = "ticket" /\ x.phase = "ok" => x.rev <= ticketRev[x.event]

(* A write x of the screen at p, with the form f.                           *)
Own(x, f, p) ==
  /\ x.op # "none"
  /\ x.op = "profile" => p = "profile"
  /\ x.op # "profile" => f.mounted
  /\ x.op \in OnEvent \ {"duplicate"} => x.event = p
  /\ x.op \in Main => f.pending /\ ~f.saved
  /\ x.op = "save" => f.action = "none" /\ (f.dirty => x.content = f.draft)
  /\ x.op \in Main \ {"create", "save"} => ~f.dirty
  /\ x.op \in Storing /\ x.phase = "ok" /\ p \notin meddled => x.result = row[p]

WritesAt(ws, f, p) ==
  /\ \A w \in Writes : WriteOf(ws[w]) /\ (ws[w].mine => Own(ws[w], f, p))
  /\ \A w, v \in Writes :
       ws[w].mine /\ ws[w].op \in Main /\ ws[v].mine /\ ws[v].op \in Main => w = v

FormAt(f, p, u) ==
  /\ f.draft <= edits
  /\ ~f.mounted => f = Closed
  /\ f.mounted =>
       /\ u /\ p \in Editors
       /\ p = "new" => f.event = NoRow
       /\ p \in Events => f.event.status \in Statuses /\ f.tickets.acked <= ticketRev[p]
       /\ f.saved /\ p \notin meddled => p \in Events /\ row[p] = f.event /\ ~f.dirty
  /\ f.action # "none" =>
       /\ f.event.status \in {"draft", "published"}
       /\ f.action \in {Toggle(f.event.status), "cancel"}

EventHookAt(h, p, u) ==
  /\ h.path # None => u /\ h.path = p
  /\ h.load.phase # "idle" => h.path # None
  /\ h.got.data \notin {None, Failed} => h.got.data.status \in Statuses

TicketHookAt(t, f, p) ==
  /\ t.path # None => f.mounted /\ p \in Events
  /\ t.load.phase # "idle" => t.path # None
  /\ t.load.phase = "read" => t.load.data >= f.tickets.acked
  /\ t.got.data \notin {None, Failed} => t.got.data >= f.tickets.acked

Screens ==
  /\ Standing
  /\ WritesAt(write, form, place)
  /\ FormAt(form, place, user)
  /\ EventHookAt(eventHook, place, user)
  /\ TicketHookAt(ticketHook, form, place)

LEMMA RenderKeeps ==
  ASSUME Shaped, Standing, FormAt(form, place, user),
         NEW p \in Places, p \in Events => row[p] # NoRow, NEW u \in BOOLEAN,
         NEW h \in Hooks(Events, Rows), EventHookAt(h, place, user),
         NEW t \in Hooks(Events \X (1 .. TicketPages), 0 .. MaxEdits),
         NEW f \in Forms, f.mounted = form.mounted, FormAt(f, place, user),
         TicketHookAt(t, f, place),
         NEW ws \in [Writes -> WriteRecords], WritesAt(ws, f, place),
         Render(p, u, h, t, f, ws), UNCHANGED <<server, meddled, bounds>>,
         came' \in Editors \cup {None}, came' \in Events => row[came'] # NoRow
  PROVE  Shaped' /\ Screens'
  <1>1. form.mounted \in BOOLEAN
    BY DEF Shaped, Forms
  <1>2. /\ place' = p /\ user' = u /\ eventHook' = EventPath(h, p, u)
        /\ eventHook' \in Hooks(Events, Rows) /\ form' \in Forms
    BY RenderForm
  <1>3. UNCHANGED <<row, ticketRev, meddled, edits, sent>>
    BY DEF server, bounds
  <1>4. \/ form' = Closed
        \/ form'.mounted /\ u /\ p \in Editors /\ form.mounted /\ p = place /\ form' = f
        \/ /\ form'.mounted /\ u /\ p \in Editors
           /\ \E r \in Rows : /\ form' = Fresh(r)
                              /\ p = "new" => r = NoRow
                              /\ p \in Events => r = eventHook'.got.data /\ r \notin {None, Failed}
    BY RenderForm
  <1>5. EventHookAt(eventHook, place, user)'
    <2>1. CASE eventHook' = NoHook
      BY <2>1, NoHookFields DEF EventHookAt
    <2>2. ASSUME NEW path \in Events \cup {None}, eventHook' = OnPath(h, path), u,
                 path # None => path = p
          PROVE  EventHookAt(eventHook, place, user)'
      <3> DEFINE k == OnPath(h, path)
      <3>1. /\ k.path = path /\ k.got = h.got
            /\ IF h.path = path THEN k.load = h.load
               ELSE k.load.phase = "sent" \/ k.load.phase = "idle"
            /\ h.path # path => (k.load.phase = "sent" => path # None)
        BY HookFields
      <3> HIDE DEF k
      <3>2. eventHook' = k
        BY <2>2 DEF k
      <3>3. QED
        BY <1>2, <2>2, <3>1, <3>2 DEF EventHookAt
    <2>3. QED
      BY <1>2, <2>1, <2>2 DEF EventPath, InEditor
  <1>6. FormAt(form, place, user)'
    <2>1. CASE form' = Closed
      BY <1>2, <1>3, <2>1, ClosedFields DEF FormAt, Shaped
    <2>2. CASE form'.mounted /\ u /\ p \in Editors /\ form.mounted /\ p = place /\ form' = f
      BY <1>2, <1>3, <2>2 DEF FormAt
    <2>3. ASSUME form'.mounted /\ u /\ p \in Editors, NEW r \in Rows, form' = Fresh(r),
                 p = "new" => r = NoRow,
                 p \in Events => r = eventHook'.got.data /\ r \notin {None, Failed}
          PROVE  FormAt(form, place, user)'
      <3>1. p \in Events => r.status \in Statuses
        BY <1>5, <2>3 DEF EventHookAt
      <3>2. /\ form'.event = r /\ form'.draft = 0 /\ ~form'.saved /\ form'.action = "none"
            /\ form'.tickets.acked = 0
        BY <2>3, FreshFields
      <3>3. edits \in Nat /\ (p \in Events => ticketRev[p] \in Nat)
        BY DEF Shaped
      <3>4. QED
        BY <1>2, <1>3, <2>3, <3>1, <3>2, <3>3 DEF FormAt
    <2>4. QED
      BY <1>4, <2>1, <2>2, <2>3
  <1>7. /\ ticketHook' \in Hooks(Events \X (1 .. TicketPages), 0 .. MaxEdits)
        /\ TicketHookAt(ticketHook, form, place)'
    <2>1. CASE ticketHook' = NoHook
      BY <2>1, NoHookFields DEF TicketHookAt
    <2>2. ASSUME form'.mounted, p \in Events, NEW path \in Events \X (1 .. TicketPages),
                 ticketHook' = OnPath(IF form.mounted /\ p = place THEN t ELSE NoHook, path)
          PROVE  /\ ticketHook' \in Hooks(Events \X (1 .. TicketPages), 0 .. MaxEdits)
                 /\ TicketHookAt(ticketHook, form, place)'
      <3>1. CASE form.mounted /\ p = place
        <4>1. form' = f
          BY <2>2, <3>1, RenderForm
        <4>2. ticketHook' = OnPath(t, path)
          BY <2>2, <3>1
        <4> DEFINE k == OnPath(t, path)
        <4>3. /\ k \in Hooks(Events \X (1 .. TicketPages), 0 .. MaxEdits)
              /\ k.path = path /\ k.got = t.got
              /\ IF t.path = path THEN k.load = t.load
                 ELSE k.load.phase = "sent" \/ k.load.phase = "idle"
              /\ t.path # path => (k.load.phase = "sent" => path # None)
          BY HookFields
        <4> HIDE DEF k
        <4>4. ticketHook' = k
          BY <4>2 DEF k
        <4>5. QED
          BY <1>2, <2>2, <4>1, <4>3, <4>4 DEF TicketHookAt
      <3>2. CASE ~(form.mounted /\ p = place)
        <4>1. ticketHook' = OnPath(NoHook, path)
          BY <2>2, <3>2
        <4>2. NoHook \in Hooks(Events \X (1 .. TicketPages), 0 .. MaxEdits)
          BY NoHookFields
        <4>3. QED
          BY <1>2, <2>2, <4>1, <4>2, HookFields, NoHookFields DEF TicketHookAt
      <3>3. QED
        BY <3>1, <3>2
    <2>3. \/ ticketHook' = NoHook
          \/ /\ form'.mounted /\ p \in Events
             /\ \E path \in Events \X (1 .. TicketPages) :
                  ticketHook' = OnPath(IF form.mounted /\ p = place THEN t ELSE NoHook, path)
      BY RenderTickets
    <2>4. QED
      BY <2>1, <2>2, <2>3
  <1>8. write' \in [Writes -> WriteRecords] /\ WritesAt(write, form, place)'
    <2>1. write' \in [Writes -> WriteRecords]
      BY <1>1, RenderWrites
    <2>2. ASSUME NEW w \in Writes
          PROVE  /\ WriteOf(write[w])'
                 /\ write'[w].mine => Own(write[w], form, place)'
                 /\ write'[w].mine => ws[w].mine /\ write'[w].op = ws[w].op
      <3>1. CASE write'[w] = Idle
        BY <3>1, IdleFields, EditorAssumption DEF WriteOf, OnEvent, Storing
      <3>2. CASE /\ write'[w].op = ws[w].op /\ write'[w].event = ws[w].event
                 /\ write'[w].content = ws[w].content /\ write'[w].phase = ws[w].phase
                 /\ write'[w].result = ws[w].result /\ write'[w].rev = ws[w].rev
                 /\ write'[w].mine =>
                      ws[w].mine /\ p = place /\ (ws[w].op = "profile" \/ form'.mounted)
        <4>1. WriteOf(ws[w]) /\ (ws[w].mine => Own(ws[w], f, place))
          BY DEF WritesAt
        <4>2. WriteOf(write[w])'
          BY <1>3, <3>2, <4>1 DEF WriteOf
        <4>3. ASSUME write'[w].mine, ws[w].op # "profile" PROVE form' = f
          <5>1. form.mounted /\ form'.mounted /\ p = place
            BY <3>2, <4>1, <4>3 DEF Own
          <5>2. QED
            BY <5>1, RenderForm
        <4>4. ASSUME write'[w].mine PROVE Own(write[w], form, place)'
          BY <1>2, <1>3, <3>2, <4>1, <4>3, <4>4 DEF Own, Main, OnEvent, Storing
        <4>5. QED
          BY <3>2, <4>2, <4>4
      <3>3. QED
        BY <1>1, <3>1, <3>2, RenderWrites
    <2>3. ASSUME NEW w \in Writes, NEW v \in Writes,
                 write'[w].mine, write'[w].op \in Main, write'[v].mine, write'[v].op \in Main
          PROVE  w = v
      BY <2>2, <2>3 DEF WritesAt
    <2>4. QED
      BY <2>1, <2>2, <2>3 DEF WritesAt
  <1>9. Standing'
    BY <1>2, <1>3 DEF Standing
  <1>10. Shaped'
    BY <1>2, <1>3, <1>7, <1>8 DEF Shaped
  <1>11. QED
    BY <1>5, <1>6, <1>7, <1>8, <1>9, <1>10 DEF Screens

-----------------------------------------------------------------------------
(* The steps that render.                                                  *)

LEMMA HookReloaded ==
  ASSUME NEW h \in Hooks(Events, Rows), NEW p, NEW u, EventHookAt(h, p, u)
  PROVE  Reloaded(h) \in Hooks(Events, Rows) /\ EventHookAt(Reloaded(h), p, u)
  <1> DEFINE k == Reloaded(h)
  <1>1. /\ k \in Hooks(Events, Rows) /\ k.path = h.path /\ k.got.data = None
        /\ k.load.phase \in {"idle", "sent"}
        /\ k.load.phase = "sent" => h.path # None
    BY ReloadedFields
  <1> HIDE DEF k
  <1>2. k \in Hooks(Events, Rows) /\ EventHookAt(k, p, u)
    BY <1>1 DEF EventHookAt
  <1>3. QED
    BY <1>2 DEF k

LEMMA HookReceived ==
  ASSUME NEW h \in Hooks(Events, Rows), NEW p, NEW u, EventHookAt(h, p, u),
         NEW d \in Rows \cup {Failed}, d # Failed => d.status \in Statuses
  PROVE  Received(h, d) \in Hooks(Events, Rows) /\ EventHookAt(Received(h, d), p, u)
  <1> DEFINE k == Received(h, d)
  <1>1. /\ k \in Hooks(Events, Rows) /\ k.path = h.path /\ k.got.data = d
        /\ k.load.phase = "idle"
    BY ReceivedFields
  <1> HIDE DEF k
  <1>2. k \in Hooks(Events, Rows) /\ EventHookAt(k, p, u)
    BY <1>1 DEF EventHookAt
  <1>3. QED
    BY <1>2 DEF k

LEMMA TicketsReloaded ==
  ASSUME NEW t \in Hooks(Events \X (1 .. TicketPages), 0 .. MaxEdits),
         NEW f, NEW g, NEW p, TicketHookAt(t, f, p), g.mounted = f.mounted
  PROVE  /\ Reloaded(t) \in Hooks(Events \X (1 .. TicketPages), 0 .. MaxEdits)
         /\ TicketHookAt(Reloaded(t), g, p)
  <1> DEFINE k == Reloaded(t)
  <1>1. /\ k \in Hooks(Events \X (1 .. TicketPages), 0 .. MaxEdits)
        /\ k.path = t.path /\ k.got.data = None
        /\ k.load.phase \in {"idle", "sent"}
        /\ k.load.phase = "sent" => t.path # None
    BY ReloadedFields
  <1> HIDE DEF k
  <1>2. k \in Hooks(Events \X (1 .. TicketPages), 0 .. MaxEdits) /\ TicketHookAt(k, g, p)
    BY <1>1 DEF TicketHookAt
  <1>3. QED
    BY <1>2 DEF k

(* A write is done; only the one that the buttons wait for frees them.     *)
LEMMA WithoutWrite ==
  ASSUME Shaped, WritesAt(write, form, place), NEW w \in Writes,
         NEW f, f.mounted = form.mounted,
         \/ write[w].mine /\ write[w].op \in Main
         \/ /\ f.pending = form.pending /\ f.saved = form.saved /\ f.action = form.action
            /\ f.dirty = form.dirty /\ f.draft = form.draft
  PROVE  Done(w) \in [Writes -> WriteRecords] /\ WritesAt(Done(w), f, place)
  <1> DEFINE ws == Done(w)
  <1>1. ws \in [Writes -> WriteRecords]
        /\ \A v \in Writes : ws[v] = IF v = w THEN Idle ELSE write[v]
    BY IdleFields DEF Shaped, Done
  <1> HIDE DEF ws
  <1>2. ASSUME NEW v \in Writes
        PROVE  WriteOf(ws[v]) /\ (ws[v].mine => Own(ws[v], f, place))
    <2>1. CASE v = w
      BY <1>1, <2>1, IdleFields, EditorAssumption DEF WriteOf, OnEvent, Storing
    <2>2. CASE v # w
      <3>1. ws[v] = write[v] /\ WriteOf(write[v])
            /\ (write[v].mine => Own(write[v], form, place))
        BY <1>1, <2>2 DEF WritesAt
      <3>2. ASSUME write[v].mine PROVE Own(write[v], f, place)
        <4>1. CASE write[v].op \in Main
          <5>1. ~(write[w].mine /\ write[w].op \in Main)
            BY <2>2, <3>2, <4>1 DEF WritesAt
          <5>2. QED
            BY <3>1, <3>2, <5>1 DEF Own
        <4>2. CASE write[v].op \notin Main
          BY <3>1, <3>2, <4>2 DEF Own, Main, Storing
        <4>3. QED
          BY <4>1, <4>2
      <3>3. QED
        BY <3>1, <3>2
    <2>3. QED
      BY <2>1, <2>2
  <1>3. ASSUME NEW v \in Writes, NEW z \in Writes,
               ws[v].mine /\ ws[v].op \in Main /\ ws[z].mine /\ ws[z].op \in Main
        PROVE  v = z
    <2>1. ws[v] = write[v] /\ ws[z] = write[z]
      BY <1>1, <1>3, IdleFields
    <2>2. QED
      BY <1>3, <2>1 DEF WritesAt
  <1>4. WritesAt(ws, f, place)
    BY <1>2, <1>3 DEF WritesAt
  <1>5. QED
    BY <1>1, <1>4 DEF ws

LEMMA RoutingKeeps ==
  ASSUME Shaped, Screens,
         (\E p \in Places : Navigate(p)) \/ Back \/ SessionEnds \/ SignsIn
  PROVE  Shaped' /\ Screens'
  <1> DEFINE Kept == Shaped' /\ Screens'
  <1>1. ASSUME NEW p \in Places, p \in Events => row[p] # NoRow, NEW u \in BOOLEAN,
               Render(p, u, eventHook, ticketHook, form, write),
               UNCHANGED <<server, meddled, bounds>>, came' \in {None, came}
        PROVE  Kept
    <2>1. came' \in Editors \cup {None} /\ (came' \in Events => row[came'] # NoRow)
      BY <1>1, EditorAssumption DEF Screens, Standing, Shaped
    <2>2. QED
      BY <1>1, <2>1, RenderKeeps DEF Screens, Shaped
  <1>2. ASSUME NEW p \in Places, Navigate(p) PROVE Kept
    BY <1>1, <1>2 DEF Navigate, Shaped
  <1>3. CASE Back
    <2>1. came \in Places /\ (came \in Events => row[came] # NoRow)
      BY <1>3 DEF Back, Shaped, Screens, Standing, Editors, Places
    <2>2. QED
      BY <1>1, <1>3, <2>1 DEF Back, Shaped
  <1>4. CASE SessionEnds
    <2>1. "elsewhere" \in Places /\ "elsewhere" \notin Events
      BY EditorAssumption DEF Places
    <2>2. QED
      BY <1>1, <1>4, <2>1 DEF SessionEnds
  <1>5. CASE SignsIn
    BY <1>1, <1>5 DEF SignsIn
  <1>6. QED
    BY <1>2, <1>3, <1>4, <1>5

LEMMA LoadsKeep ==
  ASSUME Shaped, Screens, ReloadEvent \/ EventLoaded
  PROVE  Shaped' /\ Screens'
  <1> DEFINE Kept == Shaped' /\ Screens'
  <1>1. /\ place \in Places /\ (place \in Events => row[place] # NoRow)
        /\ came \in Editors \cup {None} /\ (came \in Events => row[came] # NoRow)
        /\ eventHook \in Hooks(Events, Rows) /\ EventHookAt(eventHook, place, user)
        /\ user \in BOOLEAN
    BY DEF Shaped, Screens, Standing
  <1>2. ASSUME NEW h \in Hooks(Events, Rows), EventHookAt(h, place, user),
               Render(place, user, h, ticketHook, form, write),
               UNCHANGED <<server, came, meddled, bounds>>
        PROVE  Kept
    BY <1>1, <1>2, RenderKeeps DEF Screens, Shaped
  <1>3. CASE ReloadEvent
    BY <1>1, <1>2, <1>3, HookReloaded DEF ReloadEvent
  <1>4. CASE EventLoaded
    <2>1. PICK data \in {row[place], Failed} :
            Render(place, user, Received(eventHook, data), ticketHook, form, write)
      BY <1>4 DEF EventLoaded
    <2>2. place \in Events
      <3>1. eventHook.path # None /\ eventHook.path = place
        BY <1>1, <1>4 DEF EventLoaded, EventHookAt
      <3>2. QED
        BY <1>1, <3>1 DEF Hooks
    <2>3. row[place] \in Rows /\ row[place].status \in Statuses
      BY <1>1, <2>2 DEF Shaped, Screens, Standing
    <2>4. QED
      BY <1>1, <1>2, <1>4, <2>1, <2>3, HookReceived DEF EventLoaded
  <1>5. QED
    BY <1>3, <1>4

LEMMA CreatedKeeps ==
  ASSUME Shaped, Screens, NEW w \in Writes, EventCreated(w) \/ ProfileSaved(w)
  PROVE  Shaped' /\ Screens'
  <1>1. /\ place \in Places /\ (place \in Events => row[place] # NoRow)
        /\ came \in Editors \cup {None} /\ (came \in Events => row[came] # NoRow)
        /\ user \in BOOLEAN /\ form \in Forms /\ form.mounted \in BOOLEAN
        /\ WritesAt(write, form, place) /\ WriteOf(write[w])
        /\ write[w].mine => Own(write[w], form, place)
    BY DEF Shaped, Screens, Standing, WritesAt, Forms
  <1>2. CASE EventCreated(w)
    <2>1. /\ write[w].phase = "ok" /\ write[w].op \in {"create", "duplicate"}
          /\ came' \in {place, came} /\ (came' = place => place \in Editors \/ came = place)
          /\ UNCHANGED <<server, meddled, bounds>>
      BY <1>2 DEF EventCreated, Succeeds
    <2>2. write[w].event \in Events /\ row[write[w].event] # NoRow
      BY <1>1, <2>1 DEF WriteOf, OnEvent, Storing
    <2>3. write[w].event \in Places /\ came' \in Editors \cup {None}
          /\ (came' \in Events => row[came'] # NoRow)
      BY <1>1, <2>1, <2>2 DEF Places
    <2> DEFINE f == IF write[w].mine THEN [form EXCEPT !.pending = FALSE] ELSE form
    <2>4. Render(write[w].event, user, eventHook, ticketHook, f, Done(w))
      BY <1>2 DEF EventCreated
    <2>5. /\ f \in Forms /\ f.mounted = form.mounted /\ f.event = form.event
          /\ f.dirty = form.dirty /\ f.draft = form.draft /\ f.saved = form.saved
          /\ f.action = form.action /\ f.tickets = form.tickets
          /\ ~write[w].mine => f = form
      BY <1>1 DEF Forms
    <2>6. write[w].mine => write[w].op \in Main /\ form.mounted
      BY <1>1, <2>1 DEF Main, Own
    <2> HIDE DEF f
    <2>7. FormAt(f, place, user) /\ TicketHookAt(ticketHook, f, place)
      BY <2>5, <2>6 DEF FormAt, TicketHookAt, Screens
    <2>8. Done(w) \in [Writes -> WriteRecords] /\ WritesAt(Done(w), f, place)
      BY <1>1, <2>5, <2>6, WithoutWrite
    <2>9. QED
      BY <1>1, <2>1, <2>2, <2>3, <2>4, <2>5, <2>7, <2>8, RenderKeeps DEF Screens, Shaped
  <1>3. CASE ProfileSaved(w)
    <2>1. Done(w) \in [Writes -> WriteRecords] /\ WritesAt(Done(w), form, place)
      BY <1>1, WithoutWrite
    <2>2. /\ Reloaded(eventHook) \in Hooks(Events, Rows)
          /\ EventHookAt(Reloaded(eventHook), place, user)
      BY HookReloaded DEF Shaped, Screens
    <2>3. /\ Reloaded(ticketHook) \in Hooks(Events \X (1 .. TicketPages), 0 .. MaxEdits)
          /\ TicketHookAt(Reloaded(ticketHook), form, place)
      BY TicketsReloaded DEF Shaped, Screens
    <2>4. /\ Render(place, user, Reloaded(eventHook), Reloaded(ticketHook), form, Done(w))
          /\ UNCHANGED <<server, came, meddled, bounds>>
      BY <1>3 DEF ProfileSaved
    <2>5. QED
      BY <1>1, <2>1, <2>2, <2>3, <2>4, RenderKeeps DEF Screens, Shaped
  <1>4. QED
    BY <1>2, <1>3

-----------------------------------------------------------------------------
(* The steps that do not render.  What a screen is made of, with the values *)
(* that a step leaves.                                                     *)

LEMMA WritesLater ==
  ASSUME NEW ws, NEW f, write' = ws, form' = f, UNCHANGED <<row, ticketRev, meddled, place>>,
         WritesAt(ws, f, place)
  PROVE  WritesAt(write, form, place)'
  BY DEF WritesAt, WriteOf, Own

LEMMA StandingLater ==
  ASSUME Standing, UNCHANGED <<row, place, came>>
  PROVE  Standing'
  BY DEF Standing

(* A write of the mounted form is on the way: x.                            *)
LEMMA RequestKeeps ==
  ASSUME Shaped, Screens, NEW w \in Writes, NEW op \in AllOps, NEW content \in 0 .. MaxEdits,
         Request(w, op, content), UNCHANGED <<server, meddled, router>>,
         NEW f \in Forms, form' = f, f.mounted = form.mounted,
         op = "create" <=> op \notin OnEvent \cup {"profile"},
         op \in OnEvent => place \in Events,
         op = "create" => place = "new",
         op = "profile" => place = "profile",
         op # "profile" => form.mounted,
         \/ /\ op \in Main /\ ~form.pending /\ f.pending /\ ~f.saved
            /\ op = "save" => f.action = "none" /\ (f.dirty => content = f.draft)
            /\ op \in Main \ {"create", "save"} => ~f.dirty
         \/ /\ op \notin Main
            /\ f.pending = form.pending /\ f.saved = form.saved /\ f.action = form.action
            /\ f.dirty = form.dirty /\ f.draft = form.draft
  PROVE  /\ write' \in [Writes -> WriteRecords] /\ WritesAt(write, form, place)'
         /\ UNCHANGED edits /\ sent' \in 0 .. MaxWrites
  <1> DEFINE x == [Idle EXCEPT !.op = op, !.event = IF place \in Events THEN place ELSE None,
                    !.content = content, !.mine = TRUE, !.current = TRUE, !.phase = "sent"]
             ws == [write EXCEPT ![w] = x]
  <1>1. /\ write' = ws /\ sent' = sent + 1 /\ sent < MaxWrites /\ UNCHANGED edits
        /\ write[w] = Idle
    BY DEF Request
  <1>2. x \in WriteRecords /\ x.op = op /\ x.content = content /\ x.mine /\ x.phase = "sent"
        /\ x.event = IF place \in Events THEN place ELSE None
    BY IdleFields DEF WriteRecords, Idle
  <1> HIDE DEF x
  <1>3. ws \in [Writes -> WriteRecords]
        /\ \A v \in Writes : ws[v] = IF v = w THEN x ELSE write[v]
    BY <1>2 DEF Shaped
  <1> HIDE DEF ws
  <1>4. WriteOf(x)
    BY <1>2, EditorAssumption DEF WriteOf, OnEvent, Storing, Screens, Standing
  <1>5. Own(x, f, place)
    BY <1>2, EditorAssumption DEF Own, OnEvent, Storing, Main, AllOps
  <1>6. ASSUME NEW v \in Writes, v # w
        PROVE  /\ WriteOf(write[v]) /\ (write[v].mine => Own(write[v], f, place))
               /\ op \in Main => ~(write[v].mine /\ write[v].op \in Main)
    <2>1. WriteOf(write[v]) /\ (write[v].mine => Own(write[v], form, place))
      BY DEF Screens, WritesAt
    <2>2. op \in Main => ~(write[v].mine /\ write[v].op \in Main)
      BY <2>1 DEF Own
    <2>3. CASE op \in Main
      BY <2>1, <2>2, <2>3 DEF Own, Main, Storing
    <2>4. CASE op \notin Main
      BY <2>1, <2>4 DEF Own
    <2>5. QED
      BY <2>1, <2>2, <2>3, <2>4
  <1>7. \A v, z \in Writes :
          ws[v].mine /\ ws[v].op \in Main /\ ws[z].mine /\ ws[z].op \in Main => v = z
    BY <1>2, <1>3, <1>6 DEF Screens, WritesAt
  <1>8. WritesAt(ws, f, place)
    BY <1>3, <1>4, <1>5, <1>6, <1>7 DEF WritesAt
  <1>9. sent' \in 0 .. MaxWrites
    BY <1>1, EditorAssumption DEF Shaped
  <1>10. WritesAt(write, form, place)'
    BY <1>1, <1>8, WritesLater DEF server, router
  <1>11. QED
    BY <1>1, <1>3, <1>9, <1>10

(* The form changes, and no write with it.                                 *)
LEMMA FormStepKeeps ==
  ASSUME Shaped, Screens, NEW f \in Forms, form' = f, f.mounted = form.mounted,
         UNCHANGED <<server, user, router, eventHook, meddled, write, sent>>,
         edits' \in 0 .. MaxEdits, FormAt(form, place, user)',
         ticketHook' \in Hooks(Events \X (1 .. TicketPages), 0 .. MaxEdits),
         TicketHookAt(ticketHook, form, place)',
         \/ ~form.pending
         \/ /\ f.pending = form.pending /\ f.saved = form.saved /\ f.action = form.action
            /\ f.dirty = form.dirty /\ f.draft = form.draft
  PROVE  Shaped' /\ Screens'
  <1>1. WritesAt(write, f, place)
    <2>1. ASSUME NEW v \in Writes, write[v].mine PROVE Own(write[v], f, place)
      <3>1. Own(write[v], form, place)
        BY <2>1 DEF Screens, WritesAt
      <3>2. CASE write[v].op \in Main
        BY <3>1, <3>2 DEF Own
      <3>3. CASE write[v].op \notin Main
        BY <3>1, <3>3 DEF Own, Main, Storing
      <3>4. QED
        BY <3>2, <3>3
    <2>2. QED
      BY <2>1 DEF Screens, WritesAt
  <1>2. UNCHANGED <<row, ticketRev, place, came>>
    BY DEF server, router
  <1>3. WritesAt(write, form, place)'
    BY <1>1, <1>2, WritesLater
  <1>4. Standing' /\ EventHookAt(eventHook, place, user)'
    BY <1>2, StandingLater DEF Screens, EventHookAt
  <1>5. Shaped'
    BY <1>2 DEF Shaped
  <1>6. QED
    BY <1>3, <1>4, <1>5 DEF Screens

LEMMA TypingKeeps ==
  ASSUME Shaped, Screens,
         \/ Type \/ CloseDialog
         \/ \E a \in {"publish", "unpublish", "cancel"} : OpenDialog(a)
         \/ \E open \in BOOLEAN : SelectTicket(open)
         \/ \E page \in 1 .. TicketPages : TurnPage(page)
  PROVE  Shaped' /\ Screens'
  <1> DEFINE Kept == Shaped' /\ Screens'
  <1>1. /\ form \in Forms /\ FormAt(form, place, user) /\ TicketHookAt(ticketHook, form, place)
        /\ ticketHook \in Hooks(Events \X (1 .. TicketPages), 0 .. MaxEdits)
        /\ edits \in Nat /\ edits \in 0 .. MaxEdits /\ MaxEdits \in Nat
    BY EditorAssumption DEF Shaped, Screens
  <1>2. ASSUME NEW f \in Forms, Update(f), f.mounted = form.mounted, UNCHANGED <<write, sent>>,
               edits' \in 0 .. MaxEdits, edits <= edits', f.draft <= edits',
               f.mounted, f.event = form.event, f.tickets.acked = form.tickets.acked,
               ~f.saved \/ (f.saved = form.saved /\ f.dirty = form.dirty),
               f.action # "none" => /\ f.event.status \in {"draft", "published"}
                                    /\ f.action \in {Toggle(f.event.status), "cancel"},
               \/ ~form.pending
               \/ /\ f.pending = form.pending /\ f.saved = form.saved /\ f.action = form.action
                  /\ f.dirty = form.dirty /\ f.draft = form.draft
        PROVE  Kept
    <2>1. /\ form' = f /\ UNCHANGED <<server, user, router, eventHook, ticketHook, meddled>>
          /\ UNCHANGED <<row, ticketRev, place, came>>
      BY <1>2 DEF Update, server, router
    <2>2. FormAt(form, place, user)'
      BY <1>1, <1>2, <2>1 DEF FormAt
    <2>3. TicketHookAt(ticketHook, form, place)'
      BY <1>1, <1>2, <2>1 DEF TicketHookAt
    <2>4. QED
      BY <1>1, <1>2, <2>1, <2>2, <2>3, FormStepKeeps
  <1>3. CASE Type
    <2> DEFINE f == [form EXCEPT !.dirty = TRUE, !.draft = edits + 1, !.saved = FALSE]
    <2>1. /\ Usable /\ ~form.pending /\ Update(f) /\ UNCHANGED <<write, sent>>
          /\ edits' = edits + 1 /\ edits < MaxEdits
      BY <1>3 DEF Type, Disabled
    <2>0. edits + 1 \in 0 .. MaxEdits
      BY <1>1, <2>1
    <2>2. /\ f \in Forms /\ f.mounted = form.mounted /\ f.event = form.event
          /\ f.tickets = form.tickets /\ ~f.saved /\ f.action = form.action
          /\ f.draft = edits + 1
      BY <1>1, <2>0 DEF Forms
    <2>3. form.mounted /\ form.action = "none"
      BY <2>1 DEF Usable
    <2> HIDE DEF f
    <2>4. /\ edits' \in 0 .. MaxEdits /\ edits <= edits' /\ f.draft <= edits'
          /\ f.mounted /\ f.tickets.acked = form.tickets.acked
          /\ ~f.saved \/ (f.saved = form.saved /\ f.dirty = form.dirty)
      BY <1>1, <2>1, <2>2, <2>3
    <2>5. f.action # "none" => /\ f.event.status \in {"draft", "published"}
                               /\ f.action \in {Toggle(f.event.status), "cancel"}
      BY <1>1, <2>1, <2>2, <2>3 DEF FormAt
    <2>6. QED
      BY <1>2, <2>1, <2>2, <2>4, <2>5
  <1>4. CASE CloseDialog
    <2> DEFINE f == [form EXCEPT !.action = "none"]
    <2>1. form.action # "none" /\ ~form.pending /\ Update(f) /\ UNCHANGED <<write, edits, sent>>
      BY <1>4 DEF CloseDialog
    <2>2. /\ f \in Forms /\ f.mounted = form.mounted /\ f.event = form.event
          /\ f.tickets = form.tickets /\ f.saved = form.saved /\ f.action = "none"
          /\ f.draft = form.draft /\ f.dirty = form.dirty
      BY <1>1 DEF Forms
    <2>3. form.mounted /\ form.draft <= edits
      BY <1>1, <2>1, ClosedFields DEF FormAt
    <2> HIDE DEF f
    <2>4. /\ edits' \in 0 .. MaxEdits /\ edits <= edits' /\ f.draft <= edits'
          /\ f.mounted /\ f.tickets.acked = form.tickets.acked
          /\ ~f.saved \/ (f.saved = form.saved /\ f.dirty = form.dirty)
      BY <1>1, <2>1, <2>2, <2>3
    <2>5. f.action # "none" => /\ f.event.status \in {"draft", "published"}
                               /\ f.action \in {Toggle(f.event.status), "cancel"}
      BY <1>1, <2>1, <2>2, <2>3 DEF FormAt
    <2>6. QED
      BY <1>2, <2>1, <2>2, <2>4, <2>5
  <1>5. ASSUME NEW a \in {"publish", "unpublish", "cancel"}, OpenDialog(a) PROVE Kept
    <2> DEFINE f == [form EXCEPT !.action = a]
    <2>1. /\ form.mounted /\ form.event # NoRow /\ form.event.status # "cancelled"
          /\ ~form.pending /\ a \in {Toggle(form.event.status), "cancel"}
          /\ Update(f) /\ UNCHANGED <<write, edits, sent>>
      BY <1>5 DEF OpenDialog, Usable, Ready
    <2>2. /\ f \in Forms /\ f.mounted = form.mounted /\ f.event = form.event
          /\ f.tickets = form.tickets /\ f.saved = form.saved /\ f.action = a
          /\ f.draft = form.draft /\ f.dirty = form.dirty
      BY <1>1 DEF Forms
    <2>3. form.draft <= edits /\ form.event.status \in {"draft", "published"}
      BY <1>1, <2>1 DEF FormAt, Editors, Statuses
    <2> HIDE DEF f
    <2>4. /\ edits' \in 0 .. MaxEdits /\ edits <= edits' /\ f.draft <= edits'
          /\ f.mounted /\ f.tickets.acked = form.tickets.acked
          /\ ~f.saved \/ (f.saved = form.saved /\ f.dirty = form.dirty)
      BY <1>1, <2>1, <2>2, <2>3
    <2>5. f.action # "none" => /\ f.event.status \in {"draft", "published"}
                               /\ f.action \in {Toggle(f.event.status), "cancel"}
      BY <1>1, <2>1, <2>2, <2>3 DEF FormAt
    <2>6. QED
      BY <1>2, <2>1, <2>2, <2>4, <2>5
  <1>6. ASSUME NEW open \in BOOLEAN, SelectTicket(open) PROVE Kept
    <2> DEFINE f == [form EXCEPT !.tickets.open = open]
    <2>1. form.mounted /\ Update(f) /\ UNCHANGED <<write, edits, sent>>
      BY <1>6 DEF SelectTicket, TicketsUsable, Usable
    <2>2. /\ f \in Forms /\ f.mounted = form.mounted /\ f.event = form.event
          /\ f.tickets.acked = form.tickets.acked /\ f.saved = form.saved
          /\ f.action = form.action /\ f.draft = form.draft /\ f.dirty = form.dirty
          /\ f.pending = form.pending
      BY <1>1 DEF Forms
    <2>3. form.draft <= edits
      BY <1>1 DEF FormAt
    <2> HIDE DEF f
    <2>4. /\ edits' \in 0 .. MaxEdits /\ edits <= edits' /\ f.draft <= edits'
          /\ f.mounted /\ f.tickets.acked = form.tickets.acked
          /\ ~f.saved \/ (f.saved = form.saved /\ f.dirty = form.dirty)
      BY <1>1, <2>1, <2>2, <2>3
    <2>5. f.action # "none" => /\ f.event.status \in {"draft", "published"}
                               /\ f.action \in {Toggle(f.event.status), "cancel"}
      BY <1>1, <2>1, <2>2, <2>3 DEF FormAt
    <2>6. QED
      BY <1>2, <2>1, <2>2, <2>4, <2>5
  <1>7. ASSUME NEW page \in 1 .. TicketPages, TurnPage(page) PROVE Kept
    <2> DEFINE f == [form EXCEPT !.tickets.page = page]
               k == OnPath(ticketHook, <<place, page>>)
    <2>1. /\ form.mounted /\ form' = f /\ ticketHook' = k
          /\ Shown(ticketHook) \notin {None, Failed}
          /\ UNCHANGED <<server, user, router, eventHook, write, meddled, bounds>>
      BY <1>7 DEF TurnPage, TicketsUsable, Usable, TicketPath
    <2>2. /\ f \in Forms /\ f.mounted = form.mounted /\ f.event = form.event
          /\ f.tickets.acked = form.tickets.acked /\ f.saved = form.saved
          /\ f.action = form.action /\ f.draft = form.draft /\ f.dirty = form.dirty
          /\ f.pending = form.pending
      BY <1>1 DEF Forms
    <2>3. UNCHANGED <<row, ticketRev, place, came, edits, sent>>
      BY <2>1 DEF server, router, bounds
    <2>4. place \in Events
      <3>1. form.event # NoRow
        BY <1>7 DEF TurnPage, TicketsUsable
      <3>2. QED
        BY <1>1, <2>1, <3>1 DEF FormAt, Editors
    <2>5. /\ k \in Hooks(Events \X (1 .. TicketPages), 0 .. MaxEdits)
          /\ k.path = <<place, page>> /\ k.got = ticketHook.got
          /\ IF ticketHook.path = <<place, page>> THEN k.load = ticketHook.load
             ELSE k.load.phase = "sent" \/ k.load.phase = "idle"
          /\ ticketHook.path # <<place, page>> =>
               (k.load.phase = "sent" => <<place, page>> # None)
      <3>1. <<place, page>> \in Events \X (1 .. TicketPages)
        BY <2>4
      <3>2. QED
        BY <1>1, <3>1, HookFields
    <2> HIDE DEF f, k
    <2>6. TicketHookAt(ticketHook, form, place)'
      BY <1>1, <2>1, <2>2, <2>3, <2>4, <2>5 DEF TicketHookAt
    <2>7. FormAt(form, place, user)'
      BY <1>1, <2>1, <2>2, <2>3 DEF FormAt
    <2>8. QED
      BY <1>1, <2>1, <2>2, <2>3, <2>5, <2>6, <2>7, FormStepKeeps
  <1>8. QED
    BY <1>3, <1>4, <1>5, <1>6, <1>7

(* A handler that sends a write and marks the form.                        *)
LEMMA SendingKeeps ==
  ASSUME Shaped, Screens, NEW w \in Writes, NEW op \in AllOps, NEW content \in 0 .. MaxEdits,
         Request(w, op, content), NEW f \in Forms, Update(f),
         f.mounted = form.mounted, f.event = form.event, f.draft = form.draft,
         f.dirty = form.dirty, f.action = form.action, f.tickets.acked = form.tickets.acked,
         f.mounted \/ f = form, ~f.saved \/ f.saved = form.saved,
         op = "create" <=> op \notin OnEvent \cup {"profile"},
         op \in OnEvent => place \in Events,
         op = "create" => place = "new",
         op = "profile" => place = "profile",
         op # "profile" => form.mounted,
         \/ /\ op \in Main /\ ~form.pending /\ f.pending /\ ~f.saved
            /\ op = "save" => f.action = "none" /\ (f.dirty => content = f.draft)
            /\ op \in Main \ {"create", "save"} => ~f.dirty
         \/ /\ op \notin Main
            /\ f.pending = form.pending /\ f.saved = form.saved
  PROVE  Shaped' /\ Screens'
  <1>1. /\ form' = f /\ UNCHANGED <<server, user, router, eventHook, ticketHook, meddled>>
        /\ UNCHANGED <<row, ticketRev, place, came>>
    BY DEF Update, server, router
  <1>2. /\ write' \in [Writes -> WriteRecords] /\ WritesAt(write, form, place)'
        /\ UNCHANGED edits /\ sent' \in 0 .. MaxWrites
    BY <1>1, RequestKeeps
  <1>3. FormAt(form, place, user)'
    BY <1>1, <1>2 DEF FormAt, Screens
  <1>4. TicketHookAt(ticketHook, form, place)'
    BY <1>1 DEF TicketHookAt, Screens
  <1>5. Standing' /\ EventHookAt(eventHook, place, user)'
    BY <1>1, StandingLater DEF Screens, EventHookAt
  <1>6. Shaped'
    BY <1>1, <1>2 DEF Shaped
  <1>7. QED
    BY <1>2, <1>3, <1>4, <1>5, <1>6 DEF Screens

LEMMA SubmittingKeeps ==
  ASSUME Shaped, Screens, NEW w \in Writes,
         \/ Save(w) \/ Mutate(w) \/ SaveTicket(w) \/ SaveRefundPolicy(w) \/ SaveProfile(w)
  PROVE  Shaped' /\ Screens'
  <1>1. /\ form \in Forms /\ FormAt(form, place, user) /\ 0 \in 0 .. MaxEdits
        /\ form.event \in Rows /\ form.draft \in 0 .. MaxEdits
        /\ form.event.content \in 0 .. MaxEdits
    <2>1. form \in Forms /\ FormAt(form, place, user) /\ 0 \in 0 .. MaxEdits
      BY EditorAssumption DEF Shaped, Screens
    <2>2. form.event \in Rows /\ form.draft \in 0 .. MaxEdits
      BY <2>1 DEF Forms
    <2>3. QED
      BY <2>1, <2>2 DEF Rows
  <1>2. form.mounted /\ form.event = NoRow => place = "new"
    <2>1. NoRow.status \notin Statuses
      BY RowFields
    <2>2. QED
      BY <1>1, <2>1 DEF FormAt, Editors
  <1>3. form.mounted /\ form.event # NoRow => place \in Events
    BY <1>1 DEF FormAt, Editors
  <1>4. CASE Save(w)
    <2> DEFINE f == [form EXCEPT !.pending = TRUE, !.saved = FALSE]
    <2>1. PICK op \in {"create", "save"}, content \in 0 .. MaxEdits :
            /\ Request(w, op, content) /\ Update(f)
            /\ op = "create" => form.event = NoRow
            /\ op = "save" => form.event # NoRow
            /\ form.dirty => content = form.draft
      BY <1>1, <1>4 DEF Save
    <2>2. form.mounted /\ form.action = "none" /\ ~form.pending
      BY <1>4 DEF Save, Usable, Disabled
    <2>3. /\ f \in Forms /\ f.mounted = form.mounted /\ f.event = form.event
          /\ f.draft = form.draft /\ f.dirty = form.dirty /\ f.action = form.action
          /\ f.tickets = form.tickets /\ f.pending /\ ~f.saved
      BY <1>1 DEF Forms
    <2> HIDE DEF f
    <2>4. /\ op \in AllOps /\ op \in Main /\ op # "profile"
          /\ op = "create" <=> op \notin OnEvent \cup {"profile"}
          /\ op \in OnEvent => place \in Events
          /\ op = "create" => place = "new"
          /\ op \notin Main \ {"create", "save"}
      BY <1>2, <1>3, <2>1, <2>2 DEF AllOps, Main, OnEvent, Storing
    <2>5. QED
      BY <2>1, <2>2, <2>3, <2>4, SendingKeeps
  <1>5. CASE Mutate(w)
    <2> DEFINE f == [form EXCEPT !.pending = TRUE, !.saved = FALSE]
    <2>1. PICK op \in {"duplicate", "publish", "unpublish", "cancel"} :
            Request(w, op, 0) /\ Update(f)
      BY <1>1, <1>5 DEF Mutate, Forms
    <2>2. form.mounted /\ ~form.dirty /\ ~form.pending /\ place \in Events
      BY <1>3, <1>5 DEF Mutate, Ready
    <2>3. /\ f \in Forms /\ f.mounted = form.mounted /\ f.event = form.event
          /\ f.draft = form.draft /\ f.dirty = form.dirty /\ f.action = form.action
          /\ f.tickets = form.tickets /\ f.pending /\ ~f.saved
      BY <1>1 DEF Forms
    <2> HIDE DEF f
    <2>4. /\ op \in AllOps /\ op \in Main /\ op # "profile" /\ op # "create" /\ op # "save"
          /\ op \in OnEvent
      BY <2>1 DEF AllOps, Main, OnEvent, Storing
    <2>5. QED
      BY <1>1, <2>1, <2>2, <2>3, <2>4, SendingKeeps
  <1>6. CASE SaveTicket(w)
    <2> DEFINE f == [form EXCEPT !.tickets.pending = TRUE]
    <2>1. Request(w, "ticket", 0) /\ Update(f) /\ form.mounted /\ place \in Events
      BY <1>3, <1>6 DEF SaveTicket, TicketsUsable, Usable
    <2>2. /\ f \in Forms /\ f.mounted = form.mounted /\ f.event = form.event
          /\ f.draft = form.draft /\ f.dirty = form.dirty /\ f.action = form.action
          /\ f.tickets.acked = form.tickets.acked /\ f.pending = form.pending
          /\ f.saved = form.saved
      BY <1>1 DEF Forms
    <2> HIDE DEF f
    <2>3. "ticket" \in AllOps /\ "ticket" \in OnEvent /\ "ticket" \notin Main
      BY DEF AllOps, Main, OnEvent, Storing
    <2>4. QED
      BY <1>1, <2>1, <2>2, <2>3, SendingKeeps
  <1>7. CASE SaveRefundPolicy(w)
    <2> DEFINE f == [form EXCEPT !.refunding = TRUE]
    <2>1. Request(w, "refund-policy", 0) /\ Update(f) /\ form.mounted /\ place \in Events
      BY <1>3, <1>7 DEF SaveRefundPolicy, Usable
    <2>2. /\ f \in Forms /\ f.mounted = form.mounted /\ f.event = form.event
          /\ f.draft = form.draft /\ f.dirty = form.dirty /\ f.action = form.action
          /\ f.tickets.acked = form.tickets.acked /\ f.pending = form.pending
          /\ f.saved = form.saved
      BY <1>1 DEF Forms
    <2> HIDE DEF f
    <2>3. /\ "refund-policy" \in AllOps /\ "refund-policy" \in OnEvent
          /\ "refund-policy" \notin Main
      BY DEF AllOps, Main, OnEvent, Storing
    <2>4. QED
      BY <1>1, <2>1, <2>2, <2>3, SendingKeeps
  <1>8. CASE SaveProfile(w)
    <2>1. Request(w, "profile", 0) /\ Update(form) /\ place = "profile"
      BY <1>8 DEF SaveProfile
    <2>2. "profile" \in AllOps /\ "profile" \notin OnEvent /\ "profile" \notin Main
      BY DEF AllOps, Main, OnEvent, Storing
    <2>3. QED
      BY <1>1, <2>1, <2>2, SendingKeeps
  <1>9. QED
    BY <1>4, <1>5, <1>6, <1>7, <1>8

(* The hook of the ticket types alone.                                     *)
LEMMA TicketLoadsKeep ==
  ASSUME Shaped, Screens, ReloadTickets \/ ReadTickets \/ TicketsLoaded
  PROVE  Shaped' /\ Screens'
  <1> DEFINE Kept == Shaped' /\ Screens'
             TicketHooks == Hooks(Events \X (1 .. TicketPages), 0 .. MaxEdits)
  <1>1. /\ ticketHook \in TicketHooks /\ TicketHookAt(ticketHook, form, place)
        /\ FormAt(form, place, user) /\ ticketRev \in [Events -> 0 .. MaxEdits]
    BY DEF Shaped, Screens
  <1>2. ASSUME NEW t \in TicketHooks, ticketHook' = t, TicketHookAt(t, form, place),
               UNCHANGED <<server, user, router, eventHook, form, write, meddled, bounds>>
        PROVE  Kept
    <2>1. UNCHANGED <<row, ticketRev, user, place, came, eventHook, form, write,
                      meddled, edits, sent>>
      BY <1>2 DEF server, router, bounds
    <2>2. TicketHookAt(ticketHook, form, place)'
      BY <1>2, <2>1 DEF TicketHookAt
    <2>3. FormAt(form, place, user)' /\ EventHookAt(eventHook, place, user)'
      BY <2>1 DEF Screens, FormAt, EventHookAt
    <2>4. WritesAt(write, form, place)'
      BY <2>1, WritesLater DEF Screens
    <2>5. Shaped' /\ Standing'
      BY <1>2, <2>1, StandingLater DEF Shaped, Screens
    <2>6. QED
      BY <2>2, <2>3, <2>4, <2>5 DEF Screens
  <1>3. CASE ReloadTickets
    <2>1. Reloaded(ticketHook) \in TicketHooks /\ TicketHookAt(Reloaded(ticketHook), form, place)
      BY <1>1, TicketsReloaded
    <2> DEFINE k == Reloaded(ticketHook)
    <2>2. /\ ticketHook' = k
          /\ UNCHANGED <<server, user, router, eventHook, form, write, meddled, bounds>>
      BY <1>3 DEF ReloadTickets
    <2>3. k \in TicketHooks /\ TicketHookAt(k, form, place)
      BY <2>1
    <2> HIDE DEF k, TicketHooks
    <2>4. QED
      BY <1>2, <2>2, <2>3
  <1>4. CASE ReadTickets
    <2>1. form.mounted /\ place \in Events
      BY <1>1, <1>4 DEF ReadTickets, TicketHookAt
    <2>2. /\ ticketRev[place] \in 0 .. MaxEdits /\ form.tickets.acked <= ticketRev[place]
          /\ form.tickets.acked \in Nat
      <3>1. form.tickets.acked \in Nat
        BY DEF Shaped, Forms
      <3>2. QED
        BY <1>1, <2>1, <3>1 DEF FormAt
    <2> DEFINE k == [ticketHook EXCEPT !.load = [phase |-> "read", data |-> ticketRev[place]]]
    <2>3. /\ k \in TicketHooks /\ k.path = ticketHook.path /\ k.got = ticketHook.got
          /\ k.load.phase = "read" /\ k.load.data = ticketRev[place]
      BY <1>1, <2>2 DEF Hooks
    <2>4. /\ ticketHook' = k
          /\ UNCHANGED <<server, user, router, eventHook, form, write, meddled, bounds>>
      BY <1>4 DEF ReadTickets
    <2> HIDE DEF k, TicketHooks
    <2>5. TicketHookAt(k, form, place)
      BY <1>1, <1>4, <2>2, <2>3 DEF ReadTickets, TicketHookAt
    <2>6. QED
      BY <1>2, <2>3, <2>4, <2>5
  <1>5. CASE TicketsLoaded
    <2>1. PICK data \in {Failed} \cup {d \in {ticketHook.load.data} : ticketHook.load.phase = "read"} :
            ticketHook' = Received(ticketHook, data)
      BY <1>5 DEF TicketsLoaded
    <2>2. data \in 0 .. MaxEdits \cup {None, Failed}
      BY <1>1 DEF Hooks
    <2> DEFINE k == Received(ticketHook, data)
    <2>3. /\ k \in TicketHooks /\ k.path = ticketHook.path /\ k.got.data = data
          /\ k.load.phase = "idle"
      BY <1>1, <2>2 DEF Hooks, Received, NoLoad
    <2>4. data \notin {None, Failed} => data >= form.tickets.acked
      BY <1>1, <2>1 DEF TicketHookAt
    <2> HIDE DEF k, TicketHooks
    <2>5. TicketHookAt(k, form, place)
      BY <1>1, <2>3, <2>4 DEF TicketHookAt
    <2>6. /\ ticketHook' = k
          /\ UNCHANGED <<server, user, router, eventHook, form, write, meddled, bounds>>
      BY <1>5, <2>1 DEF k, TicketsLoaded
    <2>7. QED
      BY <1>2, <2>3, <2>5, <2>6
  <1>6. QED
    BY <1>3, <1>4, <1>5

-----------------------------------------------------------------------------
(* The server answers w with the row of e.  The row of the mounted form     *)
(* changes behind its back only where the event is marked as meddled with.  *)
LEMMA AnswerKeeps ==
  ASSUME Shaped, Screens, NEW w \in Writes, NEW e \in Events \cup {None},
         NEW rev \in 0 .. MaxEdits, Answered(w, e, rev),
         UNCHANGED <<user, router, eventHook, ticketHook, form, bounds>>,
         row' \in [Events -> Rows], ticketRev' \in [Events -> 0 .. MaxEdits],
         meddled' \subseteq Events, meddled \subseteq meddled',
         \A f \in Events : /\ row[f] # NoRow => row'[f] # NoRow
                           /\ row'[f] # NoRow => row'[f].status \in Statuses
                           /\ ticketRev[f] <= ticketRev'[f],
         place \in Events \ meddled' =>
           row'[place] = row[place] \/ (write[w].mine /\ write[w].op \in Storing),
         e \in Events => row'[e] # NoRow,
         write[w].op \in OnEvent \ {"duplicate"} => e = write[w].event,
         write[w].op \in {"create", "duplicate"} => e \in Events,
         write[w].op = "profile" => e = None,
         write[w].op = "save" => row'[e].content = write[w].content,
         write[w].op = "ticket" => rev <= ticketRev'[e]
  PROVE  Shaped' /\ Screens'
  <1> DEFINE y == [write[w] EXCEPT !.phase = "ok", !.event = e, !.rev = rev,
                     !.result = IF e \in Events THEN row'[e] ELSE None]
  <1>1. /\ write[w] \in WriteRecords /\ WriteOf(write[w])
        /\ write[w].mine => Own(write[w], form, place)
        /\ write \in [Writes -> WriteRecords]
    BY DEF Shaped, Screens, WritesAt
  <1>2. /\ y \in WriteRecords /\ y.op = write[w].op /\ y.content = write[w].content
        /\ y.mine = write[w].mine /\ y.phase = "ok" /\ y.event = e /\ y.rev = rev
        /\ e \in Events => y.result = row'[e]
    BY <1>1 DEF WriteRecords
  <1>3. write' = [write EXCEPT ![w] = Awaited(y)]
    BY DEF Answered
  <1> HIDE DEF y
  <1>4. /\ write' \in [Writes -> WriteRecords]
        /\ write'[w] \in {y, Idle} /\ \A v \in Writes \ {w} : write'[v] = write[v]
    BY <1>1, <1>2, <1>3, AwaitedFields
  <1>5. UNCHANGED <<place, came, edits, sent>>
    BY DEF router, bounds
  <1>6. write[w].op \in OnEvent => e \in Events
    BY <1>1 DEF WriteOf, OnEvent, Storing
  <1>7. place \in Events => row[place] # NoRow
    BY DEF Screens, Standing
  <1>8. ASSUME NEW v \in Writes
        PROVE  /\ WriteOf(write[v])' /\ (write'[v].mine => Own(write[v], form, place)')
               /\ write'[v].mine => write[v].mine /\ write'[v].op = write[v].op
    <2>1. CASE write'[v] = Idle
      BY <2>1, IdleFields, EditorAssumption DEF WriteOf, OnEvent, Storing
    <2>2. CASE v = w /\ write'[v] = y
      <3>1. WriteOf(write[v])'
        <4>1. y.op \in Storing => /\ y.result \in Rows /\ y.result.status \in Statuses
                                  /\ y.op = "save" => y.result.content = y.content
          BY <1>2, <1>6 DEF OnEvent
        <4>2. QED
          BY <1>2, <1>6, <2>2, <4>1 DEF WriteOf, OnEvent
      <3>2. ASSUME y.mine PROVE Own(write[v], form, place)'
        <4>1. y.op \in Storing => y.result = row'[place]
          BY <1>1, <1>2, <1>6, <3>2 DEF Own, OnEvent, Storing
        <4>2. QED
          BY <1>1, <1>2, <1>5, <2>2, <3>2, <4>1 DEF Own
      <3>3. QED
        BY <1>2, <2>2, <3>1, <3>2
    <2>3. CASE v # w /\ write'[v] = write[v]
      <3>1. WriteOf(write[v]) /\ (write[v].mine => Own(write[v], form, place))
            /\ write[v] \in WriteRecords
        BY <1>1 DEF Screens, WritesAt
      <3>2. WriteOf(write[v])'
        <4>1. /\ write[v].event \in Events => row'[write[v].event] # NoRow
              /\ write[v].rev \in Nat
              /\ write[v].event \in Events =>
                   /\ ticketRev[write[v].event] \in Nat /\ ticketRev'[write[v].event] \in Nat
                   /\ ticketRev[write[v].event] <= ticketRev'[write[v].event]
          BY <3>1 DEF WriteOf, WriteRecords, Shaped
        <4>2. write[v].op = "ticket" => write[v].event \in Events
          BY <3>1 DEF WriteOf, OnEvent
        <4>3. write[v].op = "ticket" /\ write[v].phase = "ok"
                => write[v].rev <= ticketRev'[write[v].event]
          BY <3>1, <4>1, <4>2 DEF WriteOf
        <4>4. QED
          BY <2>3, <3>1, <4>1, <4>3 DEF WriteOf
      <3>3. ASSUME write[v].mine PROVE Own(write[v], form, place)'
        <4>1. Own(write[v], form, place)
          BY <3>1, <3>3
        <4>2. write[v].op \in Storing => place \in Events
          BY <3>1, <4>1 DEF Own, WriteOf, OnEvent, Storing
        <4>3. write[v].op \in Storing /\ place \notin meddled' => row'[place] = row[place]
          BY <2>3, <3>3, <4>2 DEF Screens, WritesAt, Main, Storing
        <4>4. write[v].op \in Storing /\ write[v].phase = "ok" /\ place \notin meddled'
                => write[v].result = row'[place]
          BY <4>1, <4>3 DEF Own
        <4>5. QED
          BY <1>5, <2>3, <4>1, <4>4 DEF Own
      <3>4. QED
        BY <2>3, <3>2, <3>3
    <2>4. QED
      BY <1>4, <2>1, <2>2, <2>3
  <1>9. ASSUME NEW v \in Writes, NEW z \in Writes,
               write'[v].mine /\ write'[v].op \in Main /\ write'[z].mine /\ write'[z].op \in Main
        PROVE  v = z
    BY <1>8, <1>9 DEF Screens, WritesAt
  <1>10. WritesAt(write, form, place)'
    BY <1>8, <1>9 DEF WritesAt
  <1>11. FormAt(form, place, user)'
    <2>1. FormAt(form, place, user) /\ form \in Forms
      BY DEF Screens, Shaped
    <2>2. form.mounted /\ form.saved /\ place \notin meddled' => row'[place] = row[place]
      <3>1. form.mounted /\ form.saved /\ place \notin meddled' => place \in Events
        BY <2>1 DEF FormAt
      <3>2. form.saved => ~(write[w].mine /\ write[w].op \in Storing)
        BY <1>1 DEF Own, Main, Storing
      <3>3. QED
        BY <3>1, <3>2
    <2>3. place \in Events /\ form.tickets.acked <= ticketRev[place] =>
            form.tickets.acked <= ticketRev'[place]
      <3>1. form.tickets.acked \in Nat
        BY <2>1 DEF Forms
      <3>2. place \in Events => ticketRev[place] \in Nat /\ ticketRev'[place] \in Nat
                                /\ ticketRev[place] <= ticketRev'[place]
        BY DEF Shaped
      <3>3. QED
        BY <3>1, <3>2
    <2>4. QED
      BY <1>5, <2>1, <2>2, <2>3 DEF FormAt
  <1>12. Standing'
    BY <1>5 DEF Screens, Standing
  <1>13. EventHookAt(eventHook, place, user)' /\ TicketHookAt(ticketHook, form, place)'
    BY <1>5 DEF Screens, EventHookAt, TicketHookAt
  <1>14. Shaped'
    BY <1>4, <1>5 DEF Shaped
  <1>15. QED
    BY <1>10, <1>11, <1>12, <1>13, <1>14 DEF Screens

LEMMA AfterFields ==
  ASSUME Shaped, NEW w \in Writes, write[w].event \in Events,
         row[write[w].event].status \in Statuses
  PROVE  /\ After(w) \in Rows /\ After(w).status \in Statuses
         /\ write[w].op = "save" => After(w).content = write[w].content
         /\ write[w].op \notin Storing => After(w) = row[write[w].event]
  <1> DEFINE r == row[write[w].event]
  <1>1. r \in Rows /\ write[w].content \in 0 .. MaxEdits
    BY DEF Shaped, WriteRecords
  <1>2. CASE write[w].op = "save"
    <2>1. After(w) = [r EXCEPT !.content = write[w].content]
      BY <1>2 DEF After
    <2>2. QED
      BY <1>1, <1>2, <2>1 DEF Rows, Storing
  <1>3. ASSUME NEW status \in Statuses, write[w].op # "save", write[w].op \in Storing,
               After(w) = [r EXCEPT !.status = status]
        PROVE  After(w) \in Rows /\ After(w).status \in Statuses
    BY <1>1, <1>3 DEF Rows
  <1>4. CASE write[w].op \in {"publish", "unpublish", "cancel"}
    <2>1. \E status \in Statuses : After(w) = [r EXCEPT !.status = status]
      BY <1>4 DEF After, Statuses
    <2>2. QED
      BY <1>3, <1>4, <2>1 DEF Storing
  <1>5. CASE write[w].op \notin Storing
    <2>1. After(w) = r
      BY <1>5 DEF After, Storing
    <2>2. QED
      BY <1>1, <1>5, <2>1 DEF Storing
  <1>6. QED
    BY <1>2, <1>4, <1>5 DEF Storing

LEMMA HandlingKeeps ==
  ASSUME Shaped, Screens, NEW w \in Writes, Handle(w)
  PROVE  Shaped' /\ Screens'
  <1>1. /\ write[w] \in WriteRecords /\ WriteOf(write[w])
        /\ row \in [Events -> Rows] /\ ticketRev \in [Events -> 0 .. MaxEdits]
        /\ \A f \in Events : row[f] # NoRow => row[f].status \in Statuses
        /\ place \in Events => row[place] # NoRow
        /\ \A f \in Events : ticketRev[f] \in Nat
        /\ meddled \subseteq Events /\ 0 \in 0 .. MaxEdits
    BY EditorAssumption DEF Shaped, Screens, WritesAt, Standing
  <1>2. NoRow.status \notin Statuses
    BY RowFields
  <1>3. CASE HandleChange(w)
    <2>1. PICK e \in Events : e = write[w].event
      BY <1>3 DEF HandleChange
    <2>2. /\ write[w].phase = "sent" /\ write[w].op # "duplicate"
          /\ row[e].status \in Statuses /\ row' = [row EXCEPT ![e] = After(w)]
          /\ UNCHANGED <<user, router, eventHook, ticketHook, form, bounds>>
          /\ Answered(w, e, ticketRev'[e])
      BY <1>3, <2>1 DEF HandleChange, Admits, Statuses
    <2>3. /\ After(w) \in Rows /\ After(w).status \in Statuses
          /\ write[w].op = "save" => After(w).content = write[w].content
          /\ write[w].op \notin Storing => After(w) = row[e]
      BY <2>1, <2>2, AfterFields
    <2>4. /\ row' \in [Events -> Rows] /\ row'[e] = After(w)
          /\ \A f \in Events \ {e} : row'[f] = row[f]
      BY <1>1, <2>2, <2>3
    <2>5. /\ ticketRev' \in [Events -> 0 .. MaxEdits]
          /\ \A f \in Events : ticketRev[f] <= ticketRev'[f]
      <3>1. CASE write[w].op = "ticket"
        <4>1. ticketRev[e] < MaxEdits /\ ticketRev' = [ticketRev EXCEPT ![e] = ticketRev[e] + 1]
          BY <1>3, <2>1, <3>1 DEF HandleChange
        <4>2. ticketRev[e] + 1 \in 0 .. MaxEdits
          BY <1>1, <4>1, EditorAssumption
        <4>3. QED
          BY <1>1, <4>1, <4>2
      <3>2. CASE write[w].op # "ticket"
        <4>1. ticketRev' = ticketRev
          BY <1>3, <3>2 DEF HandleChange
        <4>2. QED
          BY <1>1, <4>1
      <3>3. QED
        BY <3>1, <3>2
    <2>6. PICK rev \in 0 .. MaxEdits : rev = ticketRev'[e]
      BY <2>5
    <2>7. /\ meddled \subseteq meddled' /\ meddled' \subseteq Events
          /\ ~write[w].mine => e \in meddled'
      BY <1>1, <1>3, <2>1 DEF HandleChange, Meddles
    <2>8. place \in Events \ meddled' =>
            row'[place] = row[place] \/ (write[w].mine /\ write[w].op \in Storing)
      BY <2>3, <2>4, <2>7
    <2>9. \A f \in Events : /\ row[f] # NoRow => row'[f] # NoRow
                            /\ row'[f] # NoRow => row'[f].status \in Statuses
      BY <1>1, <1>2, <2>3, <2>4
    <2>10. row'[e] # NoRow
      BY <1>2, <2>3, <2>4
    <2>11. write[w].op # "profile" /\ write[w].op # "create"
      BY <1>1, <2>1, <2>2, EditorAssumption DEF WriteOf
    <2>12. /\ Answered(w, e, rev) /\ e \in Events \cup {None}
           /\ write[w].op = "save" => row'[e].content = write[w].content
           /\ rev <= ticketRev'[e]
      BY <2>2, <2>3, <2>4, <2>6
    <2>13. QED
      BY <2>1, <2>2, <2>4, <2>5, <2>7, <2>8, <2>9, <2>10, <2>11, <2>12, AnswerKeeps
  <1>4. CASE HandleNew(w)
    <2>1. PICK e \in Events :
            /\ row[e] = NoRow
            /\ row' = [row EXCEPT ![e] =
                 [content |-> IF write[w].op = "create" THEN write[w].content
                              ELSE row[write[w].event].content,
                  status |-> "draft"]]
            /\ Answered(w, e, 0)
      BY <1>4 DEF HandleNew
    <2>2. /\ write[w].op \in {"create", "duplicate"}
          /\ UNCHANGED <<ticketRev, user, router, eventHook, ticketHook, form, meddled, bounds>>
      BY <1>4 DEF HandleNew
    <2>3. PICK r \in Rows : r.status = "draft" /\ row' = [row EXCEPT ![e] = r]
      <3>1. write[w].op = "duplicate" => write[w].event \in Events
        BY <1>1 DEF WriteOf, OnEvent
      <3>2. /\ write[w].op = "duplicate" => row[write[w].event].content \in 0 .. MaxEdits
            /\ write[w].content \in 0 .. MaxEdits
        BY <1>1, <3>1 DEF Rows, WriteRecords
      <3> DEFINE r == [content |-> IF write[w].op = "create" THEN write[w].content
                                   ELSE row[write[w].event].content, status |-> "draft"]
      <3>3. r \in Rows /\ r.status = "draft"
        BY <2>2, <3>2 DEF Rows, Statuses
      <3>4. row' = [row EXCEPT ![e] = r]
        BY <2>1
      <3> HIDE DEF r
      <3>5. QED
        BY <3>3, <3>4
    <2>4. /\ row' \in [Events -> Rows] /\ row'[e] = r
          /\ \A f \in Events \ {e} : row'[f] = row[f]
      BY <1>1, <2>3
    <2>5. r # NoRow /\ r.status \in Statuses
      BY <1>2, <2>3 DEF Statuses
    <2>6. \A f \in Events : /\ row[f] # NoRow => row'[f] # NoRow
                            /\ row'[f] # NoRow => row'[f].status \in Statuses
                            /\ ticketRev[f] <= ticketRev'[f]
      BY <1>1, <2>2, <2>4, <2>5
    <2>7. place \in Events => row'[place] = row[place]
      BY <1>1, <2>1, <2>4
    <2>8. /\ Answered(w, e, 0) /\ e \in Events \cup {None} /\ row'[e] # NoRow
          /\ ticketRev' \in [Events -> 0 .. MaxEdits] /\ meddled' = meddled
          /\ UNCHANGED <<user, router, eventHook, ticketHook, form, bounds>>
      BY <1>1, <2>1, <2>2, <2>4, <2>5
    <2>9. write[w].op \notin OnEvent \ {"duplicate"}
      BY <2>2 DEF OnEvent, Storing
    <2>10. QED
      BY <1>1, <2>2, <2>4, <2>6, <2>7, <2>8, <2>9, AnswerKeeps
  <1>5. CASE HandleProfile(w)
    <2>1. /\ write[w].op = "profile" /\ row' = row /\ Answered(w, None, 0)
          /\ UNCHANGED <<ticketRev, user, router, eventHook, ticketHook, form, meddled, bounds>>
      BY <1>5 DEF HandleProfile
    <2>2. None \notin Events /\ write[w].op \notin OnEvent
      BY <2>1, EditorAssumption DEF OnEvent, Storing
    <2>3. QED
      BY <1>1, <2>1, <2>2, AnswerKeeps
  <1>6. QED
    BY <1>3, <1>4, <1>5 DEF Handle

-----------------------------------------------------------------------------
(* The answer to w reaches its screen.                                     *)
LEMMA AnswerTakenKeeps ==
  ASSUME Shaped, Screens, NEW w \in Writes, NEW f \in Forms, form' = f, write' = Done(w),
         UNCHANGED <<server, user, router, eventHook, meddled, bounds>>,
         f.mounted = form.mounted, FormAt(f, place, user),
         \/ write[w].mine /\ write[w].op \in Main
         \/ /\ f.pending = form.pending /\ f.saved = form.saved /\ f.action = form.action
            /\ f.dirty = form.dirty /\ f.draft = form.draft,
         NEW t \in Hooks(Events \X (1 .. TicketPages), 0 .. MaxEdits), ticketHook' = t,
         TicketHookAt(t, f, place)
  PROVE  Shaped' /\ Screens'
  <1>1. UNCHANGED <<row, ticketRev, place, came, edits, sent, user, meddled, eventHook>>
    BY DEF server, router, bounds
  <1>2. Done(w) \in [Writes -> WriteRecords] /\ WritesAt(Done(w), f, place)
    BY WithoutWrite DEF Screens
  <1>3. WritesAt(write, form, place)'
    BY <1>1, <1>2, WritesLater
  <1>4. FormAt(form, place, user)' /\ EventHookAt(eventHook, place, user)'
        /\ TicketHookAt(ticketHook, form, place)'
    BY <1>1 DEF FormAt, EventHookAt, TicketHookAt, Screens
  <1>5. Standing' /\ Shaped'
    BY <1>1, <1>2, StandingLater DEF Shaped, Screens
  <1>6. QED
    BY <1>3, <1>4, <1>5 DEF Screens

(* What an answer that was waited for leaves in the form.                   *)
LEMMA StoredFields ==
  ASSUME Shaped, Screens, NEW w \in Writes, write[w].mine, write[w].op \in Storing,
         write[w].phase = "ok"
  PROVE  /\ Stored(w) \in Forms /\ Stored(w).mounted = form.mounted /\ form.mounted
         /\ Stored(w).event = write[w].result /\ Stored(w).saved
         /\ Stored(w).action = "none" /\ ~Stored(w).dirty
         /\ Stored(w).draft \in {0, form.draft} /\ Stored(w).tickets = form.tickets
         /\ write[w].op = "save" /\ form.dirty => write[w].result.content = form.draft
         /\ write[w].op # "save" => ~form.dirty
         /\ FormAt(Stored(w), place, user)
  <1>1. /\ form \in Forms /\ WriteOf(write[w]) /\ Own(write[w], form, place)
        /\ FormAt(form, place, user) /\ edits \in Nat
    BY DEF Shaped, Screens, WritesAt
  <1>2. /\ write[w].result \in Rows /\ write[w].result.status \in Statuses
        /\ write[w].op = "save" => write[w].result.content = write[w].content
        /\ write[w].event = place /\ place \in Events
        /\ form.mounted
        /\ place \notin meddled => write[w].result = row[place]
    BY <1>1 DEF WriteOf, Own, OnEvent, Storing
  <1>3. /\ write[w].op = "save" => form.action = "none" /\ (form.dirty => write[w].content = form.draft)
        /\ write[w].op # "save" => ~form.dirty
    BY <1>1 DEF Own, Main, Storing
  <1> DEFINE f == Stored(w)
  <1>4. /\ f \in Forms /\ f.mounted = form.mounted /\ f.event = write[w].result /\ f.saved
        /\ f.action = "none" /\ ~f.dirty /\ f.draft \in {0, form.draft}
        /\ f.tickets = form.tickets
    <2>1. CASE write[w].op = "save"
      <3>1. f = [form EXCEPT !.event = write[w].result, !.pending = FALSE, !.saved = TRUE,
                             !.dirty = FALSE, !.draft = 0]
        BY <1>1, <2>1 DEF Stored, Forms
      <3>2. form.action = "none" /\ 0 \in 0 .. MaxEdits /\ write[w].result \in Rows
        BY <1>2, <1>3, <2>1, EditorAssumption
      <3>3. QED
        BY <1>1, <3>1, <3>2 DEF Forms
    <2>2. CASE write[w].op # "save"
      <3>1. f = [form EXCEPT !.event = write[w].result, !.pending = FALSE, !.saved = TRUE,
                             !.action = "none"]
        BY <1>1, <2>2 DEF Stored, Forms
      <3>2. QED
        BY <1>1, <1>2, <1>3, <2>2, <3>1 DEF Forms
    <2>3. QED
      BY <2>1, <2>2
  <1> HIDE DEF f
  <1>5. place # "new"
    BY <1>2, EditorAssumption
  <1>6. FormAt(f, place, user)
    BY <1>1, <1>2, <1>4, <1>5 DEF FormAt
  <1>7. QED
    BY <1>2, <1>3, <1>4, <1>6 DEF f

LEMMA SettlingKeeps ==
  ASSUME Shaped, Screens, NEW w \in Writes,
         EventSaved(w) \/ TicketSaved(w) \/ PolicySaved(w) \/ WriteFailed(w)
  PROVE  Shaped' /\ Screens'
  <1> DEFINE Kept == Shaped' /\ Screens'
  <1>1. /\ form \in Forms /\ FormAt(form, place, user) /\ WriteOf(write[w])
        /\ TicketHookAt(ticketHook, form, place)
        /\ ticketHook \in Hooks(Events \X (1 .. TicketPages), 0 .. MaxEdits)
        /\ write[w].mine => Own(write[w], form, place)
        /\ write[w] \in WriteRecords
    BY DEF Shaped, Screens, WritesAt
  <1>2. ASSUME form' = form, ticketHook' = ticketHook, write' = Done(w),
               UNCHANGED <<server, user, router, eventHook, meddled, bounds>>
        PROVE  Kept
    BY <1>1, <1>2, AnswerTakenKeeps
  <1>3. ASSUME EventSaved(w), write[w].mine PROVE Kept
    <2>1. /\ form' = Stored(w) /\ write' = Done(w) /\ ticketHook' = ticketHook
          /\ write[w].op \in Storing /\ write[w].phase = "ok"
          /\ UNCHANGED <<server, user, router, eventHook, meddled, bounds>>
      BY <1>3 DEF EventSaved, Succeeds, Storing
    <2>2. PICK f \in Forms : f = Stored(w)
      BY <1>3, <2>1, StoredFields
    <2>3. f.mounted = form.mounted /\ f.tickets = form.tickets /\ FormAt(f, place, user)
      BY <1>3, <2>1, <2>2, StoredFields
    <2>4. TicketHookAt(ticketHook, f, place)
      BY <1>1, <2>3 DEF TicketHookAt
    <2>5. write[w].op \in Main
      BY <2>1 DEF Main, Storing
    <2>6. QED
      BY <1>1, <1>3, <2>1, <2>2, <2>3, <2>4, <2>5, AnswerTakenKeeps
  <1>4. ASSUME TicketSaved(w), write[w].mine PROVE Kept
    <2> DEFINE f == [form EXCEPT !.tickets.open = FALSE, !.tickets.pending = FALSE,
                                 !.tickets.acked = write[w].rev]
    <2>1. /\ form' = f /\ write' = Done(w) /\ ticketHook' = Reloaded(ticketHook)
          /\ write[w].op = "ticket" /\ write[w].phase = "ok"
          /\ UNCHANGED <<server, user, router, eventHook, meddled, bounds>>
      BY <1>4 DEF TicketSaved, Succeeds
    <2>2. write[w].rev \in 0 .. MaxEdits /\ write[w].event = place /\ place \in Events
          /\ write[w].rev <= ticketRev[place] /\ form.mounted
      BY <1>1, <1>4, <2>1 DEF WriteRecords, WriteOf, Own, OnEvent
    <2>3. /\ f \in Forms /\ f.mounted = form.mounted /\ f.event = form.event
          /\ f.pending = form.pending /\ f.saved = form.saved /\ f.action = form.action
          /\ f.dirty = form.dirty /\ f.draft = form.draft
          /\ f.tickets.acked = write[w].rev
      BY <1>1, <2>2 DEF Forms
    <2> HIDE DEF f
    <2>4. FormAt(f, place, user)
      BY <1>1, <2>2, <2>3 DEF FormAt
    <2>5. /\ Reloaded(ticketHook) \in Hooks(Events \X (1 .. TicketPages), 0 .. MaxEdits)
          /\ TicketHookAt(Reloaded(ticketHook), f, place)
      BY <1>1, <2>3, TicketsReloaded
    <2>6. QED
      BY <2>1, <2>3, <2>4, <2>5, AnswerTakenKeeps
  <1>5. ASSUME PolicySaved(w), write[w].mine PROVE Kept
    <2> DEFINE f == [form EXCEPT !.refunding = FALSE]
    <2>1. /\ form' = f /\ write' = Done(w) /\ ticketHook' = ticketHook
          /\ UNCHANGED <<server, user, router, eventHook, meddled, bounds>>
      BY <1>5 DEF PolicySaved
    <2>2. /\ f \in Forms /\ f.mounted = form.mounted /\ f.event = form.event
          /\ f.pending = form.pending /\ f.saved = form.saved /\ f.action = form.action
          /\ f.dirty = form.dirty /\ f.draft = form.draft /\ f.tickets = form.tickets
      BY <1>1 DEF Forms
    <2>3. form.mounted
      BY <1>1, <1>5 DEF Own, PolicySaved
    <2> HIDE DEF f
    <2>4. FormAt(f, place, user) /\ TicketHookAt(ticketHook, f, place)
      BY <1>1, <2>2, <2>3 DEF FormAt, TicketHookAt
    <2>5. QED
      BY <1>1, <2>1, <2>2, <2>4, AnswerTakenKeeps
  <1>6. ASSUME WriteFailed(w), write[w].mine, write[w].op # "profile" PROVE Kept
    <2>1. /\ write' = Done(w) /\ ticketHook' = ticketHook
          /\ UNCHANGED <<server, user, router, eventHook, meddled, bounds>>
      BY <1>6 DEF WriteFailed
    <2>2. form.mounted /\ write[w].op # "none"
      BY <1>1, <1>6 DEF Own
    <2>3. ASSUME NEW f \in Forms, form' = f, f.mounted = form.mounted, f.event = form.event,
                 f.dirty = form.dirty, f.draft = form.draft, f.saved = form.saved,
                 f.tickets.acked = form.tickets.acked, f.action \in {form.action, "none"},
                 \/ write[w].op \in Main
                 \/ f.pending = form.pending /\ f.action = form.action
          PROVE  Kept
      <3>1. FormAt(f, place, user) /\ TicketHookAt(ticketHook, f, place)
        BY <1>1, <2>2, <2>3 DEF FormAt, TicketHookAt
      <3>2. QED
        BY <1>1, <1>6, <2>1, <2>3, <3>1, AnswerTakenKeeps
    <2>4. CASE write[w].op = "ticket"
      <3> DEFINE f == [form EXCEPT !.tickets.pending = FALSE]
      <3>1. form' = f
        BY <1>6, <2>4 DEF WriteFailed
      <3>2. /\ f \in Forms /\ f.mounted = form.mounted /\ f.event = form.event
            /\ f.pending = form.pending /\ f.saved = form.saved /\ f.action = form.action
            /\ f.dirty = form.dirty /\ f.draft = form.draft
            /\ f.tickets.acked = form.tickets.acked
        BY <1>1 DEF Forms
      <3> HIDE DEF f
      <3>3. QED
        BY <2>3, <3>1, <3>2
    <2>5. CASE write[w].op = "refund-policy"
      <3> DEFINE f == [form EXCEPT !.refunding = FALSE]
      <3>1. form' = f
        BY <1>6, <2>5 DEF WriteFailed
      <3>2. /\ f \in Forms /\ f.mounted = form.mounted /\ f.event = form.event
            /\ f.pending = form.pending /\ f.saved = form.saved /\ f.action = form.action
            /\ f.dirty = form.dirty /\ f.draft = form.draft /\ f.tickets = form.tickets
        BY <1>1 DEF Forms
      <3> HIDE DEF f
      <3>3. QED
        BY <2>3, <3>1, <3>2
    <2>6. CASE write[w].op \in Main
      <3> DEFINE f == [form EXCEPT !.pending = FALSE]
                 g == [form EXCEPT !.pending = FALSE, !.action = "none"]
      <3>1. form' \in {f, g}
        BY <1>6, <2>6 DEF WriteFailed, Main
      <3>2. /\ f \in Forms /\ f.mounted = form.mounted /\ f.event = form.event
            /\ f.saved = form.saved /\ f.action = form.action
            /\ f.dirty = form.dirty /\ f.draft = form.draft /\ f.tickets = form.tickets
        BY <1>1 DEF Forms
      <3>3. /\ g \in Forms /\ g.mounted = form.mounted /\ g.event = form.event
            /\ g.saved = form.saved /\ g.action = "none"
            /\ g.dirty = form.dirty /\ g.draft = form.draft /\ g.tickets = form.tickets
        BY <1>1 DEF Forms
      <3> HIDE DEF f, g
      <3>4. QED
        BY <2>3, <2>6, <3>1, <3>2, <3>3
    <2>7. QED
      BY <1>1, <1>6, <2>2, <2>4, <2>5, <2>6 DEF WriteRecords, AllOps, Main
  <1>7. CASE WriteFailed(w) /\ ~(write[w].mine /\ write[w].op # "profile")
    <2>1. form' = form
      BY <1>7 DEF WriteFailed
    <2>2. QED
      BY <1>2, <1>7, <2>1 DEF WriteFailed
  <1>8. CASE ~write[w].mine /\ (EventSaved(w) \/ TicketSaved(w) \/ PolicySaved(w))
    BY <1>2, <1>8 DEF EventSaved, TicketSaved, PolicySaved
  <1>9. QED
    BY <1>3, <1>4, <1>5, <1>6, <1>7, <1>8

-----------------------------------------------------------------------------
(* The invariant, and what it says.                                        *)

LEMMA ScreensStep ==
  ASSUME Shaped, Screens, [Next]_vars
  PROVE  Shaped' /\ Screens'
  <1>1. CASE UNCHANGED vars
    <2>1. UNCHANGED <<row, ticketRev, user, place, came, eventHook, ticketHook, form,
                      write, meddled, edits, sent>>
      BY <1>1 DEF vars, server, router, bounds
    <2>2. WritesAt(write, form, place)'
      BY <2>1, WritesLater DEF Screens
    <2>3. /\ FormAt(form, place, user)' /\ EventHookAt(eventHook, place, user)'
          /\ TicketHookAt(ticketHook, form, place)' /\ Standing'
      BY <2>1 DEF Screens, FormAt, EventHookAt, TicketHookAt, Standing
    <2>4. Shaped'
      BY <2>1 DEF Shaped
    <2>5. QED
      BY <2>2, <2>3, <2>4 DEF Screens
  <1>2. ASSUME NEW w \in Writes, Settle(w) PROVE Shaped' /\ Screens'
    BY <1>2, CreatedKeeps, SettlingKeeps DEF Settle
  <1>3. QED
    BY <1>1, <1>2, RoutingKeeps, TypingKeeps, SubmittingKeeps, HandlingKeeps,
       LoadsKeep, TicketLoadsKeep DEF Next, Loaded

LEMMA ScreensInit == Init => Shaped /\ Screens
  <1> SUFFICES ASSUME Init PROVE Shaped /\ Screens
    OBVIOUS
  <1>1. NoRow \in Rows /\ [content |-> 0, status |-> "draft"] \in Rows
    BY EditorAssumption DEF Rows, Statuses, NoRow
  <1>2. row \in [Events -> Rows] /\ \A e \in Events : row[e] # NoRow => row[e].status \in Statuses
    BY <1>1 DEF Init, Statuses
  <1>3. /\ user \in BOOLEAN /\ place = "elsewhere" /\ came = None
        /\ eventHook = NoHook /\ ticketHook = NoHook /\ form = Closed
        /\ \A w \in Writes : write[w] = Idle
        /\ write = [w \in Writes |-> Idle]
        /\ meddled = {} /\ edits = 0 /\ sent = 0
        /\ ticketRev = [e \in Events |-> 0]
    BY DEF Init
  <1>4. Shaped
    BY <1>2, <1>3, NoHookFields, ClosedFields, IdleFields, EditorAssumption
       DEF Shaped, Places, Editors
  <1>5. Standing
    BY <1>2, <1>3, EditorAssumption DEF Standing
  <1>6. WritesAt(write, form, place)
    BY <1>3, IdleFields, EditorAssumption DEF WritesAt, WriteOf, OnEvent, Storing
  <1>7. FormAt(form, place, user)
    BY <1>3, ClosedFields DEF FormAt
  <1>8. EventHookAt(eventHook, place, user) /\ TicketHookAt(ticketHook, form, place)
    BY <1>3, NoHookFields DEF EventHookAt, TicketHookAt
  <1>9. QED
    BY <1>4, <1>5, <1>6, <1>7, <1>8 DEF Screens

LEMMA ScreensAlways == Spec => [](Shaped /\ Screens)
  <1>1. Shaped /\ Screens /\ [Next]_vars => Shaped' /\ Screens'
    BY ScreensStep
  <1>2. QED
    BY <1>1, ScreensInit, PTL DEF Spec

(* Every variable keeps its shape; a form is open only on an event that     *)
(* exists, and a write that belongs to a screen to the one that is mounted. *)
THEOREM EditorTypeCorrect == Spec => []TypeOK
  <1>1. Shaped /\ Screens => TypeOK
    <2> SUFFICES ASSUME Shaped, Screens PROVE TypeOK
      OBVIOUS
    <2>1. form.mounted /\ place \in Events => row[place] # NoRow
      BY DEF Screens, Standing
    <2>2. \A w \in Writes : write[w].mine =>
            form.mounted \/ (place = "profile" /\ write[w].op = "profile")
      BY DEF Screens, WritesAt, Own
    <2>3. QED
      BY <2>1, <2>2 DEF Shaped, TypeOK
  <1>2. QED
    BY <1>1, ScreensAlways, PTL

(* "Saved" is said of what the server has, whatever the order of answers,   *)
(* navigation and other writes of the same form.                           *)
THEOREM SavedIsStored == Spec => []SavedMeansStored
  <1>1. Screens => SavedMeansStored
    BY DEF Screens, FormAt, SavedMeansStored
  <1>2. QED
    BY <1>1, ScreensAlways, PTL

(* The table of ticket types has nothing older than the last change the     *)
(* editor was told of: the reload that a change causes drops what is shown  *)
(* and aborts what is on the way.                                          *)
THEOREM TicketsAreFresh == Spec => []NeverStaleTickets
  <1>1. Screens => NeverStaleTickets
    BY DEF Screens, TicketHookAt, NeverStaleTickets, Shown
  <1>2. QED
    BY <1>1, ScreensAlways, PTL

(* The confirmation that is open fits the status of the event under it.     *)
THEOREM DialogFitsStatus == Spec => []DialogMatchesStatus
  <1>1. Screens => DialogMatchesStatus
    BY DEF Screens, FormAt, DialogMatchesStatus
  <1>2. QED
    BY <1>1, ScreensAlways, PTL

-----------------------------------------------------------------------------
(* What a step does to what was typed.                                     *)

DraftKept ==
  form.dirty =>
    \/ form'.dirty /\ form'.draft >= form.draft
    \/ form'.saved /\ form'.event.content = form.draft
    \/ place' # place
    \/ Shown(eventHook') \in {None, Failed}

(* A form with changes is mounted, on a page of the editor.                 *)
LEMMA DirtyForm ==
  ASSUME Shaped, Screens, form.dirty
  PROVE  /\ form.mounted /\ user /\ place \in Editors /\ place \in Places
         /\ "elsewhere" # place /\ place # "profile"
         /\ form \in Forms /\ form.draft \in Nat /\ form.draft <= edits /\ edits \in Nat
  <1>1. /\ form \in Forms /\ form.mounted /\ user /\ place \in Editors
    BY ClosedFields DEF Shaped, Screens, FormAt
  <1>2. form.draft \in Nat /\ form.draft <= edits /\ edits \in Nat
    BY <1>1 DEF Shaped, Forms, Screens, FormAt
  <1>3. QED
    BY <1>1, <1>2, EditorAssumption DEF Editors, Places

LEMMA RenderDraft ==
  ASSUME Shaped, Screens, form.dirty, NEW p \in Places,
         NEW h \in Hooks(Events, Rows),
         NEW t \in Hooks(Events \X (1 .. TicketPages), 0 .. MaxEdits),
         NEW f \in Forms, f.mounted = form.mounted, f.dirty, f.draft = form.draft,
         NEW ws \in [Writes -> WriteRecords], Render(p, user, h, t, f, ws)
  PROVE  DraftKept
  <1>1. form.mounted /\ user /\ place \in Editors /\ form.draft \in Nat /\ user \in BOOLEAN
    BY DirtyForm
  <1>2. CASE p # place
    BY <1>2, RenderForm, <1>1 DEF DraftKept
  <1>3. CASE p = place /\ form'.mounted
    <2>1. form' = f
      BY <1>1, <1>3, RenderForm
    <2>2. QED
      BY <1>1, <2>1 DEF DraftKept
  <1>4. CASE p = place /\ ~form'.mounted
    <2>1. Shown(eventHook') \in {None, Failed}
      BY <1>1, <1>4, RenderForm
    <2>2. QED
      BY <2>1 DEF DraftKept
  <1>5. form'.mounted \in BOOLEAN
    BY <1>1, RenderForm DEF Forms
  <1>6. QED
    BY <1>2, <1>3, <1>4, <1>5

(* Where the router goes, and the screens that render where they are.       *)
LEMMA RoutingDraft ==
  ASSUME Shaped, Screens, form.dirty,
         \/ \E p \in Places : Navigate(p)
         \/ Back \/ SessionEnds \/ SignsIn \/ ReloadEvent \/ EventLoaded
  PROVE  DraftKept
  <1>1. /\ form.mounted /\ user /\ place \in Editors /\ place \in Places /\ "elsewhere" # place
        /\ form \in Forms /\ write \in [Writes -> WriteRecords]
        /\ eventHook \in Hooks(Events, Rows)
        /\ ticketHook \in Hooks(Events \X (1 .. TicketPages), 0 .. MaxEdits)
    BY DirtyForm DEF Shaped
  <1>2. ASSUME NEW p, NEW u, NEW h, NEW t, NEW f, NEW ws, Render(p, u, h, t, f, ws), p # place
        PROVE  DraftKept
    BY <1>2, Zenon DEF Render, DraftKept
  <1>3. ASSUME NEW h \in Hooks(Events, Rows), Render(place, user, h, ticketHook, form, write)
        PROVE  DraftKept
    BY <1>1, <1>3, RenderDraft
  <1>4. CASE (\E p \in Places : Navigate(p)) \/ Back \/ SessionEnds \/ SignsIn
    BY <1>1, <1>2, <1>4 DEF Navigate, Back, SessionEnds, SignsIn
  <1>5. CASE ReloadEvent
    BY <1>1, <1>3, <1>5, ReloadedFields DEF ReloadEvent
  <1>6. CASE EventLoaded
    <2>1. PICK data \in {row[place], Failed} :
            Render(place, user, Received(eventHook, data), ticketHook, form, write)
      BY <1>6 DEF EventLoaded
    <2>2. place \in Events
      <3>1. eventHook.path # None /\ eventHook.path = place
        BY <1>6 DEF EventLoaded, EventHookAt, Screens
      <3>2. QED
        BY <1>1, <3>1 DEF Hooks
    <2>3. data \in Rows \cup {None, Failed}
      BY <2>2 DEF Shaped
    <2>4. QED
      BY <1>1, <1>3, <2>1, <2>3, ReceivedFields
  <1>7. QED
    BY <1>4, <1>5, <1>6

(* The answers to writes.                                                  *)
LEMMA SettlingDraft ==
  ASSUME Shaped, Screens, form.dirty, NEW w \in Writes, Settle(w)
  PROVE  DraftKept
  <1>1. /\ form.mounted /\ user /\ place \in Editors /\ place \in Places /\ place # "profile"
        /\ form \in Forms /\ form.draft \in Nat
        /\ eventHook \in Hooks(Events, Rows)
        /\ ticketHook \in Hooks(Events \X (1 .. TicketPages), 0 .. MaxEdits)
        /\ write[w] \in WriteRecords /\ WriteOf(write[w])
        /\ Done(w) \in [Writes -> WriteRecords]
    BY DirtyForm, IdleFields DEF Shaped, Screens, WritesAt, Done
  <1>2. ASSUME form'.dirty = form.dirty, form'.draft = form.draft PROVE DraftKept
    BY <1>1, <1>2 DEF DraftKept
  <1>3. CASE EventSaved(w)
    <2>1. CASE ~write[w].mine
      BY <1>2, <1>3, <2>1 DEF EventSaved
    <2>2. CASE write[w].mine
      <3>1. form' = Stored(w) /\ write[w].op \in Storing /\ write[w].phase = "ok"
        BY <1>3, <2>2 DEF EventSaved, Succeeds, Storing
      <3>2. write[w].op = "save"
        BY <2>2, <3>1, StoredFields
      <3>3. Stored(w).saved /\ Stored(w).event.content = form.draft
        BY <2>2, <3>1, <3>2, StoredFields
      <3>4. QED
        BY <3>1, <3>3 DEF DraftKept
    <2>3. QED
      BY <1>1, <2>1, <2>2 DEF WriteRecords
  <1>4. CASE EventCreated(w)
    <2> DEFINE f == IF write[w].mine THEN [form EXCEPT !.pending = FALSE] ELSE form
    <2>1. Render(write[w].event, user, eventHook, ticketHook, f, Done(w))
      BY <1>4 DEF EventCreated
    <2>2. write[w].event \in Places
      BY <1>1, <1>4 DEF EventCreated, Succeeds, WriteOf, OnEvent, Places
    <2>3. f \in Forms /\ f.mounted = form.mounted /\ f.dirty /\ f.draft = form.draft
      BY <1>1 DEF Forms
    <2> HIDE DEF f
    <2>4. QED
      BY <1>1, <2>1, <2>2, <2>3, RenderDraft
  <1>5. CASE ProfileSaved(w)
    <2>1. Render(place, user, Reloaded(eventHook), Reloaded(ticketHook), form, Done(w))
      BY <1>5 DEF ProfileSaved
    <2>2. /\ Reloaded(eventHook) \in Hooks(Events, Rows)
          /\ Reloaded(ticketHook) \in Hooks(Events \X (1 .. TicketPages), 0 .. MaxEdits)
      BY <1>1, ReloadedFields
    <2>3. QED
      BY <1>1, <2>1, <2>2, RenderDraft
  <1>6. CASE TicketSaved(w)
    <2>1. \/ form' = form
          \/ form' = [form EXCEPT !.tickets.open = FALSE, !.tickets.pending = FALSE,
                                  !.tickets.acked = write[w].rev]
      BY <1>6 DEF TicketSaved
    <2>2. QED
      BY <1>1, <1>2, <2>1 DEF Forms
  <1>7. CASE PolicySaved(w)
    BY <1>1, <1>2, <1>7 DEF PolicySaved, Forms
  <1>8. CASE WriteFailed(w)
    <2>1. form' \in {form, [form EXCEPT !.tickets.pending = FALSE],
                     [form EXCEPT !.refunding = FALSE], [form EXCEPT !.pending = FALSE],
                     [form EXCEPT !.pending = FALSE, !.action = "none"]}
      BY <1>8 DEF WriteFailed
    <2>2. QED
      BY <1>1, <1>2, <2>1 DEF Forms
  <1>9. QED
    BY <1>3, <1>4, <1>5, <1>6, <1>7, <1>8 DEF Settle

(* Everything else leaves the draft, or adds to it.                        *)
LEMMA FormDraft ==
  ASSUME Shaped, Screens, form.dirty,
         \/ UNCHANGED vars \/ ReloadTickets \/ ReadTickets \/ TicketsLoaded
         \/ Type \/ CloseDialog \/ (\E a \in {"publish", "unpublish", "cancel"} : OpenDialog(a))
         \/ (\E open \in BOOLEAN : SelectTicket(open))
         \/ (\E page \in 1 .. TicketPages : TurnPage(page))
         \/ \E w \in Writes :
              \/ Save(w) \/ Mutate(w) \/ SaveTicket(w) \/ SaveRefundPolicy(w) \/ SaveProfile(w)
              \/ Handle(w)
  PROVE  DraftKept
  <1>1. form \in Forms /\ form.draft \in Nat /\ form.draft <= edits /\ edits \in Nat
    BY DirtyForm
  <1>2. ASSUME form'.dirty = form.dirty, form'.draft = form.draft PROVE DraftKept
    BY <1>1, <1>2 DEF DraftKept
  <1>3. CASE Type
    <2>1. form' = [form EXCEPT !.dirty = TRUE, !.draft = edits + 1, !.saved = FALSE]
      BY <1>3 DEF Type, Update
    <2>2. form'.dirty /\ form'.draft = edits + 1
      BY <1>1, <2>1 DEF Forms
    <2>3. form'.draft >= form.draft
      BY <1>1, <2>2
    <2>4. QED
      BY <2>2, <2>3 DEF DraftKept
  <1>4. CASE UNCHANGED vars \/ ReloadTickets \/ ReadTickets \/ TicketsLoaded
    BY <1>2, <1>4 DEF vars, ReloadTickets, ReadTickets, TicketsLoaded
  <1>5. ASSUME NEW w \in Writes, Handle(w) PROVE DraftKept
    BY <1>2, <1>5 DEF Handle, HandleChange, HandleNew, HandleProfile
  <1>6. ASSUME NEW open, CloseDialog \/ SelectTicket(open) PROVE DraftKept
    BY <1>1, <1>2, <1>6 DEF CloseDialog, SelectTicket, Update, Forms
  <1>7. ASSUME NEW a, OpenDialog(a) PROVE DraftKept
    BY <1>1, <1>2, <1>7 DEF OpenDialog, Update, Forms
  <1>8. ASSUME NEW page, TurnPage(page) PROVE DraftKept
    BY <1>1, <1>2, <1>8 DEF TurnPage, Forms
  <1>9. ASSUME NEW w \in Writes,
               Save(w) \/ Mutate(w) \/ SaveTicket(w) \/ SaveRefundPolicy(w) \/ SaveProfile(w)
        PROVE  DraftKept
    BY <1>1, <1>2, <1>9
       DEF Save, Mutate, SaveTicket, SaveRefundPolicy, SaveProfile, Update, Forms
  <1>10. QED
    BY <1>3, <1>4, <1>5, <1>6, <1>7, <1>8, <1>9

(* What has been typed is stored, or still there, unless the page is left   *)
(* or its event is loaded again: no answer to another write takes it away.  *)
THEOREM DraftsSurvive == Spec => DraftSurvives
  <1>1. Shaped /\ Screens /\ [Next]_vars => DraftKept
    <2> SUFFICES ASSUME Shaped, Screens, [Next]_vars, form.dirty PROVE DraftKept
      BY DEF DraftKept
    <2>1. ASSUME NEW w \in Writes, Settle(w) PROVE DraftKept
      BY <2>1, SettlingDraft
    <2>2. QED
      BY <2>1, RoutingDraft, FormDraft DEF Next, Loaded
  <1>2. QED
    BY <1>1, ScreensAlways, PTL DEF Spec, DraftSurvives, DraftKept
=============================================================================

------------------------------ MODULE TaskForms ------------------------------
(***************************************************************************)
(* The forms and controls with which one page writes tasks: the create     *)
(* page, and on the page of one task the edit dialog, the delete dialog,   *)
(* the progress select and the reassign control.                           *)
(*                                                                         *)
(* A form keeps what it was opened with, sends the fields that differ from *)
(* it, and asks the user again when the server finds the deadline past.    *)
(* The user may type, close, reopen and walk away while a call is under    *)
(* way, time passes, and other pages write the same task.  The cache is    *)
(* that of WebCache, reduced to the query of this task.                    *)
(***************************************************************************)
EXTENDS Naturals, FiniteSets

CONSTANTS
  Titles,
  LoadedWith,   \* bound: the deadlines a task may have as the page is loaded
  MaxForms,     \* bound: forms opened
  MaxCalls,     \* bound: writes sent
  MaxEvents     \* bound: screens left, writes of other pages, answers lost, refetches
                \* failed, the clock

\* "soon" is past once the clock has passed it.
Deadlines == {"none", "past", "soon"}

ASSUME FormsAssumption ==
  /\ Titles # {} /\ "" \notin Titles
  /\ LoadedWith \subseteq Deadlines
  /\ {MaxForms, MaxCalls, MaxEvents} \subseteq Nat
  /\ MaxForms # 0   \* a page may be loaded with a form

People == {"me", "mate"}
EditFields == {"title", "deadline"}
Values == [title : Titles, deadline : Deadlines, assignee : People, progress : {"todo", "done"}]

VARIABLES
  role, owner,      \* of the signed-in user, of the task
  task, alive,      \* the task on the server
  late,             \* "soon" has passed
  screen, page,     \* where the page is, and how many screens were mounted
  shown, fetch,     \* the query of the task: data and request
  failed,           \* its last request failed, not with a 404
  form, forms,      \* the mounted form, and how many were opened
  confirm,          \* payload of the open past-deadline dialog
  editOpen, deleteOpen,
  calls, sent,      \* mutations, in the order they were sent
  waits,            \* mutations whose success waits for the refetch
  agreed, padded,   \* history: deadlines agreed to, per form, and forms submitted with
                    \* blanks around their title
  events

server == <<task, alive, late>>
query == <<shown, fetch, failed>>
dialogs == <<form, forms, confirm, editOpen, deleteOpen>>
session == <<role, owner>>
history == <<agreed, padded>>
vars == <<session, server, screen, page, query, dialogs, calls, sent, waits, history, events>>

NoForm == [no |-> 0]
NoBody == [none |-> TRUE]
NoTask == [none |-> TRUE]
Gone == [gone |-> TRUE]
Idle == [st |-> "idle"]
NoCall == [st |-> "none"]
Data == shown \notin {NoTask, Gone} /\ ~failed

\* What is typed is the title and whether there are blanks around it.
OpenForm(mode, base, n) ==
  [no |-> n, mode |-> mode, base |-> base, value |-> base, pad |-> FALSE]

EditForm(data, n) == OpenForm("edit", [f \in EditFields |-> data[f]], n)

\* What a member creates is his own; a leader has to pick.
CreateDefaults ==
  [title |-> "", deadline |-> "none", assignee |-> IF role = "LEADER" THEN "" ELSE "me"]

\* A page load, on the task or on the create form.
Init ==
  /\ role \in {"LEADER", "MEMBER"} /\ owner \in People
  /\ task \in [title : Titles, deadline : LoadedWith, assignee : People,
               progress : {"todo"}]
  /\ alive = TRUE /\ late = FALSE
  /\ shown = NoTask /\ failed = FALSE /\ page = 1 /\ confirm = NoBody
  /\ editOpen = FALSE /\ deleteOpen = FALSE
  /\ \/ /\ screen = "detail" /\ fetch = [st |-> "asked"]
        /\ form = NoForm /\ forms = 0
     \/ /\ screen = "create" /\ fetch = Idle
        /\ form = OpenForm("create", CreateDefaults, 1) /\ forms = 1
  /\ calls = [c \in 1 .. MaxCalls |-> NoCall] /\ sent = 0
  /\ waits = {} /\ agreed = {} /\ padded = {}
  /\ events = 0

-----------------------------------------------------------------------------
(* The world around the page *)

Tick ==
  /\ ~late /\ late' = TRUE
  /\ events < MaxEvents /\ events' = events + 1
  /\ UNCHANGED <<session, task, alive, screen, page, query, dialogs, calls, sent, waits,
                 history>>

\* Another page, of a teammate or of this user, writes the task.
Elsewhere ==
  /\ events < MaxEvents /\ events' = events + 1
  /\ alive
  /\ \/ alive' = FALSE /\ UNCHANGED task
     \/ /\ \E f \in DOMAIN task : \E v \in {x[f] : x \in Values} :
             v # task[f] /\ task' = [task EXCEPT ![f] = v]
        /\ UNCHANGED alive
  /\ UNCHANGED <<session, late, screen, page, query, dialogs, calls, sent, waits, history>>

ServeFetch ==
  /\ fetch.st = "asked"
  /\ fetch' = [st |-> "answered", data |-> IF alive THEN task ELSE Gone]
  /\ UNCHANGED <<session, server, screen, page, shown, failed, dialogs, calls, sent, waits,
                 history, events>>

\* The query has data, or has failed over what it had.  A control that this
\* takes off the page forgets the mutation it sent.
Render(data, error) ==
  LET there == data \notin {NoTask, Gone} /\ ~error
      off == IF ~there THEN {"progress", "reassign"}
             ELSE IF data.assignee # "me" THEN {"progress"} ELSE {}
  IN
  /\ shown' = data /\ failed' = error /\ fetch' = Idle /\ waits' = {}
  /\ calls' = [c \in DOMAIN calls |->
       IF c <= sent /\ calls[c].kind \in off /\ calls[c].st # "done"
       THEN [calls[c] EXCEPT !.page = 0] ELSE calls[c]]
  \* The error screen takes the form down, and forgets not that it was open.
  /\ IF screen = "detail" /\ ~there
     THEN form' = NoForm /\ confirm' = NoBody /\ UNCHANGED forms
     ELSE IF screen = "detail" /\ form = NoForm /\ editOpen
     THEN /\ forms < MaxForms /\ form' = EditForm(data, forms + 1) /\ forms' = forms + 1
          /\ UNCHANGED confirm
     ELSE UNCHANGED <<form, forms, confirm>>
  /\ UNCHANGED <<session, server, screen, page, editOpen, deleteOpen, sent, history>>

DeliverFetch ==
  /\ fetch.st = "answered"
  /\ Render(fetch.data, FALSE)
  /\ UNCHANGED events

\* Neither an answer nor a 404.
FailFetch ==
  /\ fetch # Idle
  /\ Render(shown, TRUE)
  /\ events < MaxEvents /\ events' = events + 1

-----------------------------------------------------------------------------
(* Screens and dialogs *)

\* Mounting the task's screen asks for it anew, unless that is under way.
GoTo(s) ==
  /\ screen' = s /\ page' = page + 1
  /\ fetch' = IF s = "detail" /\ fetch = Idle THEN [st |-> "asked"] ELSE fetch
  /\ confirm' = NoBody /\ editOpen' = FALSE /\ deleteOpen' = FALSE
  /\ IF s = "create"
     THEN /\ forms < MaxForms /\ forms' = forms + 1
          /\ form' = OpenForm("create", CreateDefaults, forms + 1)
     ELSE form' = NoForm /\ UNCHANGED forms
  /\ UNCHANGED <<shown, failed>>

Navigate(s) ==
  /\ s # screen
  /\ events < MaxEvents /\ events' = events + 1
  /\ GoTo(s)
  /\ UNCHANGED <<session, server, calls, sent, waits, history>>

\* Dialogs are modal.
OnPage == form = NoForm /\ ~deleteOpen /\ screen = "detail" /\ Data
InForm == form # NoForm /\ confirm = NoBody

OpenEdit ==
  /\ OnPage /\ owner = "me" /\ forms < MaxForms
  /\ form' = EditForm(shown, forms + 1) /\ forms' = forms + 1 /\ editOpen' = TRUE
  /\ UNCHANGED <<session, server, screen, page, query, confirm, deleteOpen, calls, sent, waits,
                 history, events>>

\* Cancel is disabled while the call is under way, Escape is not.
CloseEdit ==
  /\ InForm /\ form.mode = "edit"
  /\ form' = NoForm /\ editOpen' = FALSE
  /\ UNCHANGED <<session, server, screen, page, query, forms, confirm, deleteOpen, calls, sent,
                 waits, history, events>>

\* The fields stay open while a call is under way.
Type(f, v) ==
  /\ InForm /\ ~(f = "assignee" /\ role = "MEMBER")
  /\ v # form.value[f] \/ (f = "title" /\ form.pad)
  /\ form' = [form EXCEPT !.value[f] = v, !.pad = @ /\ f # "title"]
  /\ UNCHANGED <<session, server, screen, page, query, forms, confirm, editOpen, deleteOpen,
                 calls, sent, waits, history, events>>

\* Around the title, of which the trim leaves nothing.  It makes a difference
\* to the title that the form was opened with.
TypeBlanks ==
  /\ InForm /\ form.mode = "edit" /\ form.value.title = form.base.title
  /\ form' = [form EXCEPT !.pad = TRUE]
  /\ UNCHANGED <<session, server, screen, page, query, forms, confirm, editOpen, deleteOpen,
                 calls, sent, waits, history, events>>

OpenDelete ==
  /\ OnPage /\ owner = "me"
  /\ deleteOpen' = TRUE
  /\ UNCHANGED <<session, server, screen, page, query, form, forms, confirm, editOpen, calls, sent,
                 waits, history, events>>

CloseDelete ==
  /\ deleteOpen /\ screen = "detail" /\ Data
  /\ deleteOpen' = FALSE
  /\ UNCHANGED <<session, server, screen, page, query, form, forms, confirm, editOpen, calls, sent,
                 waits, history, events>>

-----------------------------------------------------------------------------
(* Sending *)

\* Seeded fault: the button is released with the answer, before the page
\* has refetched and left the form.
Pending_UntilAnswered(kind) ==
  \E c \in 1 .. sent : calls[c].st \notin {"settling", "done"}
                       /\ calls[c].kind = kind /\ calls[c].page = page

\* isPending of the mutation hooks, of the screen or of a control on it.
Pending(kind) ==
  \E c \in 1 .. sent : calls[c].st # "done" /\ calls[c].kind = kind /\ calls[c].page = page

\* mutateAsync.
Send(kind, body, allow) ==
  /\ sent < MaxCalls /\ sent' = sent + 1
  /\ calls' = [calls EXCEPT ![sent + 1] =
       [kind |-> kind, form |-> form.no, base |-> IF form = NoForm THEN <<>> ELSE form.base,
        page |-> page, body |-> body, allow |-> allow, st |-> "sent", stored |-> FALSE,
        lost |-> FALSE]]

\* Its promise has settled.
Finish(c) ==
  calls' = [calls EXCEPT ![c] =
    [kind |-> @.kind, form |-> @.form, st |-> "done", stored |-> @.stored, lost |-> @.lost]]

BuildCreate == form.value

\* Seeded fault: an edit sends the whole form.
BuildEdit_AllFields == form.value

\* Only the fields that differ, as they were typed, from what the form was
\* opened with.  The title is trimmed after that.
BuildEdit ==
  [f \in {g \in EditFields : form.value[g] # form.base[g] \/ (g = "title" /\ form.pad)}
     |-> form.value[f]]

Body == IF form.mode = "create" THEN BuildCreate ELSE BuildEdit

\* Empty titles, a leader's missing assignee and edits that change nothing
\* are not sent.
Submit ==
  /\ InForm /\ ~Pending(form.mode)
  /\ "" \notin {form.value[f] : f \in DOMAIN form.value}
  /\ DOMAIN Body # {}
  /\ Send(form.mode, Body, FALSE)
  /\ padded' = IF form.pad THEN padded \cup {form.no} ELSE padded
  /\ UNCHANGED <<session, server, screen, page, query, dialogs, waits, agreed, events>>

\* Seeded fault: the form is read again.
ConfirmPastDeadline_FormNow ==
  /\ confirm # NoBody /\ ~Pending(form.mode)
  /\ Send(form.mode, Body, TRUE)
  /\ confirm' = NoBody
  /\ agreed' = agreed \cup {<<form.no, confirm.deadline>>}
  /\ UNCHANGED <<session, server, screen, page, query, form, forms, editOpen, deleteOpen, waits,
                 padded, events>>

\* The payload that was refused is sent again, not what the form holds now.
ConfirmPastDeadline ==
  /\ confirm # NoBody /\ ~Pending(form.mode)
  /\ Send(form.mode, confirm, TRUE)
  /\ confirm' = NoBody
  /\ agreed' = agreed \cup {<<form.no, confirm.deadline>>}
  /\ UNCHANGED <<session, server, screen, page, query, form, forms, editOpen, deleteOpen, waits,
                 padded, events>>

CancelPastDeadline ==
  /\ confirm # NoBody /\ confirm' = NoBody
  /\ UNCHANGED <<session, server, screen, page, query, form, forms, editOpen, deleteOpen, calls,
                 sent, waits, history, events>>

HandleDelete ==
  /\ deleteOpen /\ screen = "detail" /\ Data /\ ~Pending("delete")
  /\ Send("delete", <<>>, FALSE)
  /\ UNCHANGED <<session, server, screen, page, query, dialogs, waits, history, events>>

HandleProgress(v) ==
  /\ OnPage /\ shown.assignee = "me" /\ ~Pending("progress") /\ v # shown.progress
  /\ Send("progress", [progress |-> v], FALSE)
  /\ UNCHANGED <<session, server, screen, page, query, dialogs, waits, history, events>>

\* The selection is kept while the task changes under it: any other member.
HandleReassign(u) ==
  /\ OnPage /\ role = "LEADER" /\ ~Pending("reassign") /\ u # shown.assignee
  /\ Send("reassign", [assignee |-> u], FALSE)
  /\ UNCHANGED <<session, server, screen, page, query, dialogs, waits, history, events>>

-----------------------------------------------------------------------------
(* Serving *)

IsPast(body) ==
  "deadline" \in DOMAIN body /\ (body.deadline = "past" \/ (body.deadline = "soon" /\ late))

Ended(call, st, stored, lost) ==
  [kind |-> call.kind, form |-> call.form, page |-> call.page, st |-> st, stored |-> stored,
   lost |-> lost]

\* The gates a write of the task passes on the server.
Permitted(c) ==
  CASE calls[c].kind = "create" -> TRUE
    [] calls[c].kind \in {"edit", "delete"} -> alive /\ owner = "me"
    [] calls[c].kind = "progress" -> alive /\ task.assignee = "me"
    [] OTHER -> alive /\ role = "LEADER"

\* EditDefinition and CreateTask ask for a confirmation before they write.
ServePast(c) ==
  /\ calls[c].st = "sent" /\ Permitted(c)
  /\ IsPast(calls[c].body) /\ ~calls[c].allow
  /\ calls' = [calls EXCEPT ![c].st = "past"]
  /\ UNCHANGED <<session, server, screen, page, query, dialogs, sent, waits, history, events>>

\* The task is loaded, and the clock read and compared, before the write.
ServeCheck(c) ==
  /\ calls[c].st = "sent" /\ Permitted(c)
  /\ calls[c].allow \/ ~IsPast(calls[c].body)
  /\ calls' = [calls EXCEPT ![c].st = "checked"]
  /\ UNCHANGED <<session, server, screen, page, query, dialogs, sent, waits, history, events>>

\* By id, whatever happened to the task meanwhile.  Absent fields are kept.
ServeWrite(c) ==
  /\ calls[c].st = "checked"
  /\ calls' = [calls EXCEPT ![c] = Ended(@, "ok", TRUE, FALSE)]
  /\ task' = IF calls[c].kind \in {"create", "delete"} THEN task
             ELSE [f \in DOMAIN task |->
                     IF f \in DOMAIN calls[c].body THEN calls[c].body[f] ELSE task[f]]
  /\ alive' = (alive /\ calls[c].kind # "delete")
  /\ UNCHANGED <<session, late, screen, page, query, dialogs, sent, waits, history, events>>

\* 404 and 403.
ServeRefuse(c) ==
  /\ calls[c].st = "sent" /\ ~Permitted(c)
  /\ calls' = [calls EXCEPT ![c] = Ended(@, "refused", FALSE, FALSE)]
  /\ UNCHANGED <<session, server, screen, page, query, dialogs, sent, waits, history, events>>

\* The request, its answer or the connection is lost, or the limiter answers.
Lose(c) ==
  /\ calls[c].st \in {"sent", "checked", "ok", "past", "refused"}
  /\ events < MaxEvents /\ events' = events + 1
  /\ calls' = [calls EXCEPT ![c] = Ended(@, "refused", @.stored, TRUE)]
  /\ UNCHANGED <<session, server, screen, page, query, dialogs, sent, waits, history>>

-----------------------------------------------------------------------------
(* Answers *)

\* onSuccess of the hooks: refetch the mounted query and wait for it.  With
\* data a fetch under way is abandoned, and whoever waited for it goes on.
DeliverOk(c) ==
  /\ calls[c].st = "ok"
  /\ calls' = [calls EXCEPT ![c].st = "settling"]
  /\ IF screen = "detail"
     THEN /\ fetch' = IF shown = NoTask /\ fetch # Idle THEN fetch ELSE [st |-> "asked"]
          /\ waits' = IF shown = NoTask THEN waits \cup {c} ELSE {c}
     ELSE UNCHANGED <<fetch, waits>>
  /\ UNCHANGED <<session, server, screen, page, shown, failed, dialogs, sent, history, events>>

\* What follows mutateAsync: create and delete lead to the list from
\* wherever the page is, an edit closes the dialog of its screen, whichever
\* form that holds by now.
Settle(c) ==
  /\ calls[c].st = "settling" /\ c \notin waits
  /\ Finish(c)
  /\ IF calls[c].kind \in {"create", "delete"} /\ screen # "list"
     THEN GoTo("list")
     ELSE IF calls[c].kind = "edit" /\ calls[c].page = page
     THEN /\ form' = NoForm /\ confirm' = NoBody /\ editOpen' = FALSE
          /\ UNCHANGED <<screen, page, query, forms, deleteOpen>>
     ELSE UNCHANGED <<screen, page, query, dialogs>>
  /\ UNCHANGED <<session, server, sent, waits, history, events>>

\* Seeded fault: the dialog is the page's and outlives the form.
DeliverPast_OnPage(c) ==
  /\ calls[c].st = "past"
  /\ Finish(c)
  /\ confirm' = calls[c].body
  /\ UNCHANGED <<session, server, screen, page, query, form, forms, editOpen, deleteOpen, sent,
                 waits, history, events>>

\* The dialog opens in the form that sent the payload, if that is mounted.
DeliverPast(c) ==
  /\ calls[c].st = "past"
  /\ Finish(c)
  /\ confirm' = IF form.no = calls[c].form THEN calls[c].body ELSE confirm
  /\ UNCHANGED <<session, server, screen, page, query, form, forms, editOpen, deleteOpen, sent,
                 waits, history, events>>

\* A message by the error's code; a delete closes its dialog.
DeliverRefused(c) ==
  /\ calls[c].st = "refused"
  /\ Finish(c)
  /\ deleteOpen' = (deleteOpen /\ ~(calls[c].kind = "delete" /\ calls[c].page = page))
  /\ UNCHANGED <<session, server, screen, page, query, form, forms, confirm, editOpen, sent,
                 waits, history, events>>

-----------------------------------------------------------------------------
CallStep(c) ==
  \/ ServePast(c) \/ ServeCheck(c) \/ ServeWrite(c) \/ ServeRefuse(c) \/ Lose(c)
  \/ DeliverOk(c) \/ Settle(c) \/ DeliverPast(c) \/ DeliverRefused(c)

Controls ==
  \/ OpenEdit \/ CloseEdit \/ OpenDelete \/ CloseDelete
  \/ \E t \in Titles : Type("title", t)
  \/ \E d \in Deadlines : Type("deadline", d)
  \/ TypeBlanks
  \/ form # NoForm /\ form.mode = "create" /\ \E u \in People : Type("assignee", u)
  \/ Submit \/ ConfirmPastDeadline \/ CancelPastDeadline \/ HandleDelete
  \/ \E v \in {"todo", "done"} : HandleProgress(v)
  \/ \E u \in People : HandleReassign(u)

Next ==
  \/ Tick \/ Elsewhere \/ ServeFetch \/ DeliverFetch \/ FailFetch
  \/ \E s \in {"detail", "list", "create"} : Navigate(s)
  \/ Controls
  \/ \E c \in 1 .. sent : CallStep(c)

Spec == Init /\ [][Next]_vars

-----------------------------------------------------------------------------
(* Properties *)

Drafts == [title : Titles \cup {""}, deadline : Deadlines, assignee : People \cup {""}]
Edits == [title : Titles, deadline : Deadlines]
FormOK(F) ==
  F = NoForm \/
    /\ F.no \in 1 .. forms /\ F.mode \in {"create", "edit"} /\ F.pad \in BOOLEAN
    /\ F.mode = "create" => {F.base, F.value} \subseteq Drafts /\ screen = "create"
    /\ F.mode = "edit" => {F.base, F.value} \subseteq Edits /\ screen = "detail" /\ Data

\* A form is only mounted over its screen, an edit form over the task it
\* edits, and a confirmation only over a form.
TypeOK ==
  /\ role \in {"LEADER", "MEMBER"} /\ owner \in People
  /\ task \in Values /\ alive \in BOOLEAN /\ late \in BOOLEAN
  /\ screen \in {"detail", "list", "create"} /\ page \in Nat
  /\ shown \in Values \cup {NoTask, Gone} /\ failed \in BOOLEAN
  /\ fetch \in {Idle, [st |-> "asked"]} \cup [st : {"answered"}, data : Values \cup {Gone}]
  /\ FormOK(form) /\ forms \in 0 .. MaxForms
  /\ confirm # NoBody => form # NoForm /\ "deadline" \in DOMAIN confirm
  /\ editOpen \in BOOLEAN /\ deleteOpen \in BOOLEAN
  /\ sent \in 0 .. MaxCalls /\ waits \subseteq 1 .. sent
  /\ \A c \in 1 .. MaxCalls : c > sent <=> calls[c] = NoCall
  /\ agreed \subseteq (1 .. forms) \X Deadlines
  /\ padded \subseteq 1 .. forms

\* Saving an edit sets no field back to what it was when the form was opened:
\* what other pages wrote since then is only replaced by what the user typed
\* (TaskForm.tsx:18, buildEdit).  A form that was submitted with blanks around
\* the title is excepted for the title.
NeverReverts ==
  [][\A c \in 1 .. sent :
       calls[c].kind = "edit" /\ calls[c].st = "checked" /\ calls'[c].st = "ok" =>
         \A f \in EditFields :
           /\ task'[f] # task[f]
           /\ f = "title" => calls[c].form \notin padded
           => task'[f] # calls[c].base[f]]_vars

\* The same without the exception, which the code breaks: the dirty test is
\* on the title as typed, the patch has it trimmed (TaskForm.tsx:118).
BlanksRevertNothing ==
  [][\A c \in 1 .. sent :
       calls[c].kind = "edit" /\ calls[c].st = "checked" /\ calls'[c].st = "ok" =>
         \A f \in EditFields : task'[f] # task[f] => task'[f] # calls[c].base[f]]_vars

\* No deadline is let through that is past as the server reads its clock and
\* that was not agreed to, that very deadline in that very form, whatever was
\* typed, submitted and lost before (create-task.usecase.ts:59,
\* edit-definition.usecase.ts:46, TaskForm.tsx:141).
PastIsConfirmed ==
  [][\A c \in 1 .. sent :
       calls[c].st = "sent" /\ calls'[c].st = "checked" /\ IsPast(calls[c].body) =>
         <<calls[c].form, calls[c].body.deadline>> \in agreed]_vars

\* The same of the moment of the write, which the code does not keep: time
\* passes between the comparison and the write.
PastWhenStoredIsConfirmed ==
  [][\A c \in 1 .. sent :
       calls[c].st = "checked" /\ calls'[c].st = "ok" /\ IsPast(calls[c].body) =>
         <<calls[c].form, calls[c].body.deadline>> \in agreed]_vars

\* One form makes one task, unless the page was never told of the first:
\* neither the confirmation nor a second click sends it twice.
OneTaskPerForm ==
  \A c, d \in 1 .. sent :
    /\ calls[c].kind = "create" /\ calls[d].kind = "create" /\ calls[c].form = calls[d].form
    /\ calls[c].stored /\ calls[d].stored /\ ~calls[c].lost /\ ~calls[d].lost
    => c = d

\* When the server refuses a write of the task on the screen, the screen is
\* brought up to date: "a 403/404 surfaces as a toast + resync"
\* (TaskDetail.tsx:37, ProgressControl.tsx:11, error-messages.ts:19).
RefusalResyncs ==
  [][\A c \in 1 .. sent :
       /\ calls[c].st = "refused" /\ calls'[c].st = "done"
       /\ ~calls[c].lost /\ screen = "detail" /\ calls[c].page = page
       => fetch' # Idle]_vars
=============================================================================

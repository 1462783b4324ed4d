------------------------ MODULE FormsAndSeedingProofs ------------------------
(***************************************************************************)
(* Invariants of the task forms and, after them, of the seeding: two       *)
(* components without a name in common.                                    *)
(*                                                                         *)
(* What the forms of TaskForms keep, for any number of titles, forms and   *)
(* calls: a deadline that is past as the server compares it was agreed to, *)
(* a save reverts nothing but a title in blanks, and a form makes one      *)
(* task.  All rest on one invariant, that ties every call under way and    *)
(* every open confirmation to the form it came from.                       *)
(***************************************************************************)
EXTENDS TaskForms, Seeding, TLAPS

-----------------------------------------------------------------------------
(* The task forms *)

Fields == {"kind", "form", "base", "page", "body", "allow", "st", "stored", "lost"}

\* A body that sets no field back to what its form was opened with, other
\* than a title that was submitted in blanks.
NotBack(no, body, base) ==
  \A f \in EditFields \cap DOMAIN body : (f = "title" => no \notin padded) => body[f] # base[f]

\* The confirmation belongs to a form, and a form excludes the delete dialog.
FormSound ==
  /\ forms \in Nat
  /\ form = NoForm => confirm = NoBody
  /\ form # NoForm =>
       /\ form.no \in 1 .. forms
       /\ {"no", "mode", "base", "value", "pad"} \subseteq DOMAIN form
       /\ ~deleteOpen
       /\ confirm # NoBody /\ form.mode = "edit" => NotBack(form.no, confirm, form.base)
  /\ editOpen => ~deleteOpen
  /\ editOpen /\ screen = "detail" /\ Data => form # NoForm

\* A call that may still be stored, or ask for a confirmation, agrees with
\* the form of its number if that is still mounted.
FromItsForm(call) ==
  /\ Fields \subseteq DOMAIN call
  /\ call.form \in 0 .. forms
  /\ call.kind = "edit" => NotBack(call.form, call.body, call.base)
  /\ "deadline" \in DOMAIN call.body => call.form # 0
  /\ form # NoForm /\ call.form = form.no => call.kind = form.mode /\ call.base = form.base

CallSound(call) ==
  /\ "st" \in DOMAIN call
  /\ call.st \in {"sent", "checked", "past"} => FromItsForm(call)
  /\ call.st = "past" => "deadline" \in DOMAIN call.body
  /\ call.st = "sent" /\ call.allow = TRUE /\ "deadline" \in DOMAIN call.body
       => <<call.form, call.body.deadline>> \in agreed

CallsSound ==
  /\ sent \in 0 .. MaxCalls
  /\ DOMAIN calls = 1 .. MaxCalls
  /\ \A c \in 1 .. sent : CallSound(calls[c])
  /\ \A c \in 1 .. sent : calls[c].st = "sent" => calls[c].allow \in BOOLEAN

TaskSound == EditFields \subseteq DOMAIN task

Inv == FormSound /\ CallsSound /\ TaskSound

-----------------------------------------------------------------------------
\* The calls sent so far are in the table.
LEMMA CallIndex ==
  ASSUME Inv
  PROVE  1 .. sent \subseteq DOMAIN calls
<1>1. MaxCalls \in Nat
  BY FormsAssumption
<1> QED BY <1>1 DEF Inv, CallsSound

\* The initial states.
LEMMA InitSound == Init => Inv
<1> SUFFICES ASSUME Init PROVE Inv
    OBVIOUS
<1>1. FormSound
  BY DEF Init, FormSound, NoForm, NoBody, OpenForm
<1>2. CallsSound
  <2>1. MaxCalls \in Nat
    BY FormsAssumption
  <2>2. sent = 0 /\ calls = [c \in 1 .. MaxCalls |-> NoCall]
    BY DEF Init
  <2> QED BY <2>1, <2>2 DEF CallsSound
<1>3. TaskSound
  BY DEF Init, TaskSound, EditFields
<1> QED BY <1>1, <1>2, <1>3 DEF Inv

\* What the world does leaves forms and calls alone.
LEMMA WorldStep ==
  ASSUME Inv, Tick \/ Elsewhere \/ ServeFetch \/ vars' = vars
  PROVE  Inv'
<1> USE DEF Inv
<1>1. UNCHANGED <<dialogs, calls, sent, history, screen, shown, failed>>
  BY DEF Tick, Elsewhere, ServeFetch, vars, query
<1>2. TaskSound'
  BY DEF TaskSound, Tick, Elsewhere, ServeFetch, vars, server
<1>3. FormSound'
  BY <1>1 DEF FormSound, dialogs, history, Data, NotBack
<1>4. CallsSound'
  BY <1>1 DEF CallsSound, CallSound, FromItsForm, dialogs, history, NotBack
<1> QED BY <1>2, <1>3, <1>4

\* A call is the same, though a control may have forgotten it.
Same(call, next) ==
  /\ DOMAIN next = DOMAIN call
  /\ \A k \in DOMAIN call \ {"page"} : next[k] = call[k]
  /\ call.kind \notin {"progress", "reassign"} \/ call.st = "done" => next = call

CallsStand ==
  /\ UNCHANGED sent /\ DOMAIN calls' = DOMAIN calls
  /\ \A c \in 1 .. sent : Same(calls[c], calls'[c])
  /\ \A c \in DOMAIN calls : c > sent => calls'[c] = calls[c]

LEMMA SameCalls == UNCHANGED <<calls, sent>> => CallsStand
BY DEF CallsStand, Same

LEMMA Forgotten ==
  ASSUME NEW call, NEW next, next = [call EXCEPT !.page = 0]
  PROVE  /\ DOMAIN next = DOMAIN call
         /\ \A k \in DOMAIN call \ {"page"} : next[k] = call[k]
BY Zenon

\* Data that come, or fail to, leave the calls as they are.
LEMMA RenderStands ==
  ASSUME Inv, NEW data, NEW error, Render(data, error)
  PROVE  CallsStand
<1> DEFINE there == data \notin {NoTask, Gone} /\ ~error
           off == IF ~there THEN {"progress", "reassign"}
                  ELSE IF data.assignee # "me" THEN {"progress"} ELSE {}
           Forget(call) == [call EXCEPT !.page = 0]
<1>1. /\ calls' = [c \in DOMAIN calls |->
                    IF c <= sent /\ calls[c].kind \in off /\ calls[c].st # "done"
                    THEN Forget(calls[c]) ELSE calls[c]]
      /\ UNCHANGED sent
  BY Zenon DEF Render
<1>2. off \subseteq {"progress", "reassign"}
  OBVIOUS
<1>3. \A call : /\ DOMAIN Forget(call) = DOMAIN call
                /\ \A k \in DOMAIN call \ {"page"} : Forget(call)[k] = call[k]
  BY Forgotten, Zenon
<1> HIDE DEF off, Forget
<1>4. 1 .. sent \subseteq DOMAIN calls /\ sent \in Nat /\ DOMAIN calls = 1 .. MaxCalls /\ MaxCalls \in Nat
  <2>1. MaxCalls \in Nat
    BY FormsAssumption
  <2> QED BY <2>1, CallIndex DEF Inv, CallsSound
<1>5. ASSUME NEW c \in 1 .. sent PROVE Same(calls[c], calls'[c])
  <2>1. CASE calls'[c] = calls[c]
    BY <2>1 DEF Same
  <2>2. CASE calls'[c] = Forget(calls[c]) /\ calls[c].kind \in off /\ calls[c].st # "done"
    BY <1>2, <1>3, <2>2 DEF Same
  <2> QED BY <1>1, <1>4, <2>1, <2>2
<1>6. DOMAIN calls' = DOMAIN calls
  BY <1>1, Zenon
<1>7. ASSUME NEW c \in DOMAIN calls, c > sent PROVE calls'[c] = calls[c]
  <2>1. ~(c <= sent)
    BY <1>4, <1>7
  <2> QED BY <1>1, <2>1, Zenon
<1> QED BY <1>1, <1>5, <1>6, <1>7 DEF CallsStand

\* Calls stay sound under a form that was left or has a number of its own.
LEMMA CallsOutliveForms ==
  ASSUME Inv, CallsStand, UNCHANGED history,
         forms' \in Nat, forms' >= forms,
         \/ form' = NoForm
         \/ form' # NoForm /\ form # NoForm /\ form'.no = form.no
              /\ form'.mode = form.mode /\ form'.base = form.base
         \/ form'.no > forms
  PROVE  CallsSound'
<1>0. UNCHANGED <<agreed, padded, sent>>
  BY DEF history, CallsStand
<1>1. ASSUME NEW c \in 1 .. sent
      PROVE  CallSound(calls[c])' /\ (calls'[c].st = "sent" => calls'[c].allow \in BOOLEAN)
  <2>1. CallSound(calls[c]) /\ Same(calls[c], calls'[c])
    BY DEF Inv, CallsSound, CallsStand
  <2>2. "st" \in DOMAIN calls'[c] /\ calls'[c].st = calls[c].st
    BY <2>1 DEF CallSound, Same
  <2>3. ASSUME calls[c].st \in {"sent", "checked", "past"}
        PROVE  /\ FromItsForm(calls[c])'
               /\ calls'[c].body = calls[c].body /\ calls'[c].allow = calls[c].allow
               /\ calls'[c].form = calls[c].form
    <3>1. FromItsForm(calls[c])
      BY <2>1, <2>3 DEF CallSound
    <3>2. /\ Fields \subseteq DOMAIN calls'[c]
          /\ calls'[c].body = calls[c].body /\ calls'[c].allow = calls[c].allow
          /\ calls'[c].form = calls[c].form /\ calls'[c].kind = calls[c].kind
          /\ calls'[c].base = calls[c].base
      BY <2>1, <3>1 DEF FromItsForm, Fields, Same
    <3>3. calls[c].form \in 0 .. forms'
      BY <3>1 DEF FromItsForm, Inv, FormSound
    <3>4. ASSUME form' # NoForm, calls[c].form = form'.no
          PROVE  calls[c].kind = form'.mode /\ calls[c].base = form'.base
      BY <3>1, <3>4 DEF FromItsForm, Inv, FormSound
    <3> QED BY <1>0, <3>1, <3>2, <3>3, <3>4 DEF FromItsForm, NotBack
  <2>4. calls'[c].st = "sent" => calls'[c].allow \in BOOLEAN
    BY <2>2, <2>3 DEF Inv, CallsSound
  <2> QED BY <1>0, <2>1, <2>2, <2>3, <2>4 DEF CallSound
<1> QED BY <1>0, <1>1 DEF Inv, CallsSound, CallsStand

\* What a step of a form or a screen keeps.
FormGoesOn ==
  /\ CallsStand /\ UNCHANGED <<history, task>>
  /\ forms' \in Nat /\ forms' >= forms /\ FormSound'
  /\ \/ form' = NoForm
     \/ form' # NoForm /\ form # NoForm /\ form'.no = form.no
          /\ form'.mode = form.mode /\ form'.base = form.base
     \/ form'.no > forms

\* The screen of the task follows its query: a form may go, and come back new.
LEMMA RenderStep ==
  ASSUME Inv, NEW data, NEW error, Render(data, error)
  PROVE  FormGoesOn
<1> DEFINE there == data \notin {NoTask, Gone} /\ ~error
<1>1. FormSound /\ CallsStand
  BY RenderStands DEF Inv
<1>2. /\ shown' = data /\ failed' = error
      /\ IF screen = "detail" /\ ~there
         THEN form' = NoForm /\ confirm' = NoBody /\ UNCHANGED forms
         ELSE IF screen = "detail" /\ form = NoForm /\ editOpen
         THEN /\ form' = EditForm(data, forms + 1) /\ forms' = forms + 1
              /\ UNCHANGED confirm
         ELSE UNCHANGED <<form, forms, confirm>>
      /\ UNCHANGED <<screen, editOpen, deleteOpen, history, task>>
  BY DEF Render, server
<1>3. Data' <=> there
  BY <1>2 DEF Data
<1> HIDE DEF there
<1>4. CASE screen = "detail" /\ ~there
  BY <1>1, <1>2, <1>3, <1>4 DEF FormSound, FormGoesOn
<1>5. CASE ~(screen = "detail" /\ ~there) /\ screen = "detail" /\ form = NoForm /\ editOpen
  <2>1. /\ form' = EditForm(data, forms + 1) /\ forms' = forms + 1 /\ confirm' = NoBody
        /\ ~deleteOpen'
    BY <1>1, <1>2, <1>5 DEF FormSound
  <2>2. /\ form'.no = forms + 1 /\ form' # NoForm
        /\ {"no", "mode", "base", "value", "pad"} \subseteq DOMAIN form'
    BY <2>1 DEF EditForm, OpenForm, NoForm
  <2> QED BY <1>1, <1>2, <2>1, <2>2 DEF FormSound, FormGoesOn
<1>6. CASE UNCHANGED <<form, forms, confirm>> /\ ~(screen = "detail" /\ form = NoForm /\ editOpen)
  BY <1>1, <1>2, <1>6 DEF FormSound, FormGoesOn, NotBack, history
<1> QED BY <1>2, <1>4, <1>5, <1>6

\* Opening, typing into and leaving forms and dialogs.
LEMMA FormStep ==
  ASSUME Inv,
         \/ DeliverFetch \/ FailFetch \/ OpenEdit \/ CloseEdit \/ OpenDelete \/ CloseDelete
         \/ CancelPastDeadline \/ TypeBlanks
         \/ \E f \in {"title", "deadline", "assignee"}, v \in Titles \cup Deadlines \cup People :
              Type(f, v)
         \/ \E s \in {"detail", "list", "create"} : Navigate(s)
  PROVE  Inv'
<1>1. FormSound /\ TaskSound
  BY DEF Inv
<1>2. FormGoesOn
  <2>1. CASE DeliverFetch \/ FailFetch
    BY <2>1, RenderStep DEF DeliverFetch, FailFetch
  <2>2. CASE OpenEdit
    <3>1. /\ form = NoForm /\ ~deleteOpen /\ forms' = forms + 1
          /\ form' = EditForm(shown, forms + 1) /\ editOpen' = TRUE
          /\ UNCHANGED <<confirm, deleteOpen, calls, sent, history, task>>
      BY <2>2 DEF OpenEdit, OnPage, server
    <3>2. /\ form'.no = forms + 1 /\ form' # NoForm
          /\ {"no", "mode", "base", "value", "pad"} \subseteq DOMAIN form'
      BY <3>1 DEF EditForm, OpenForm, NoForm
    <3> QED BY <1>1, <3>1, <3>2, SameCalls DEF FormSound, FormGoesOn
  <2>3. CASE CloseEdit
    BY <1>1, <2>3, SameCalls DEF CloseEdit, InForm, FormSound, FormGoesOn, server
  <2>4. CASE OpenDelete
    BY <1>1, <2>4, SameCalls DEF OpenDelete, OnPage, FormSound, FormGoesOn, server, query, Data
  <2>5. CASE CloseDelete
    BY <1>1, <2>5, SameCalls DEF CloseDelete, FormSound, FormGoesOn, NotBack, server, history, query, Data
  <2>6. CASE CancelPastDeadline
    BY <1>1, <2>6, SameCalls DEF CancelPastDeadline, FormSound, FormGoesOn, server, query, Data
  <2>7. ASSUME NEW new, form' = new, form # NoForm, confirm = NoBody,
               DOMAIN new = DOMAIN form, new.no = form.no, new.mode = form.mode, new.base = form.base,
               UNCHANGED <<screen, query, forms, confirm, editOpen, deleteOpen, calls, sent, history, task>>
        PROVE  FormGoesOn
    <3>1. form' # NoForm
      BY <1>1, <2>7 DEF FormSound, NoForm
    <3> QED BY <1>1, <2>7, <3>1, SameCalls DEF FormSound, FormGoesOn, query, Data
  <2>8. ASSUME NEW f, NEW v, Type(f, v)
        PROVE  FormGoesOn
    <3>1. /\ form # NoForm /\ confirm = NoBody
          /\ form' = [form EXCEPT !.value[f] = v, !.pad = @ /\ f # "title"]
          /\ UNCHANGED <<screen, query, forms, confirm, editOpen, deleteOpen, calls, sent, history, task>>
      BY <2>8 DEF Type, InForm, server
    <3>2. /\ DOMAIN form' = DOMAIN form
          /\ form'.no = form.no /\ form'.mode = form.mode /\ form'.base = form.base
      BY <1>1, <3>1 DEF FormSound
    <3> QED BY <2>7, <3>1, <3>2
  <2>9. CASE TypeBlanks
    <3>1. /\ form # NoForm /\ confirm = NoBody /\ form' = [form EXCEPT !.pad = TRUE]
          /\ UNCHANGED <<screen, query, forms, confirm, editOpen, deleteOpen, calls, sent, history, task>>
      BY <2>9 DEF TypeBlanks, InForm, server
    <3>2. /\ DOMAIN form' = DOMAIN form
          /\ form'.no = form.no /\ form'.mode = form.mode /\ form'.base = form.base
      BY <1>1, <3>1 DEF FormSound
    <3> QED BY <2>7, <3>1, <3>2
  <2>10. ASSUME NEW s, Navigate(s) PROVE FormGoesOn
    <3>1. /\ confirm' = NoBody /\ ~editOpen' /\ ~deleteOpen'
          /\ UNCHANGED <<calls, sent, history, task>>
          /\ \/ form' = OpenForm("create", CreateDefaults, forms + 1) /\ forms' = forms + 1
             \/ form' = NoForm /\ forms' = forms
      BY <2>10 DEF Navigate, GoTo, server
    <3> QED BY <1>1, <3>1, SameCalls DEF OpenForm, FormSound, FormGoesOn, NoForm
  <2> QED BY <2>1, <2>2, <2>3, <2>4, <2>5, <2>6, <2>8, <2>9, <2>10
<1>3. CallsSound'
  BY <1>2, CallsOutliveForms DEF FormGoesOn
<1> QED BY <1>1, <1>2, <1>3 DEF Inv, TaskSound, FormGoesOn

-----------------------------------------------------------------------------
\* A call that is sent is sound if its body was made from the form.
LEMMA SendSound ==
  ASSUME Inv,
         NEW kind, NEW body, NEW allow \in BOOLEAN,
         Send(kind, body, allow), UNCHANGED <<form, forms>>,
         agreed \subseteq agreed', padded \subseteq padded',
         kind = "edit" =>
           /\ form # NoForm
           /\ \A f \in EditFields \cap DOMAIN body :
                (f = "title" => form.no \notin padded') => body[f] # form.base[f],
         "deadline" \in DOMAIN body => form # NoForm,
         form # NoForm => kind = form.mode,
         allow = TRUE /\ "deadline" \in DOMAIN body => <<form.no, body.deadline>> \in agreed'
  PROVE  CallsSound'
<1> DEFINE new == [kind |-> kind, form |-> form.no,
                   base |-> IF form = NoForm THEN <<>> ELSE form.base,
                   page |-> page, body |-> body, allow |-> allow, st |-> "sent",
                   stored |-> FALSE, lost |-> FALSE]
<1>1. /\ sent \in Nat /\ sent < MaxCalls /\ sent' = sent + 1 /\ MaxCalls \in Nat
      /\ calls' = [calls EXCEPT ![sent + 1] = new]
  <2>1. MaxCalls \in Nat
    BY FormsAssumption
  <2>2. sent \in Nat
    BY <2>1 DEF Inv, CallsSound
  <2>3. sent < MaxCalls /\ sent' = sent + 1 /\ calls' = [calls EXCEPT ![sent + 1] = new]
    BY Zenon DEF Send
  <2> QED BY <2>1, <2>2, <2>3
<1>2. /\ DOMAIN calls' = 1 .. MaxCalls /\ sent' \in 0 .. MaxCalls
      /\ calls'[sent + 1] = new
      /\ \A c \in 1 .. sent : calls'[c] = calls[c]
  BY <1>1 DEF Inv, CallsSound
<1>3. /\ form.no \in 0 .. forms /\ forms \in Nat
      /\ form # NoForm => form.no # 0
  BY DEF Inv, FormSound, NoForm
<1>4. ASSUME NEW c \in 1 .. sent' PROVE CallSound(calls[c])'
  <2>1. CASE c = sent + 1
    <3>1. /\ Fields \subseteq DOMAIN calls'[c]
          /\ calls'[c].form = form.no /\ calls'[c].kind = kind
          /\ calls'[c].body = body /\ calls'[c].allow = allow /\ calls'[c].st = "sent"
          /\ form # NoForm => calls'[c].base = form.base
      BY <1>2, <2>1 DEF Fields
    <3>2. kind = "edit" => NotBack(calls[c].form, calls[c].body, calls[c].base)'
      BY <3>1 DEF NotBack
    <3>3. FromItsForm(calls[c])'
      BY <3>1, <3>2, <1>3 DEF FromItsForm
    <3> QED BY <3>1, <3>3 DEF CallSound, Fields
  <2>2. CASE c \in 1 .. sent
    <3>1. CallSound(calls[c]) /\ calls'[c] = calls[c]
      BY <1>2, <2>2 DEF Inv, CallsSound
    <3> HIDE DEF new
    <3>2. ASSUME calls[c].kind = "edit", NotBack(calls[c].form, calls[c].body, calls[c].base)
          PROVE  NotBack(calls[c].form, calls[c].body, calls[c].base)'
      BY <3>1, <3>2 DEF NotBack
    <3> QED BY <3>1, <3>2 DEF CallSound, FromItsForm
  <2> QED BY <1>1, <2>1, <2>2
<1>5. ASSUME NEW c \in 1 .. sent', calls'[c].st = "sent" PROVE calls'[c].allow \in BOOLEAN
  <2>1. CASE c = sent + 1
    BY <1>2, <2>1
  <2>2. CASE c \in 1 .. sent
    <3> HIDE DEF new
    <3> QED BY <1>2, <1>5, <2>2 DEF Inv, CallsSound
  <2> QED BY <1>1, <2>1, <2>2
<1> HIDE DEF new
<1> QED BY <1>2, <1>4, <1>5 DEF CallsSound

\* The controls that send.
LEMMA SendStep ==
  ASSUME Inv,
         \/ Submit \/ ConfirmPastDeadline \/ HandleDelete
         \/ \E v \in {"todo", "done"} : HandleProgress(v)
         \/ \E u \in People : HandleReassign(u)
  PROVE  Inv'
<1>1. FormSound /\ CallsSound /\ TaskSound
  BY DEF Inv
<1>2. UNCHANGED <<task, screen, shown, failed>>
  BY DEF Submit, ConfirmPastDeadline, HandleDelete, HandleProgress, HandleReassign, server, query
<1>3. TaskSound'
  BY <1>1, <1>2 DEF TaskSound
<1>4. CASE Submit
  <2>1. /\ form # NoForm /\ confirm = NoBody
        /\ Send(form.mode, Body, FALSE)
        /\ padded' = (IF form.pad THEN padded \cup {form.no} ELSE padded)
        /\ UNCHANGED <<dialogs, agreed>>
    BY <1>4 DEF Submit, InForm
  <2>2. form.mode = "edit" => \A f \in EditFields \cap DOMAIN Body :
          (f = "title" => form.no \notin padded') => Body[f] # form.base[f]
    <3> SUFFICES ASSUME form.mode = "edit", NEW f \in EditFields \cap DOMAIN Body,
                        f = "title" => form.no \notin padded'
                 PROVE  Body[f] # form.base[f]
      OBVIOUS
    <3>1. /\ f \in EditFields
          /\ form.value[f] # form.base[f] \/ (f = "title" /\ form.pad)
          /\ Body[f] = form.value[f]
      BY DEF Body, BuildEdit
    <3> QED BY <2>1, <3>1
  <2>3. CallsSound'
    BY <2>1, <2>2, SendSound DEF dialogs
  <2>4. FormSound'
    BY <1>1, <1>2, <2>1 DEF FormSound, dialogs, Data
  <2> QED BY <1>3, <2>3, <2>4 DEF Inv
<1>5. CASE ConfirmPastDeadline
  <2>1. /\ confirm # NoBody /\ Send(form.mode, confirm, TRUE) /\ confirm' = NoBody
        /\ agreed' = agreed \cup {<<form.no, confirm.deadline>>}
        /\ UNCHANGED <<form, forms, editOpen, deleteOpen, padded>>
    BY <1>5 DEF ConfirmPastDeadline
  <2>2. form # NoForm /\ (form.mode = "edit" => NotBack(form.no, confirm, form.base))
    BY <1>1, <2>1 DEF FormSound
  <2>3. form.mode = "edit" => \A f \in EditFields \cap DOMAIN confirm :
          (f = "title" => form.no \notin padded') => confirm[f] # form.base[f]
    BY <2>1, <2>2 DEF NotBack
  <2>4. CallsSound'
    BY <2>1, <2>2, <2>3, SendSound
  <2>5. FormSound'
    BY <1>1, <1>2, <2>1 DEF FormSound, Data
  <2> QED BY <1>3, <2>4, <2>5 DEF Inv
<1>6. ASSUME NEW kind, NEW body, form = NoForm, kind # "edit", "deadline" \notin DOMAIN body,
             Send(kind, body, FALSE), UNCHANGED <<dialogs, history>>
      PROVE  Inv'
  <2>1. CallsSound'
    BY <1>6, SendSound DEF dialogs, history
  <2>2. FormSound'
    BY <1>1, <1>2, <1>6 DEF FormSound, dialogs, Data
  <2> QED BY <1>3, <2>1, <2>2 DEF Inv
<1>7. CASE HandleDelete
  <2>1. deleteOpen /\ Send("delete", <<>>, FALSE) /\ UNCHANGED <<dialogs, history>>
    BY <1>7 DEF HandleDelete
  <2>2. form = NoForm
    BY <1>1, <2>1 DEF FormSound
  <2>3. "deadline" \notin DOMAIN <<>>
    OBVIOUS
  <2> QED BY <1>6, <2>1, <2>2, <2>3
<1>8. ASSUME NEW v, HandleProgress(v) PROVE Inv'
  <2>1. /\ form = NoForm /\ Send("progress", [progress |-> v], FALSE)
        /\ UNCHANGED <<dialogs, history>>
    BY <1>8 DEF HandleProgress, OnPage
  <2>2. "deadline" \notin DOMAIN [progress |-> v]
    OBVIOUS
  <2> QED BY <1>6, <2>1, <2>2
<1>9. ASSUME NEW u, HandleReassign(u) PROVE Inv'
  <2>1. /\ form = NoForm /\ Send("reassign", [assignee |-> u], FALSE)
        /\ UNCHANGED <<dialogs, history>>
    BY <1>9 DEF HandleReassign, OnPage
  <2>2. "deadline" \notin DOMAIN [assignee |-> u]
    OBVIOUS
  <2> QED BY <1>6, <2>1, <2>2
<1> QED BY <1>4, <1>5, <1>7, <1>8, <1>9

-----------------------------------------------------------------------------
\* A call that is stored, taken up or lost is out of reach of the properties.
LEMMA CallPasses ==
  ASSUME Inv, NEW c \in 1 .. sent,
         UNCHANGED <<sent, forms, history>>, form' = form \/ form' = NoForm,
         DOMAIN calls' = DOMAIN calls,
         \A d \in 1 .. sent : d # c => calls'[d] = calls[d],
         "st" \in DOMAIN calls'[c], calls'[c].st \notin {"sent", "checked", "past"}
  PROVE  CallsSound'
<1>1. ASSUME NEW d \in 1 .. sent PROVE CallSound(calls[d])'
  <2>1. CASE d = c
    BY <2>1 DEF CallSound
  <2>2. CASE d # c
    BY <2>2 DEF Inv, CallsSound, CallSound, FromItsForm, NotBack, history
  <2> QED BY <2>1, <2>2
<1> QED BY <1>1 DEF Inv, CallsSound

\* The server's comparison with the clock keeps the call as it was sent.
LEMMA CheckStep ==
  ASSUME Inv, NEW c \in 1 .. sent, ServePast(c) \/ ServeCheck(c)
  PROVE  Inv'
<1>1. FormSound /\ CallsSound /\ TaskSound
  BY DEF Inv
<1>2. PICK st \in {"past", "checked"} :
        /\ calls' = [calls EXCEPT ![c].st = st]
        /\ st = "past" => "deadline" \in DOMAIN calls[c].body
  <2>1. CASE ServePast(c)
    BY <2>1 DEF ServePast, IsPast
  <2>2. CASE ServeCheck(c)
    BY <2>2 DEF ServeCheck
  <2> QED BY <2>1, <2>2
<1>3. /\ calls[c].st = "sent"
      /\ UNCHANGED <<server, screen, query, dialogs, sent, history>>
  BY DEF ServePast, ServeCheck
<1>4. CallSound(calls[c]) /\ FromItsForm(calls[c])
  BY <1>1, <1>3 DEF CallsSound, CallSound
<1>5. /\ DOMAIN calls' = DOMAIN calls
      /\ \A d \in 1 .. sent : d # c => calls'[d] = calls[d]
      /\ DOMAIN calls'[c] = DOMAIN calls[c] /\ calls'[c].st = st
      /\ calls'[c].kind = calls[c].kind /\ calls'[c].form = calls[c].form
      /\ calls'[c].base = calls[c].base /\ calls'[c].body = calls[c].body
  <2>1. 1 .. sent \subseteq DOMAIN calls
    BY CallIndex
  <2>2. Fields \subseteq DOMAIN calls[c]
    BY <1>4 DEF FromItsForm
  <2> QED BY <1>2, <2>1, <2>2 DEF Fields
<1>6. ASSUME NEW d \in 1 .. sent PROVE CallSound(calls[d])'
  <2>1. CASE d = c
    <3>1. FromItsForm(calls[c])'
      BY <1>3, <1>4, <1>5 DEF FromItsForm, NotBack, dialogs, history
    <3> QED BY <1>2, <1>4, <1>5, <2>1, <3>1 DEF CallSound, FromItsForm, Fields
  <2>2. CASE d # c
    BY <1>1, <1>3, <1>5, <2>2 DEF CallsSound, CallSound, FromItsForm, NotBack, dialogs, history
  <2> QED BY <2>1, <2>2
<1>7. CallsSound'
  BY <1>1, <1>3, <1>5, <1>6 DEF CallsSound
<1> QED
  BY <1>1, <1>3, <1>7 DEF Inv, FormSound, TaskSound, NotBack, server, dialogs, history, query, Data

\* The write itself asks nothing any more.
LEMMA ServeWriteStep ==
  ASSUME Inv, NEW c \in 1 .. sent, ServeWrite(c)
  PROVE  Inv'
<1>1. FormSound /\ CallsSound /\ TaskSound
  BY DEF Inv
<1>2. 1 .. sent \subseteq DOMAIN calls
  BY CallIndex
<1>3. /\ UNCHANGED <<dialogs, sent, history, screen, query>>
      /\ calls' = [calls EXCEPT ![c] = Ended(@, "ok", TRUE, FALSE)]
  BY DEF ServeWrite
<1>4. CallsSound'
  <2>1. /\ DOMAIN calls' = DOMAIN calls
        /\ \A d \in 1 .. sent : d # c => calls'[d] = calls[d]
        /\ "st" \in DOMAIN calls'[c] /\ calls'[c].st = "ok"
    BY <1>2, <1>3 DEF Ended
  <2> QED BY <1>3, <2>1, CallPasses DEF dialogs
<1>5. TaskSound'
  BY <1>1 DEF ServeWrite, TaskSound
<1>6. FormSound'
  BY <1>1, <1>3 DEF FormSound, NotBack, dialogs, history, query, Data
<1> QED BY <1>4, <1>5, <1>6 DEF Inv

\* Everything else that happens to a call ends it, or is on the way to its end.
LEMMA CallEndStep ==
  ASSUME Inv, NEW c \in 1 .. sent,
         ServeRefuse(c) \/ Lose(c) \/ DeliverOk(c) \/ Settle(c) \/ DeliverRefused(c)
  PROVE  Inv'
<1>1. FormSound /\ CallsSound /\ TaskSound
  BY DEF Inv
<1>2. 1 .. sent \subseteq DOMAIN calls
  BY CallIndex
<1>3. "st" \in DOMAIN calls[c]
  BY <1>1 DEF CallsSound, CallSound
<1>4. UNCHANGED <<task, sent, history, shown, failed>>
  BY DEF ServeRefuse, Lose, DeliverOk, Settle, DeliverRefused, GoTo, server, query
<1>5. /\ DOMAIN calls' = DOMAIN calls
      /\ \A d \in 1 .. sent : d # c => calls'[d] = calls[d]
      /\ "st" \in DOMAIN calls'[c] /\ calls'[c].st \notin {"sent", "checked", "past"}
  <2>1. CASE ServeRefuse(c) \/ Lose(c)
    BY <1>2, <2>1 DEF ServeRefuse, Lose, Ended
  <2>2. CASE DeliverOk(c)
    <3>1. calls' = [calls EXCEPT ![c].st = "settling"]
      BY <2>2 DEF DeliverOk
    <3> QED BY <1>2, <1>3, <3>1
  <2>3. CASE Settle(c) \/ DeliverRefused(c)
    BY <1>2, <2>3 DEF Settle, DeliverRefused, Finish
  <2> QED BY <2>1, <2>2, <2>3
<1>6. /\ forms' = forms
      /\ \/ form' = NoForm /\ confirm' = NoBody /\ ~editOpen'
         \/ UNCHANGED <<form, confirm, editOpen, screen>>
  BY DEF ServeRefuse, Lose, DeliverOk, Settle, DeliverRefused, GoTo, dialogs
<1>7. ~deleteOpen => ~deleteOpen'
  <2>1. CASE ServeRefuse(c) \/ Lose(c) \/ DeliverOk(c)
    BY <2>1 DEF ServeRefuse, Lose, DeliverOk, dialogs
  <2>2. CASE Settle(c)
    BY <2>2 DEF Settle, GoTo, dialogs
  <2>3. CASE DeliverRefused(c)
    <3>1. deleteOpen' = (deleteOpen /\ ~(calls[c].kind = "delete" /\ calls[c].page = page))
      BY <2>3 DEF DeliverRefused
    <3> QED BY Zenon, <3>1
  <2> QED BY <2>1, <2>2, <2>3
<1>8. FormSound'
  BY <1>1, <1>4, <1>6, <1>7 DEF FormSound, NotBack, Data, history
<1>9. CallsSound'
  BY <1>4, <1>5, <1>6, CallPasses
<1> QED BY <1>1, <1>4, <1>8, <1>9 DEF Inv, TaskSound

\* The dialog opens in the form whose call was refused, on the body it sent.
LEMMA DeliverPastStep ==
  ASSUME Inv, NEW c \in 1 .. sent, DeliverPast(c)
  PROVE  Inv'
<1>1. FormSound /\ CallsSound /\ TaskSound
  BY DEF Inv
<1>2. 1 .. sent \subseteq DOMAIN calls
  BY CallIndex
<1>3. /\ calls[c].st = "past" /\ Finish(c)
      /\ confirm' = IF form.no = calls[c].form THEN calls[c].body ELSE confirm
      /\ UNCHANGED <<task, screen, shown, failed, form, forms, editOpen, deleteOpen, sent, history>>
  BY DEF DeliverPast, server, query
<1>4. CallsSound'
  <2>1. /\ DOMAIN calls' = DOMAIN calls
        /\ \A d \in 1 .. sent : d # c => calls'[d] = calls[d]
        /\ "st" \in DOMAIN calls'[c] /\ calls'[c].st = "done"
    BY <1>2, <1>3 DEF Finish
  <2> QED BY <1>3, <2>1, CallPasses
<1>5. FormSound'
  <2>1. CallSound(calls[c]) /\ FromItsForm(calls[c])
    BY <1>1, <1>3 DEF CallsSound, CallSound
  <2>2. calls[c].form # 0
    BY <1>3, <2>1 DEF CallSound, FromItsForm
  <2>3. CASE form.no = calls[c].form
    <3>1. form # NoForm
      BY <2>2, <2>3 DEF NoForm
    <3>2. form.mode = "edit" => NotBack(form.no, calls[c].body, form.base)
      BY <2>1, <2>3, <3>1 DEF FromItsForm
    <3> QED BY <1>1, <1>3, <2>3, <3>1, <3>2 DEF FormSound, NotBack, Data, history
  <2>4. CASE form.no # calls[c].form
    BY <1>1, <1>3, <2>4 DEF FormSound, NotBack, Data, history
  <2> QED BY <2>3, <2>4
<1> QED BY <1>1, <1>3, <1>4, <1>5 DEF Inv, TaskSound

-----------------------------------------------------------------------------
\* The invariant is inductive.
LEMMA Inductive ==
  ASSUME Inv, [Next]_vars
  PROVE  Inv'
<1>1. CASE Tick \/ Elsewhere \/ ServeFetch \/ vars' = vars
  BY <1>1, WorldStep
<1>2. CASE DeliverFetch \/ FailFetch \/ \E s \in {"detail", "list", "create"} : Navigate(s)
  BY <1>2, FormStep
<1>3. CASE Controls
  <2>1. CASE \/ OpenEdit \/ CloseEdit \/ OpenDelete \/ CloseDelete \/ CancelPastDeadline \/ TypeBlanks
             \/ \E t \in Titles : Type("title", t)
             \/ \E d \in Deadlines : Type("deadline", d)
             \/ \E u \in People : Type("assignee", u)
    BY <2>1, FormStep
  <2>2. CASE \/ Submit \/ ConfirmPastDeadline \/ HandleDelete
             \/ \E v \in {"todo", "done"} : HandleProgress(v)
             \/ \E u \in People : HandleReassign(u)
    BY <2>2, SendStep
  <2> QED BY <1>3, <2>1, <2>2 DEF Controls
<1>4. ASSUME NEW c \in 1 .. sent, CallStep(c) PROVE Inv'
  BY <1>4, CheckStep, ServeWriteStep, CallEndStep, DeliverPastStep DEF CallStep
<1> QED BY <1>1, <1>2, <1>3, <1>4 DEF Next

\* A call only moves on by being served or delivered.
LEMMA OnlyCallSteps ==
  ASSUME Inv, [Next]_vars,
         NEW c \in 1 .. sent, calls'[c].st # calls[c].st
  PROVE  CallStep(c)
<1>1. 1 .. sent \subseteq DOMAIN calls /\ sent \in Nat /\ "st" \in DOMAIN calls[c]
  <2>1. MaxCalls \in Nat
    BY FormsAssumption
  <2>2. "st" \in DOMAIN calls[c]
    BY DEF Inv, CallsSound, CallSound
  <2> QED BY <2>1, <2>2, CallIndex DEF Inv, CallsSound
<1>2. calls' # calls
  OBVIOUS
<1>3. ASSUME NEW kind, NEW body, NEW allow, Send(kind, body, allow) PROVE FALSE
  BY <1>1, <1>3 DEF Send
<1>4. PICK d \in 1 .. sent : CallStep(d)
  <2>1. ~(Tick \/ Elsewhere \/ ServeFetch \/ vars' = vars)
    BY <1>2 DEF Tick, Elsewhere, ServeFetch, vars
  <2>2. ASSUME NEW data, NEW error, Render(data, error) PROVE FALSE
    <3>1. Same(calls[c], calls'[c])
      BY <2>2, RenderStands DEF CallsStand
    <3> QED BY <1>1, <3>1 DEF Same
  <2>3. ~(DeliverFetch \/ FailFetch)
    BY <2>2 DEF DeliverFetch, FailFetch
  <2>4. ~(\E s \in {"detail", "list", "create"} : Navigate(s))
    BY <1>2 DEF Navigate
  <2>5. ~Controls
    <3>1. ~(OpenEdit \/ CloseEdit \/ OpenDelete \/ CloseDelete \/ CancelPastDeadline \/ TypeBlanks)
      BY <1>2 DEF OpenEdit, CloseEdit, OpenDelete, CloseDelete, CancelPastDeadline, TypeBlanks
    <3>2. ASSUME NEW f, NEW v, Type(f, v) PROVE FALSE
      BY <1>2, <3>2 DEF Type
    <3>3. ~(Submit \/ ConfirmPastDeadline \/ HandleDelete)
      BY <1>3 DEF Submit, ConfirmPastDeadline, HandleDelete
    <3>4. ASSUME NEW v, HandleProgress(v) \/ HandleReassign(v) PROVE FALSE
      BY <1>3, <3>4 DEF HandleProgress, HandleReassign
    <3> QED BY <3>1, <3>2, <3>3, <3>4 DEF Controls
  <2> QED BY <2>1, <2>3, <2>4, <2>5 DEF Next
<1>5. d = c
  <2> SUFFICES ASSUME d # c PROVE calls'[c] = calls[c]
    OBVIOUS
  <2> QED
    BY <1>1, <1>4 DEF CallStep, ServePast, ServeCheck, ServeWrite, ServeRefuse, Lose, DeliverOk,
                      Settle, DeliverPast, DeliverRefused, Finish
<1> QED BY <1>4, <1>5

\* What each step makes of a call.
LEMMA Outcomes ==
  ASSUME Inv, NEW c \in 1 .. sent, CallStep(c)
  PROVE  /\ calls'[c].st = "checked" => ServeCheck(c)
         /\ calls[c].st = "checked" /\ calls'[c].st = "ok" => ServeWrite(c)
<1>1. 1 .. sent \subseteq DOMAIN calls /\ "st" \in DOMAIN calls[c]
  BY CallIndex DEF Inv, CallsSound, CallSound
<1>2. CASE ServePast(c)
  <2>1. calls'[c].st = "past"
    BY <1>1, <1>2 DEF ServePast
  <2> QED BY <2>1
<1>3. CASE ServeRefuse(c) \/ Lose(c)
  <2>1. calls'[c].st = "refused"
    BY <1>1, <1>3 DEF ServeRefuse, Lose, Ended
  <2> QED BY <2>1
<1>4. CASE ServeWrite(c)
  <2>1. calls'[c].st = "ok"
    BY <1>1, <1>4 DEF ServeWrite, Ended
  <2> QED BY <1>4, <2>1
<1>5. CASE ServeCheck(c)
  <2>1. calls'[c].st = "checked"
    BY <1>1, <1>5 DEF ServeCheck
  <2> QED BY <1>5, <2>1
<1>6. CASE DeliverOk(c)
  <2>1. calls'[c].st = "settling"
    BY <1>1, <1>6 DEF DeliverOk
  <2> QED BY <2>1
<1>7. CASE Settle(c) \/ DeliverPast(c) \/ DeliverRefused(c)
  <2>1. calls'[c].st = "done"
    BY <1>1, <1>7 DEF Settle, DeliverPast, DeliverRefused, Finish
  <2> QED BY <2>1
<1> QED BY <1>2, <1>3, <1>4, <1>5, <1>6, <1>7 DEF CallStep

\* No deadline is let through, past as the server compares it with its clock,
\* that was not agreed to, that very deadline in that very form
\* (TaskForm.tsx:141, confirmPastDeadline; create-task.usecase.ts:59).
THEOREM Confirmed == Spec => PastIsConfirmed
<1> DEFINE Agreed ==
      \A c \in 1 .. sent :
        calls[c].st = "sent" /\ calls'[c].st = "checked" /\ IsPast(calls[c].body) =>
          <<calls[c].form, calls[c].body.deadline>> \in agreed
<1>1. ASSUME Inv, [Next]_vars PROVE [Agreed]_vars
  <2> SUFFICES ASSUME NEW c \in 1 .. sent,
                      calls[c].st = "sent", calls'[c].st = "checked", IsPast(calls[c].body)
               PROVE  <<calls[c].form, calls[c].body.deadline>> \in agreed
    OBVIOUS
  <2>1. ServeCheck(c)
    BY <1>1, OnlyCallSteps, Outcomes
  <2>2. calls[c].allow
    BY <2>1 DEF ServeCheck
  <2>3. calls[c].allow \in BOOLEAN
    BY <1>1 DEF Inv, CallsSound
  <2>4. calls[c].allow = TRUE
    BY Zenon, <2>2, <2>3
  <2>5. CallSound(calls[c])
    BY <1>1 DEF Inv, CallsSound
  <2> QED BY <2>4, <2>5 DEF CallSound, IsPast
<1> QED BY InitSound, Inductive, <1>1, PTL DEF Spec, PastIsConfirmed

\* Storing an edit sets no field back to what its form was opened with, other
\* than a title submitted in blanks (TaskForm.tsx:116, buildEdit).
THEOREM SavesRevertNothing == Spec => NeverReverts
<1> DEFINE Kept ==
      \A c \in 1 .. sent :
        calls[c].kind = "edit" /\ calls[c].st = "checked" /\ calls'[c].st = "ok" =>
          \A f \in EditFields :
            /\ task'[f] # task[f]
            /\ f = "title" => calls[c].form \notin padded
            => task'[f] # calls[c].base[f]
<1>1. ASSUME Inv, [Next]_vars PROVE [Kept]_vars
  <2> SUFFICES ASSUME NEW c \in 1 .. sent,
                      calls[c].kind = "edit", calls[c].st = "checked", calls'[c].st = "ok",
                      NEW f \in EditFields, task'[f] # task[f],
                      f = "title" => calls[c].form \notin padded
               PROVE  task'[f] # calls[c].base[f]
    OBVIOUS
  <2>1. ServeWrite(c)
    BY <1>1, OnlyCallSteps, Outcomes
  <2>2. FromItsForm(calls[c])
    BY <1>1 DEF Inv, CallsSound, CallSound
  <2>3. /\ f \in DOMAIN task
        /\ task' = [g \in DOMAIN task |->
                      IF g \in DOMAIN calls[c].body THEN calls[c].body[g] ELSE task[g]]
    BY <1>1, <2>1 DEF ServeWrite, Inv, TaskSound
  <2>4. f \in DOMAIN calls[c].body /\ task'[f] = calls[c].body[f]
    BY <2>3
  <2> QED BY <2>2, <2>4 DEF FromItsForm, NotBack
<1> QED BY InitSound, Inductive, <1>1, PTL DEF Spec, NeverReverts

-----------------------------------------------------------------------------
(* The types, and one task per form *)

\* What the server would store is of the task's types.
BodyOK(body) ==
  /\ "title" \in DOMAIN body => body.title \in Titles
  /\ "deadline" \in DOMAIN body => body.deadline \in Deadlines
  /\ "assignee" \in DOMAIN body => body.assignee \in People
  /\ "progress" \in DOMAIN body => body.progress \in {"todo", "done"}

BodiesOK ==
  /\ confirm # NoBody => BodyOK(confirm)
  /\ \A c \in 1 .. sent : calls[c].st \in {"sent", "checked", "past"} => BodyOK(calls[c].body)

\* A form is mounted over its own screen.
Mounted ==
  form # NoForm => \/ form.mode = "create" /\ screen = "create"
                   \/ form.mode = "edit" /\ screen = "detail"

\* A call that was, or may yet be, a success the page hears of.
Counts(call) ==
  call.lost = FALSE /\ (call.stored = TRUE \/ call.st \in {"sent", "checked"})

\* What is left of a call when it is done, and of a create form's calls as
\* long as the form is mounted: under way they belong to its page, done they
\* have failed.
SlipSound(call) ==
  /\ {"kind", "form", "st", "stored", "lost"} \subseteq DOMAIN call
  /\ call.st # "done" => "page" \in DOMAIN call
  /\ call.form \in 0 .. forms
  /\ {call.stored, call.lost} \subseteq BOOLEAN
  /\ call.st \in {"sent", "checked"} => call.stored = FALSE /\ call.lost = FALSE
  /\ call.st \in {"past", "refused"} => ~Counts(call)
  /\ call.kind = "create" /\ form # NoForm /\ call.form = form.no =>
       IF call.st = "done" THEN ~Counts(call) ELSE call.page = page

SlipsSound == \A c \in 1 .. sent : SlipSound(calls[c])

\* Of the calls of one create form, one counts.
OneCounts ==
  \A c, d \in 1 .. sent :
    /\ calls[c].kind = "create" /\ calls[d].kind = "create" /\ calls[c].form = calls[d].form
    /\ Counts(calls[c]) /\ Counts(calls[d])
    => c = d

\* The parts of the type invariant.
WorldTyped ==
  /\ role \in {"LEADER", "MEMBER"} /\ owner \in People
  /\ task \in Values /\ alive \in BOOLEAN /\ late \in BOOLEAN

QueryTyped ==
  /\ screen \in {"detail", "list", "create"} /\ page \in Nat
  /\ shown \in Values \cup {NoTask, Gone} /\ failed \in BOOLEAN
  /\ fetch \in {Idle, [st |-> "asked"]} \cup [st : {"answered"}, data : Values \cup {Gone}]

FormTyped ==
  /\ FormOK(form) /\ forms \in 0 .. MaxForms
  /\ confirm # NoBody => form # NoForm /\ "deadline" \in DOMAIN confirm
  /\ editOpen \in BOOLEAN /\ deleteOpen \in BOOLEAN

CallsTyped ==
  /\ sent \in 0 .. MaxCalls /\ waits \subseteq 1 .. sent
  /\ \A c \in 1 .. MaxCalls : c > sent <=> calls[c] = NoCall

HistoryTyped ==
  /\ agreed \subseteq (1 .. forms) \X Deadlines
  /\ padded \subseteq 1 .. forms

Typed == WorldTyped /\ QueryTyped /\ FormTyped /\ CallsTyped /\ HistoryTyped

FullInv == Inv /\ Typed /\ BodiesOK /\ Mounted /\ SlipsSound /\ OneCounts

-----------------------------------------------------------------------------
\* The form is left, or kept on its page, or has a new number.
FormMoves ==
  \/ form' = NoForm
  \/ form # NoForm /\ form'.no = form.no /\ page' = page
  \/ form'.no > forms

LEMMA MountedKept ==
  ASSUME Inv, Mounted, [Next]_vars
  PROVE  Mounted'
<1>1. FormSound
  BY DEF Inv
<1>2. CASE UNCHANGED <<form, screen>>
  BY <1>2 DEF Mounted
<1>3. CASE form' = NoForm
  BY <1>3 DEF Mounted
<1>4. CASE OpenEdit
  BY <1>4 DEF OpenEdit, OnPage, EditForm, OpenForm, Mounted
<1>5. CASE \E f \in {"title", "deadline", "assignee"}, v \in Titles \cup Deadlines \cup People : Type(f, v)
  <2> PICK f \in {"title", "deadline", "assignee"}, v \in Titles \cup Deadlines \cup People : Type(f, v)
    BY <1>5
  <2>1. form # NoForm /\ screen' = screen /\ form' = [form EXCEPT !.value[f] = v, !.pad = @ /\ f # "title"]
    BY DEF Type, InForm
  <2>2. form'.mode = form.mode
    BY <1>1, <2>1 DEF FormSound
  <2> QED BY <2>1, <2>2 DEF Mounted
<1>11. CASE TypeBlanks
  <2>1. form # NoForm /\ screen' = screen /\ form' = [form EXCEPT !.pad = TRUE]
    BY <1>11 DEF TypeBlanks, InForm
  <2>2. form'.mode = form.mode
    BY <1>1, <2>1 DEF FormSound
  <2> QED BY <2>1, <2>2 DEF Mounted
<1>12. ASSUME NEW data, NEW error, Render(data, error) PROVE Mounted'
  BY <1>2, <1>3, <1>12 DEF Render, EditForm, OpenForm, Mounted
<1>6. CASE \E s \in {"detail", "list", "create"} : Navigate(s)
  BY <1>6 DEF Navigate, GoTo, OpenForm, Mounted
<1>7. CASE DeliverFetch \/ FailFetch \/ CloseEdit \/ OpenDelete \/ CloseDelete \/ CancelPastDeadline
  BY <1>2, <1>3, <1>7, <1>12
     DEF DeliverFetch, FailFetch, CloseEdit, OpenDelete, CloseDelete, CancelPastDeadline
<1>8. CASE \/ Submit \/ ConfirmPastDeadline \/ HandleDelete
           \/ \E v \in {"todo", "done"} : HandleProgress(v)
           \/ \E u \in People : HandleReassign(u)
  BY <1>2, <1>8 DEF Submit, ConfirmPastDeadline, HandleDelete, HandleProgress, HandleReassign, dialogs
<1>9. CASE Tick \/ Elsewhere \/ ServeFetch \/ vars' = vars
  BY <1>2, <1>9 DEF Tick, Elsewhere, ServeFetch, vars, dialogs
<1>10. ASSUME NEW c \in 1 .. sent, CallStep(c) PROVE Mounted'
  <2>1. CASE Settle(c)
    BY <1>2, <1>3, <2>1 DEF Settle, GoTo, dialogs
  <2>2. CASE ~Settle(c)
    BY <1>2, <1>10, <2>2
       DEF CallStep, ServePast, ServeCheck, ServeWrite, ServeRefuse, Lose, DeliverOk, DeliverPast,
           DeliverRefused, dialogs
  <2> QED BY <2>1, <2>2
<1> QED BY <1>4, <1>5, <1>6, <1>7, <1>8, <1>9, <1>10, <1>11 DEF Next, Controls

LEMMA SlipsOutliveForms ==
  ASSUME FormSound, SlipsSound, OneCounts, CallsStand, FormMoves,
         forms' \in Nat, forms' >= forms
  PROVE  SlipsSound' /\ OneCounts'
<1>1. ASSUME NEW c \in 1 .. sent
      PROVE  /\ SlipSound(calls[c])'
             /\ Counts(calls'[c]) <=> Counts(calls[c])
             /\ calls'[c].kind = calls[c].kind /\ calls'[c].form = calls[c].form
  <2>1. SlipSound(calls[c]) /\ Same(calls[c], calls'[c])
    BY DEF SlipsSound, CallsStand
  <2>2. /\ DOMAIN calls'[c] = DOMAIN calls[c]
        /\ calls'[c].kind = calls[c].kind /\ calls'[c].form = calls[c].form
        /\ calls'[c].st = calls[c].st /\ calls'[c].stored = calls[c].stored
        /\ calls'[c].lost = calls[c].lost
        /\ calls[c].kind = "create" => calls'[c] = calls[c]
    BY <2>1 DEF SlipSound, Same
  <2>3. calls[c].form \in 0 .. forms /\ forms \in Nat
    BY <2>1 DEF SlipSound, FormSound
  <2>4. ASSUME form' # NoForm, calls[c].form = form'.no
        PROVE  form # NoForm /\ calls[c].form = form.no /\ page' = page
    BY <2>3, <2>4 DEF FormMoves
  <2>5. Counts(calls'[c]) <=> Counts(calls[c])
    BY <2>2 DEF Counts
  <2>6. SlipSound(calls[c])'
    <3>1. /\ {"kind", "form", "st", "stored", "lost"} \subseteq DOMAIN calls'[c]
          /\ calls'[c].st # "done" => "page" \in DOMAIN calls'[c]
          /\ calls'[c].form \in 0 .. forms'
          /\ {calls'[c].stored, calls'[c].lost} \subseteq BOOLEAN
          /\ calls'[c].st \in {"sent", "checked"} => calls'[c].stored = FALSE /\ calls'[c].lost = FALSE
      BY <2>1, <2>2, <2>3 DEF SlipSound
    <3>2. calls'[c].st \in {"past", "refused"} => ~Counts(calls'[c])
      BY <2>1, <2>2, <2>5 DEF SlipSound
    <3>3. calls'[c].kind = "create" /\ form' # NoForm /\ calls'[c].form = form'.no =>
            IF calls'[c].st = "done" THEN ~Counts(calls'[c]) ELSE calls'[c].page = page'
      BY <2>1, <2>2, <2>4, <2>5 DEF SlipSound
    <3> QED BY <3>1, <3>2, <3>3 DEF SlipSound, Counts
  <2> QED BY <2>2, <2>5, <2>6
<1>2. sent' = sent
  BY DEF CallsStand
<1>3. OneCounts'
  <2> SUFFICES ASSUME NEW d \in 1 .. sent, NEW e \in 1 .. sent,
                      calls'[d].kind = "create", calls'[e].kind = "create", calls'[d].form = calls'[e].form,
                      Counts(calls'[d]), Counts(calls'[e])
               PROVE  d = e
    BY <1>2 DEF OneCounts, Counts
  <2> QED BY <1>1 DEF OneCounts
<1> QED BY <1>1, <1>2, <1>3 DEF SlipsSound

LEMMA SlipsSent ==
  ASSUME Inv, SlipsSound, OneCounts, UNCHANGED <<form, forms, page>>,
         NEW kind, NEW body, NEW allow, Send(kind, body, allow),
         kind = "create" => form # NoForm /\ ~Pending("create")
  PROVE  SlipsSound' /\ OneCounts'
<1> DEFINE new == [kind |-> kind, form |-> form.no,
                   base |-> IF form = NoForm THEN <<>> ELSE form.base,
                   page |-> page, body |-> body, allow |-> allow, st |-> "sent",
                   stored |-> FALSE, lost |-> FALSE]
<1>1. /\ sent \in Nat /\ sent' = sent + 1
      /\ calls'[sent + 1] = new
      /\ \A c \in 1 .. sent : calls'[c] = calls[c]
  <2>1. MaxCalls \in Nat
    BY FormsAssumption
  <2>2. sent \in Nat /\ DOMAIN calls = 1 .. MaxCalls
    BY <2>1 DEF Inv, CallsSound
  <2>3. sent < MaxCalls /\ sent' = sent + 1 /\ calls' = [calls EXCEPT ![sent + 1] = new]
    BY Zenon DEF Send
  <2> QED BY <2>1, <2>2, <2>3
<1>2. form.no \in 0 .. forms
  BY DEF Inv, FormSound, NoForm
<1>3. SlipSound(new)
  BY <1>2 DEF SlipSound, Counts
<1> HIDE DEF new
<1>4. new.kind = kind /\ new.form = form.no
  BY DEF new
<1>5. ASSUME NEW c \in 1 .. sent', NEW call, SlipSound(call), calls'[c] = call PROVE SlipSound(calls[c])'
  BY <1>5 DEF SlipSound, Counts
<1>6. SlipsSound'
  <2>1. ASSUME NEW c \in 1 .. sent' PROVE SlipSound(calls[c])'
    <3>1. CASE c = sent + 1
      BY <1>1, <1>3, <1>5, <3>1
    <3>2. CASE c \in 1 .. sent
      BY <1>1, <1>5, <3>2 DEF SlipsSound
    <3> QED BY <1>1, <3>1, <3>2
  <2> QED BY <2>1 DEF SlipsSound
<1>7. ASSUME kind = "create", NEW c \in 1 .. sent, calls[c].kind = "create", calls[c].form = form.no
      PROVE  ~Counts(calls[c])
  <2>1. form # NoForm /\ SlipSound(calls[c])
    BY <1>7 DEF SlipsSound
  <2>2. calls[c].st # "done" => calls[c].page = page
    BY <1>7, <2>1 DEF SlipSound
  <2>3. calls[c].st = "done"
    BY <1>7, <2>2 DEF Pending
  <2> QED BY <1>7, <2>1, <2>3 DEF SlipSound
<1>8. OneCounts'
  <2> SUFFICES ASSUME NEW c \in 1 .. sent', NEW d \in 1 .. sent',
                      calls'[c].kind = "create", calls'[d].kind = "create", calls'[c].form = calls'[d].form,
                      Counts(calls'[c]), Counts(calls'[d])
               PROVE  c = d
    BY DEF OneCounts, Counts
  <2>1. CASE c \in 1 .. sent /\ d \in 1 .. sent
    BY <1>1, <2>1 DEF OneCounts
  <2>2. CASE c = sent + 1 /\ d \in 1 .. sent
    BY <1>1, <1>4, <1>7, <2>2
  <2>3. CASE c \in 1 .. sent /\ d = sent + 1
    BY <1>1, <1>4, <1>7, <2>3
  <2> QED BY <1>1, <2>1, <2>2, <2>3
<1> QED BY <1>6, <1>8

\* What happens to one call makes none count that did not.
LEMMA SlipPasses ==
  ASSUME SlipsSound, OneCounts, UNCHANGED <<sent, forms>>,
         NEW c \in 1 .. sent,
         \A d \in 1 .. sent : d # c => calls'[d] = calls[d],
         calls'[c].kind = calls[c].kind, calls'[c].form = calls[c].form,
         Counts(calls'[c]) => Counts(calls[c]),
         SlipSound(calls[c])',
         form' = NoForm \/ UNCHANGED <<form, page>>
  PROVE  SlipsSound' /\ OneCounts'
<1>1. ASSUME NEW d \in 1 .. sent, d # c PROVE SlipSound(calls[d])'
  BY <1>1 DEF SlipsSound, SlipSound, Counts
<1>2. SlipsSound'
  BY <1>1 DEF SlipsSound
<1>3. OneCounts'
  <2> SUFFICES ASSUME NEW d \in 1 .. sent, NEW e \in 1 .. sent,
                      calls'[d].kind = "create", calls'[e].kind = "create", calls'[d].form = calls'[e].form,
                      Counts(calls'[d]), Counts(calls'[e])
               PROVE  d = e
    BY DEF OneCounts, Counts
  <2> QED BY DEF OneCounts
<1> QED BY <1>2, <1>3

LEMMA SlipsCallStep ==
  ASSUME Inv, Mounted, SlipsSound, OneCounts, NEW c \in 1 .. sent, CallStep(c)
  PROVE  SlipsSound' /\ OneCounts'
<1> DEFINE call == calls[c]
           next == calls'[c]
<1>1. 1 .. sent \subseteq DOMAIN calls
  BY CallIndex
<1>2. SlipSound(calls[c])
  BY DEF SlipsSound
<1>3. /\ UNCHANGED <<sent, forms>>
      /\ \A d \in 1 .. sent : d # c => calls'[d] = calls[d]
  <2>1. CASE ServePast(c) \/ ServeCheck(c) \/ ServeWrite(c) \/ ServeRefuse(c)
    BY <1>1, <2>1 DEF ServePast, ServeCheck, ServeWrite, ServeRefuse, dialogs
  <2>2. CASE Lose(c) \/ DeliverOk(c)
    BY <1>1, <2>2 DEF Lose, DeliverOk, dialogs
  <2>3. CASE Settle(c) \/ DeliverPast(c) \/ DeliverRefused(c)
    BY <1>1, <2>3 DEF Settle, DeliverPast, DeliverRefused, Finish, GoTo, dialogs
  <2> QED BY <2>1, <2>2, <2>3 DEF CallStep
<1>4. CASE ServePast(c) \/ ServeCheck(c)
  <2>1. calls[c].st = "sent" /\ UNCHANGED <<form, page>>
    BY <1>4 DEF ServePast, ServeCheck, dialogs
  <2>2. PICK st \in {"past", "checked"} : calls' = [calls EXCEPT ![c].st = st]
    BY <1>4 DEF ServePast, ServeCheck
  <2>3. /\ DOMAIN next = DOMAIN call /\ next.st = st /\ next.stored = FALSE
        /\ next.kind = call.kind /\ next.form = call.form /\ next.lost = call.lost
        /\ "page" \in DOMAIN call => next.page = call.page
    BY <1>1, <1>2, <2>1, <2>2 DEF SlipSound
  <2>4. Counts(call) /\ (st = "past" => ~Counts(next))
    BY <1>2, <2>1, <2>3 DEF SlipSound, Counts
  <2>5. SlipSound(calls[c])'
    BY <1>2, <1>3, <2>1, <2>3, <2>4 DEF SlipSound, Counts
  <2> QED BY <1>3, <2>1, <2>3, <2>4, <2>5, SlipPasses
<1>5. CASE ServeWrite(c)
  <2>1. calls[c].st = "checked" /\ UNCHANGED <<form, page>>
    BY <1>5 DEF ServeWrite, dialogs
  <2>2. next = [kind |-> call.kind, form |-> call.form, page |-> call.page, st |-> "ok", stored |-> TRUE, lost |-> FALSE]
    BY <1>1, <1>5 DEF ServeWrite, Ended
  <2>3. /\ DOMAIN next = {"kind", "form", "page", "st", "stored", "lost"}
        /\ next.st = "ok" /\ next.stored = TRUE /\ next.lost = FALSE
        /\ next.kind = call.kind /\ next.form = call.form /\ next.page = call.page
    BY <2>2
  <2>4. SlipSound(calls[c])' /\ Counts(call)
    BY <1>2, <1>3, <2>1, <2>3 DEF SlipSound, Counts
  <2> QED BY <1>3, <2>1, <2>3, <2>4, SlipPasses
<1>6. CASE ServeRefuse(c) \/ Lose(c)
  <2>1. calls[c].st # "done" /\ UNCHANGED <<form, page>>
    BY <1>6 DEF ServeRefuse, Lose, dialogs
  <2>2. PICK stored \in BOOLEAN, lost \in BOOLEAN :
          /\ next = [kind |-> call.kind, form |-> call.form, page |-> call.page, st |-> "refused",
                     stored |-> stored, lost |-> lost]
          /\ stored = FALSE \/ lost = TRUE
    <3>1. CASE ServeRefuse(c)
      BY <1>1, <3>1 DEF ServeRefuse, Ended
    <3>2. CASE Lose(c)
      BY <1>1, <1>2, <3>2 DEF Lose, Ended, SlipSound
    <3> QED BY <1>6, <3>1, <3>2
  <2>3. /\ DOMAIN next = {"kind", "form", "page", "st", "stored", "lost"}
        /\ next.st = "refused" /\ next.stored = stored /\ next.lost = lost
        /\ next.kind = call.kind /\ next.form = call.form /\ next.page = call.page
    BY <2>2
  <2>4. ~Counts(next)
    BY <2>2, <2>3 DEF Counts
  <2>5. SlipSound(calls[c])'
    BY <1>2, <1>3, <2>1, <2>2, <2>3, <2>4 DEF SlipSound, Counts
  <2> QED BY <1>3, <2>1, <2>3, <2>4, <2>5, SlipPasses
<1>7. CASE DeliverOk(c)
  <2>1. calls[c].st = "ok" /\ UNCHANGED <<form, page>>
    BY <1>7 DEF DeliverOk, dialogs
  <2>2. calls' = [calls EXCEPT ![c].st = "settling"]
    BY <1>7 DEF DeliverOk
  <2>3. /\ DOMAIN next = DOMAIN call /\ next.st = "settling" /\ next.stored = call.stored
        /\ next.kind = call.kind /\ next.form = call.form /\ next.lost = call.lost
        /\ "page" \in DOMAIN call => next.page = call.page
    BY <1>1, <1>2, <2>2 DEF SlipSound
  <2>4. SlipSound(calls[c])' /\ (Counts(next) => Counts(call))
    BY <1>2, <1>3, <2>1, <2>3 DEF SlipSound, Counts
  <2> QED BY <1>3, <2>1, <2>3, <2>4, SlipPasses
<1>8. CASE Settle(c) \/ DeliverPast(c) \/ DeliverRefused(c)
  <2>1. Finish(c) /\ calls[c].st \in {"settling", "past", "refused"}
    BY <1>8 DEF Settle, DeliverPast, DeliverRefused
  <2>2. /\ next = [kind |-> call.kind, form |-> call.form, st |-> "done", stored |-> call.stored, lost |-> call.lost]
    BY <1>1, <2>1 DEF Finish
  <2>3. /\ DOMAIN next = {"kind", "form", "st", "stored", "lost"}
        /\ next.st = "done" /\ next.stored = call.stored
        /\ next.kind = call.kind /\ next.form = call.form /\ next.lost = call.lost
    BY <2>2
  <2>4. Counts(next) => Counts(call)
    BY <2>3 DEF Counts
  <2>5. form' = NoForm \/ UNCHANGED <<form, page>>
    BY <1>8 DEF Settle, DeliverPast, DeliverRefused, GoTo, dialogs
  \* The page that hears of its success leaves the form.
  <2>6. calls[c].kind = "create" /\ form' # NoForm /\ calls[c].form = form'.no => ~Counts(next)
    <3> SUFFICES ASSUME calls[c].kind = "create", form' # NoForm, calls[c].form = form'.no, calls[c].st = "settling"
                 PROVE  FALSE
      BY <1>2, <2>1, <2>4 DEF SlipSound
    <3>1. Settle(c)
      BY <1>8 DEF DeliverPast, DeliverRefused
    <3>2. screen = "list" /\ form' = form /\ form # NoForm
      BY <3>1 DEF Settle, GoTo, dialogs
    <3> QED BY <3>2 DEF Mounted
  <2>7. SlipSound(calls[c])'
    BY <1>2, <1>3, <2>3, <2>6 DEF SlipSound, Counts
  <2> QED BY <1>3, <2>3, <2>4, <2>5, <2>7, SlipPasses
<1> QED BY <1>4, <1>5, <1>6, <1>7, <1>8 DEF CallStep

LEMMA SlipsKept ==
  ASSUME Inv, Mounted, SlipsSound, OneCounts, [Next]_vars
  PROVE  SlipsSound' /\ OneCounts'
<1>1. FormSound
  BY DEF Inv
<1>2. CASE Tick \/ Elsewhere \/ ServeFetch \/ vars' = vars
  <2>1. UNCHANGED <<calls, sent, form, forms, page>>
    BY <1>2 DEF Tick, Elsewhere, ServeFetch, vars, dialogs
  <2>2. FormMoves
    BY <2>1 DEF FormMoves
  <2> QED BY <1>1, <2>1, <2>2, SameCalls, SlipsOutliveForms DEF FormSound
<1>7. ASSUME NEW data, NEW error, Render(data, error) PROVE SlipsSound' /\ OneCounts'
  <2>1. CallsStand /\ page' = page
    BY <1>7, RenderStands DEF Render
  <2>2. /\ forms' \in {forms, forms + 1}
        /\ form' = NoForm \/ form' = form \/ form' = EditForm(data, forms + 1)
    BY <1>7 DEF Render
  <2>3. FormMoves /\ forms' \in Nat /\ forms' >= forms
    BY <1>1, <2>1, <2>2 DEF FormMoves, FormSound, EditForm, OpenForm
  <2> QED BY <1>1, <2>1, <2>3, SlipsOutliveForms
<1>3. CASE \/ OpenEdit \/ CloseEdit \/ OpenDelete \/ CloseDelete \/ CancelPastDeadline
           \/ \E s \in {"detail", "list", "create"} : Navigate(s)
  <2>1. /\ UNCHANGED <<calls, sent>> /\ forms' \in {forms, forms + 1}
        /\ FormMoves \/ UNCHANGED <<form, page>>
    BY <1>1, <1>3
       DEF OpenEdit, CloseEdit, OpenDelete, CloseDelete, CancelPastDeadline, Navigate, GoTo,
           EditForm, OpenForm, FormMoves, FormSound
  <2>2. FormMoves /\ forms' \in Nat /\ forms' >= forms
    BY <1>1, <2>1 DEF FormMoves, FormSound
  <2> QED BY <1>1, <2>1, <2>2, SameCalls, SlipsOutliveForms
<1>4. CASE \E f \in {"title", "deadline", "assignee"}, v \in Titles \cup Deadlines \cup People : Type(f, v)
  <2> PICK f \in {"title", "deadline", "assignee"}, v \in Titles \cup Deadlines \cup People : Type(f, v)
    BY <1>4
  <2>1. /\ form # NoForm /\ form' = [form EXCEPT !.value[f] = v, !.pad = @ /\ f # "title"]
        /\ UNCHANGED <<calls, sent, forms, page>>
    BY DEF Type, InForm
  <2>2. FormMoves
    BY <1>1, <2>1 DEF FormSound, FormMoves
  <2> QED BY <1>1, <2>1, <2>2, SameCalls, SlipsOutliveForms DEF FormSound
<1>8. CASE TypeBlanks
  <2>1. /\ form # NoForm /\ form' = [form EXCEPT !.pad = TRUE]
        /\ UNCHANGED <<calls, sent, forms, page>>
    BY <1>8 DEF TypeBlanks, InForm
  <2>2. FormMoves
    BY <1>1, <2>1 DEF FormSound, FormMoves
  <2> QED BY <1>1, <2>1, <2>2, SameCalls, SlipsOutliveForms DEF FormSound
<1>5. CASE \/ Submit \/ ConfirmPastDeadline \/ HandleDelete
           \/ \E v \in {"todo", "done"} : HandleProgress(v)
           \/ \E u \in People : HandleReassign(u)
  <2>1. UNCHANGED <<form, forms, page>>
    BY <1>5 DEF Submit, ConfirmPastDeadline, HandleDelete, HandleProgress, HandleReassign, dialogs
  <2>2. CASE Submit \/ ConfirmPastDeadline
    <3>1. PICK body, allow : Send(form.mode, body, allow)
      BY <2>2 DEF Submit, ConfirmPastDeadline
    <3>2. form # NoForm /\ ~Pending(form.mode)
      BY <1>1, <2>2 DEF Submit, ConfirmPastDeadline, InForm, FormSound
    <3> QED BY <2>1, <3>1, <3>2, SlipsSent
  <2>3. CASE HandleDelete
    BY <2>1, <2>3, SlipsSent DEF HandleDelete
  <2>4. ASSUME NEW v, HandleProgress(v) PROVE SlipsSound' /\ OneCounts'
    BY <2>1, <2>4, SlipsSent DEF HandleProgress
  <2>5. ASSUME NEW u, HandleReassign(u) PROVE SlipsSound' /\ OneCounts'
    BY <2>1, <2>5, SlipsSent DEF HandleReassign
  <2> QED BY <1>5, <2>2, <2>3, <2>4, <2>5
<1>6. ASSUME NEW c \in 1 .. sent, CallStep(c) PROVE SlipsSound' /\ OneCounts'
  BY <1>6, SlipsCallStep
<1>9. CASE DeliverFetch \/ FailFetch
  BY <1>7, <1>9 DEF DeliverFetch, FailFetch
<1> QED BY <1>2, <1>3, <1>4, <1>5, <1>6, <1>8, <1>9 DEF Next, Controls

-----------------------------------------------------------------------------
LEMMA Parts == Typed <=> TypeOK
BY DEF Typed, WorldTyped, QueryTyped, FormTyped, CallsTyped, HistoryTyped, TypeOK

LEMMA FullInitSound == Init => FullInv
<1> SUFFICES ASSUME Init PROVE FullInv
    OBVIOUS
<1>1. MaxForms \in Nat \ {0} /\ MaxCalls \in Nat
  BY FormsAssumption
<1>2. WorldTyped /\ QueryTyped
  BY FormsAssumption DEF Init, WorldTyped, QueryTyped, Values, Deadlines
<1>3. CallsTyped /\ HistoryTyped
  BY <1>1 DEF Init, CallsTyped, HistoryTyped
<1>4. BodiesOK /\ SlipsSound /\ OneCounts
  BY DEF Init, BodiesOK, SlipsSound, OneCounts
<1>5. Mounted
  BY DEF Init, Mounted, OpenForm
<1>6. FormTyped
  <2>1. confirm = NoBody /\ editOpen = FALSE /\ deleteOpen = FALSE
    BY DEF Init
  <2>2. CASE form = NoForm /\ forms = 0
    <3>1. FormOK(form) /\ forms \in 0 .. MaxForms
      BY <1>1, <2>2 DEF FormOK
    <3> QED BY <2>1, <3>1 DEF FormTyped
  <2>3. CASE form = OpenForm("create", CreateDefaults, 1) /\ forms = 1 /\ screen = "create"
    <3>1. CreateDefaults \in Drafts
      BY DEF CreateDefaults, Drafts, Deadlines, People
    <3>2. /\ form.no = 1 /\ form.mode = "create" /\ form.pad = FALSE
          /\ form.base \in Drafts /\ form.value \in Drafts
      BY <2>3, <3>1 DEF OpenForm
    <3>5. form.pad \in BOOLEAN
      BY Zenon, <3>2
    <3>3. FormOK(form) /\ forms \in 0 .. MaxForms
      BY <1>1, <2>3, <3>2, <3>5 DEF FormOK
    <3>4. form # NoForm
      BY <2>3 DEF OpenForm, NoForm
    <3> QED BY <2>1, <3>3, <3>4 DEF FormTyped
  <2> QED BY <2>2, <2>3 DEF Init
<1> QED BY <1>2, <1>3, <1>4, <1>5, <1>6, InitSound DEF FullInv, Typed

\* Nobody but the clock, another page or a served write moves the server.
LEMMA ServerMoves ==
  ASSUME [Next]_vars
  PROVE  /\ UNCHANGED session
         /\ Tick \/ Elsewhere \/ (\E c \in 1 .. sent : ServeWrite(c)) \/ UNCHANGED server
<1>1. CASE Tick \/ Elsewhere \/ ServeFetch \/ DeliverFetch \/ FailFetch \/ vars' = vars
  BY <1>1 DEF Tick, Elsewhere, ServeFetch, DeliverFetch, FailFetch, Render, vars
<1>2. CASE \E s \in {"detail", "list", "create"} : Navigate(s)
  BY <1>2 DEF Navigate
<1>3. CASE Controls
  BY <1>3 DEF Controls, OpenEdit, CloseEdit, Type, TypeBlanks, OpenDelete, CloseDelete, Submit,
              ConfirmPastDeadline,
              CancelPastDeadline, HandleDelete, HandleProgress, HandleReassign
<1>4. CASE \E c \in 1 .. sent : CallStep(c)
  BY <1>4 DEF CallStep, ServePast, ServeCheck, ServeWrite, ServeRefuse, Lose, DeliverOk, Settle,
              DeliverPast, DeliverRefused
<1> QED BY <1>1, <1>2, <1>3, <1>4 DEF Next

LEMMA WorldKept ==
  ASSUME BodiesOK, WorldTyped, [Next]_vars
  PROVE  WorldTyped'
<1>1. UNCHANGED <<role, owner>>
  BY ServerMoves DEF session
<1>2. CASE Tick \/ UNCHANGED server
  BY <1>1, <1>2 DEF Tick, WorldTyped, server
<1>3. CASE Elsewhere
  <2>1. alive' \in BOOLEAN /\ late' = late
    BY <1>3 DEF Elsewhere, WorldTyped
  <2>2. task' \in Values
    BY <1>3 DEF Elsewhere, WorldTyped, Values
  <2> QED BY <1>1, <2>1, <2>2 DEF WorldTyped
<1>4. CASE \E c \in 1 .. sent : ServeWrite(c)
  <2> PICK c \in 1 .. sent : ServeWrite(c)
    BY <1>4
  <2>1. late' = late
    BY DEF ServeWrite
  <2>2. alive' \in BOOLEAN
    BY Zenon DEF ServeWrite
  <2>3. BodyOK(calls[c].body)
    BY DEF ServeWrite, BodiesOK
  <2>4. CASE task' = task
    BY <1>1, <2>1, <2>2, <2>4 DEF WorldTyped
  <2>5. CASE task' = [f \in DOMAIN task |-> IF f \in DOMAIN calls[c].body THEN calls[c].body[f] ELSE task[f]]
    <3>1. DOMAIN task = {"title", "deadline", "assignee", "progress"}
      BY DEF WorldTyped, Values
    <3>2. task' \in Values
      BY <2>3, <2>5, <3>1 DEF BodyOK, WorldTyped, Values
    <3> QED BY <1>1, <2>1, <2>2, <3>2 DEF WorldTyped
  <2> QED BY <2>4, <2>5 DEF ServeWrite
<1> QED BY <1>2, <1>3, <1>4, ServerMoves

LEMMA ProperValues ==
  /\ \A v \in Values : v \notin {NoTask, Gone}
  /\ NoTask # Gone
<1>1. ASSUME NEW v \in Values PROVE v \notin {NoTask, Gone}
  <2>1. DOMAIN v = {"title", "deadline", "assignee", "progress"}
    BY DEF Values
  <2>2. DOMAIN NoTask = {"none"} /\ DOMAIN Gone = {"gone"}
    BY DEF NoTask, Gone
  <2> QED BY <2>1, <2>2
<1>2. DOMAIN NoTask = {"none"} /\ DOMAIN Gone = {"gone"}
  BY DEF NoTask, Gone
<1> QED BY <1>1, <1>2

LEMMA QueryKept ==
  ASSUME WorldTyped, QueryTyped, [Next]_vars
  PROVE  QueryTyped'
<1>1. CASE UNCHANGED <<screen, page, query>>
  BY <1>1 DEF QueryTyped, query
<1>2. CASE ServeFetch
  <2>1. fetch' \in [st : {"answered"}, data : Values \cup {Gone}]
    BY <1>2 DEF ServeFetch, WorldTyped
  <2> QED BY <1>2, <2>1 DEF ServeFetch, QueryTyped
<1>3. CASE DeliverFetch \/ FailFetch
  <2>1. fetch.st = "answered" => fetch.data \in Values \cup {Gone}
    BY <1>3 DEF QueryTyped, Idle
  <2>2. /\ UNCHANGED <<screen, page>> /\ fetch' = Idle
        /\ shown' \in Values \cup {NoTask, Gone} /\ failed' \in BOOLEAN
    BY <1>3, <2>1 DEF DeliverFetch, FailFetch, Render, QueryTyped
  <2> QED BY <2>2 DEF QueryTyped
<1>4. ASSUME NEW s \in {"detail", "list", "create"}, GoTo(s) PROVE QueryTyped'
  BY <1>4 DEF GoTo, QueryTyped
<1>5. ASSUME NEW c, DeliverOk(c) PROVE QueryTyped'
  BY <1>5 DEF DeliverOk, QueryTyped
<1>6. CASE Tick \/ Elsewhere \/ vars' = vars
  BY <1>1, <1>6 DEF Tick, Elsewhere, vars
<1>7. CASE Controls
  BY <1>1, <1>7 DEF Controls, OpenEdit, CloseEdit, Type, TypeBlanks, OpenDelete, CloseDelete, Submit,
                    ConfirmPastDeadline,
              CancelPastDeadline, HandleDelete, HandleProgress, HandleReassign
<1>8. ASSUME NEW c \in 1 .. sent, CallStep(c) PROVE QueryTyped'
  <2>1. CASE Settle(c)
    BY <1>1, <1>4, <2>1 DEF Settle
  <2>2. CASE ~Settle(c) /\ ~DeliverOk(c)
    BY <1>1, <1>8, <2>2 DEF CallStep, ServePast, ServeCheck, ServeWrite, ServeRefuse, Lose, DeliverPast,
                            DeliverRefused
  <2> QED BY <1>5, <2>1, <2>2
<1>9. ASSUME NEW s \in {"detail", "list", "create"}, Navigate(s) PROVE QueryTyped'
  BY <1>4, <1>9 DEF Navigate
<1> QED BY <1>2, <1>3, <1>6, <1>7, <1>8, <1>9 DEF Next

LEMMA CallsKept ==
  ASSUME Inv, CallsTyped, SlipsSound', [Next]_vars
  PROVE  CallsTyped'
<1>1. MaxCalls \in Nat /\ sent \in Nat /\ DOMAIN calls = 1 .. MaxCalls
  <2>1. MaxCalls \in Nat
    BY FormsAssumption
  <2> QED BY <2>1 DEF Inv, CallsSound
<1>2. \A c \in 1 .. sent' : calls'[c] # NoCall
  <2>1. ASSUME NEW c \in 1 .. sent' PROVE "kind" \in DOMAIN calls'[c]
    BY DEF SlipsSound, SlipSound
  <2>2. "kind" \notin DOMAIN NoCall
    BY DEF NoCall
  <2> QED BY <2>1, <2>2
<1>3. waits' \subseteq 1 .. sent /\ (sent' = sent \/ waits' = waits)
  <2>1. CASE Tick \/ Elsewhere \/ ServeFetch \/ DeliverFetch \/ FailFetch \/ vars' = vars
    BY <2>1 DEF Tick, Elsewhere, ServeFetch, DeliverFetch, FailFetch, Render, vars, CallsTyped
  <2>2. CASE \E s \in {"detail", "list", "create"} : Navigate(s)
    BY <2>2 DEF Navigate, CallsTyped
  <2>3. CASE Controls
    BY <2>3 DEF Controls, OpenEdit, CloseEdit, Type, TypeBlanks, OpenDelete, CloseDelete, Submit,
                ConfirmPastDeadline,
              CancelPastDeadline, HandleDelete, HandleProgress, HandleReassign, CallsTyped
  <2>4. CASE \E c \in 1 .. sent : CallStep(c)
    BY <2>4 DEF CallStep, ServePast, ServeCheck, ServeWrite, ServeRefuse, Lose, DeliverOk, Settle,
                DeliverPast,
                DeliverRefused, CallsTyped
  <2> QED BY <2>1, <2>2, <2>3, <2>4 DEF Next
<1>4. /\ sent' \in {sent, sent + 1} /\ sent' <= MaxCalls
      /\ \A c \in 1 .. MaxCalls : c > sent' => calls'[c] = calls[c]
  <2>1. sent <= MaxCalls
    BY DEF CallsTyped
  <2>2. CASE UNCHANGED <<calls, sent>>
    BY <1>1, <2>1, <2>2
  <2>3. ASSUME NEW kind, NEW body, NEW allow, Send(kind, body, allow) PROVE <1>4!1 /\ <1>4!2
    <3>1. sent < MaxCalls /\ sent' = sent + 1
      BY <2>3 DEF Send
    <3>2. \E new : calls' = [calls EXCEPT ![sent + 1] = new]
      BY <2>3, Zenon DEF Send
    <3> QED BY <1>1, <3>1, <3>2
  <2>4. CASE Controls
    <3>1. CASE Submit \/ ConfirmPastDeadline \/ HandleDelete
      BY <2>3, <3>1 DEF Submit, ConfirmPastDeadline, HandleDelete
    <3>2. CASE (\E v \in {"todo", "done"} : HandleProgress(v)) \/ (\E u \in People : HandleReassign(u))
      BY <2>3, <3>2 DEF HandleProgress, HandleReassign
    <3>3. CASE OpenEdit \/ CloseEdit \/ OpenDelete \/ CloseDelete \/ CancelPastDeadline \/ TypeBlanks
               \/ \E f, v : Type(f, v)
      BY <2>2, <3>3 DEF OpenEdit, CloseEdit, OpenDelete, CloseDelete, CancelPastDeadline, TypeBlanks, Type
    <3> QED BY <2>4, <3>1, <3>2, <3>3 DEF Controls
  <2>5. CASE Tick \/ Elsewhere \/ ServeFetch \/ vars' = vars
    BY <2>2, <2>5 DEF Tick, Elsewhere, ServeFetch, vars
  <2>8. CASE DeliverFetch \/ FailFetch
    <3>1. CallsStand
      BY <2>8, RenderStands DEF DeliverFetch, FailFetch
    <3> QED BY <1>1, <2>1, <3>1 DEF CallsStand
  <2>6. CASE \E s \in {"detail", "list", "create"} : Navigate(s)
    BY <2>2, <2>6 DEF Navigate
  <2>7. ASSUME NEW c \in 1 .. sent, CallStep(c) PROVE <1>4!1 /\ <1>4!2
    <3>1. sent' = sent
      BY <2>7 DEF CallStep, ServePast, ServeCheck, ServeWrite, ServeRefuse, Lose, DeliverOk, Settle,
                  DeliverPast, DeliverRefused
    <3>2. CASE ServePast(c) \/ ServeCheck(c) \/ ServeWrite(c) \/ ServeRefuse(c)
      BY <1>1, <2>1, <3>1, <3>2 DEF ServePast, ServeCheck, ServeWrite, ServeRefuse, Ended
    <3>3. CASE Lose(c) \/ DeliverOk(c) \/ Settle(c) \/ DeliverPast(c) \/ DeliverRefused(c)
      BY <1>1, <2>1, <3>1, <3>3 DEF Lose, DeliverOk, Settle, DeliverPast, DeliverRefused, Finish, Ended
    <3> QED BY <2>7, <3>2, <3>3 DEF CallStep
  <2> QED BY <2>4, <2>5, <2>6, <2>7, <2>8 DEF Next
<1> QED BY <1>1, <1>2, <1>3, <1>4 DEF CallsTyped

\* A form that is mounted anew, or typed into, is well formed.
LEMMA FormKept ==
  ASSUME Inv, FormTyped, QueryTyped, WorldTyped, Mounted, QueryTyped', [Next]_vars
  PROVE  FormOK(form)' /\ forms' \in 0 .. MaxForms /\ forms' >= forms
<1> USE DEF FormOK
<1>1. FormSound /\ forms \in 0 .. MaxForms /\ MaxForms \in Nat /\ FormOK(form)
  BY FormsAssumption DEF Inv, FormTyped
<1>2. CASE UNCHANGED <<form, forms, screen, shown, failed>>
  BY <1>1, <1>2 DEF Data
<1>3. ASSUME form' = NoForm, forms' = forms PROVE FormOK(form)' /\ forms' \in 0 .. MaxForms /\ forms' >= forms
  BY <1>1, <1>3
<1>14. ASSUME NEW data \in Values, form' = EditForm(data, forms + 1), forms' = forms + 1, forms < MaxForms,
              screen' = "detail", Data'
       PROVE  FormOK(form)' /\ forms' \in 0 .. MaxForms /\ forms' >= forms
  <2>1. [f \in EditFields |-> data[f]] \in Edits
    BY <1>14 DEF EditFields, Edits, Values
  <2>2. /\ form'.no = forms + 1 /\ form'.mode = "edit" /\ form'.pad = FALSE
        /\ form'.base \in Edits /\ form'.value \in Edits
    BY <1>14, <2>1 DEF EditForm, OpenForm
  <2>3. form'.pad \in BOOLEAN
    BY Zenon, <2>2
  <2> QED BY <1>1, <1>14, <2>2, <2>3
<1>4. ASSUME NEW data \in Values \cup {NoTask, Gone}, NEW error, Render(data, error)
      PROVE  FormOK(form)' /\ forms' \in 0 .. MaxForms /\ forms' >= forms
  <2> DEFINE there == data \notin {NoTask, Gone} /\ ~error
  <2>1. /\ UNCHANGED screen
        /\ shown' = data /\ failed' = error
        /\ IF screen = "detail" /\ ~there
           THEN form' = NoForm /\ forms' = forms
           ELSE IF screen = "detail" /\ form = NoForm /\ editOpen
           THEN forms < MaxForms /\ form' = EditForm(data, forms + 1) /\ forms' = forms + 1
           ELSE UNCHANGED <<form, forms>>
    BY <1>4 DEF Render
  <2>2. Data' <=> there
    BY <2>1 DEF Data
  <2>3. there => data \in Values
    BY <1>4
  <2> HIDE DEF there
  <2>4. CASE screen = "detail" /\ ~there
    BY <1>3, <2>1, <2>4
  <2>5. CASE screen = "detail" /\ there /\ form = NoForm /\ editOpen
    BY <1>14, <2>1, <2>2, <2>3, <2>5
  <2>6. CASE UNCHANGED <<form, forms>> /\ (screen = "detail" => there)
    BY <1>1, <2>1, <2>2, <2>6
  <2> QED BY <2>1, <2>4, <2>5, <2>6
<1>5. CASE OpenEdit
  <2>1. shown \in Values /\ screen = "detail" /\ Data
    BY <1>5 DEF OpenEdit, OnPage, Data, QueryTyped
  <2>2. /\ form' = EditForm(shown, forms + 1) /\ forms' = forms + 1 /\ forms < MaxForms
        /\ screen' = "detail" /\ Data'
    BY <1>5, <2>1 DEF OpenEdit, query, Data
  <2> QED BY <1>14, <2>1, <2>2
<1>6. ASSUME NEW f, NEW v, Type(f, v),
             \/ f = "title" /\ v \in Titles
             \/ f = "deadline" /\ v \in Deadlines
             \/ f = "assignee" /\ v \in People /\ form.mode = "create"
      PROVE  FormOK(form)' /\ forms' \in 0 .. MaxForms /\ forms' >= forms
  <2>1. /\ form # NoForm /\ UNCHANGED <<forms, screen, shown, failed>>
        /\ form' = [form EXCEPT !.value[f] = v, !.pad = @ /\ f # "title"]
    BY <1>6 DEF Type, InForm, query
  <2>2. /\ form'.no = form.no /\ form'.mode = form.mode /\ form'.base = form.base
        /\ form'.value = [form.value EXCEPT ![f] = v]
        /\ form'.pad = (form.pad /\ f # "title")
    BY <1>1, <2>1 DEF FormSound
  <2>5. form'.pad \in BOOLEAN
    BY Zenon, <2>2
  <2>3. CASE form.mode = "create"
    <3>1. form'.value \in Drafts
      <4>1. form.value \in Drafts
        BY <1>1, <2>1, <2>3
      <4>2. CASE f = "title" /\ v \in Titles
        BY <2>2, <4>1, <4>2 DEF Drafts
      <4>3. CASE f = "deadline" /\ v \in Deadlines
        BY <2>2, <4>1, <4>3 DEF Drafts
      <4>4. CASE f = "assignee" /\ v \in People
        BY <2>2, <4>1, <4>4 DEF Drafts
      <4> QED BY <1>6, <4>2, <4>3, <4>4
    <3> QED BY <1>1, <2>1, <2>2, <2>3, <2>5, <3>1
  <2>4. CASE form.mode = "edit"
    <3>1. form'.value \in Edits
      BY <1>1, <1>6, <2>1, <2>2, <2>4 DEF Edits
    <3> QED BY <1>1, <2>1, <2>2, <2>4, <2>5, <3>1 DEF Data
  <2> QED BY <1>1, <2>1, <2>3, <2>4
<1>15. CASE TypeBlanks
  <2>1. /\ form # NoForm /\ UNCHANGED <<forms, screen, shown, failed>>
        /\ form' = [form EXCEPT !.pad = TRUE]
    BY <1>15 DEF TypeBlanks, InForm, query
  <2>2. /\ form'.no = form.no /\ form'.mode = form.mode /\ form'.base = form.base
        /\ form'.value = form.value /\ form'.pad = TRUE
    BY <1>1, <2>1 DEF FormSound
  <2> QED BY <1>1, <2>1, <2>2 DEF Data
<1>7. ASSUME NEW s, GoTo(s) PROVE FormOK(form)' /\ forms' \in 0 .. MaxForms /\ forms' >= forms
  <2>1. CASE s = "create"
    <3>1. CreateDefaults \in Drafts
      BY DEF CreateDefaults, Drafts, Deadlines, People
    <3>2. /\ form'.no = forms + 1 /\ form'.mode = "create" /\ forms' = forms + 1 /\ forms < MaxForms
          /\ form'.pad = FALSE /\ form'.base \in Drafts /\ form'.value \in Drafts /\ screen' = "create"
      BY <1>7, <2>1, <3>1 DEF GoTo, OpenForm
    <3>3. form'.pad \in BOOLEAN
      BY Zenon, <3>2
    <3> QED BY <1>1, <3>2, <3>3
  <2>2. CASE s # "create"
    BY <1>3, <1>7, <2>2 DEF GoTo
  <2> QED BY <2>1, <2>2
<1>8. CASE CloseEdit \/ OpenDelete \/ CloseDelete \/ CancelPastDeadline
  BY <1>2, <1>3, <1>8 DEF CloseEdit, OpenDelete, CloseDelete, CancelPastDeadline, query
<1>9. CASE \/ Submit \/ ConfirmPastDeadline \/ HandleDelete
           \/ \E v \in {"todo", "done"} : HandleProgress(v)
           \/ \E u \in People : HandleReassign(u)
  BY <1>2, <1>9 DEF Submit, ConfirmPastDeadline, HandleDelete, HandleProgress, HandleReassign, dialogs, query
<1>10. CASE Tick \/ Elsewhere \/ ServeFetch \/ vars' = vars
  BY <1>2, <1>10 DEF Tick, Elsewhere, ServeFetch, vars, dialogs, query
<1>11. ASSUME NEW c \in 1 .. sent, CallStep(c)
       PROVE  FormOK(form)' /\ forms' \in 0 .. MaxForms /\ forms' >= forms
  <2>1. CASE Settle(c)
    BY <1>2, <1>3, <1>7, <2>1 DEF Settle, dialogs, query
  <2>2. CASE ~Settle(c)
    BY <1>2, <1>11, <2>2
       DEF CallStep, ServePast, ServeCheck, ServeWrite, ServeRefuse, Lose, DeliverOk, DeliverPast,
           DeliverRefused, dialogs, query
  <2> QED BY <2>1, <2>2
<1>12. CASE Controls
  BY <1>5, <1>6, <1>8, <1>9, <1>12, <1>15 DEF Controls
<1>16. CASE DeliverFetch \/ FailFetch
  <2>1. fetch.st = "answered" => fetch.data \in Values \cup {Gone}
    BY DEF QueryTyped, Idle
  <2> QED BY <1>4, <1>16, <2>1 DEF DeliverFetch, FailFetch, QueryTyped
<1>13. ASSUME NEW s, Navigate(s) PROVE FormOK(form)' /\ forms' \in 0 .. MaxForms /\ forms' >= forms
  BY <1>7, <1>13 DEF Navigate
<1> QED BY <1>10, <1>11, <1>12, <1>13, <1>16 DEF Next

\* The dialog closes, stays, or opens on the body of a call that was refused.
LEMMA ConfirmMoves ==
  ASSUME [Next]_vars
  PROVE  \/ confirm' \in {confirm, NoBody}
         \/ \E c \in 1 .. sent : calls[c].st = "past" /\ confirm' = calls[c].body
<1>1. CASE Tick \/ Elsewhere \/ ServeFetch \/ DeliverFetch \/ FailFetch \/ vars' = vars
  BY <1>1 DEF Tick, Elsewhere, ServeFetch, DeliverFetch, FailFetch, Render, vars, dialogs
<1>2. CASE \E s \in {"detail", "list", "create"} : Navigate(s)
  BY <1>2 DEF Navigate, GoTo
<1>3. CASE Controls
  BY <1>3 DEF Controls, OpenEdit, CloseEdit, Type, TypeBlanks, OpenDelete, CloseDelete, Submit,
              ConfirmPastDeadline,
              CancelPastDeadline, HandleDelete, HandleProgress, HandleReassign, dialogs
<1>4. ASSUME NEW c \in 1 .. sent, CallStep(c)
      PROVE  confirm' \in {confirm, NoBody} \/ (calls[c].st = "past" /\ confirm' = calls[c].body)
  BY <1>4 DEF CallStep, ServePast, ServeCheck, ServeWrite, ServeRefuse, Lose, DeliverOk, Settle,
              DeliverPast, DeliverRefused,
              GoTo, dialogs
<1> QED BY <1>1, <1>2, <1>3, <1>4 DEF Next

LEMMA DialogsTyped ==
  ASSUME editOpen \in BOOLEAN, deleteOpen \in BOOLEAN, [Next]_vars
  PROVE  editOpen' \in BOOLEAN /\ deleteOpen' \in BOOLEAN
<1>1. CASE Tick \/ Elsewhere \/ ServeFetch \/ DeliverFetch \/ FailFetch \/ vars' = vars
  BY <1>1 DEF Tick, Elsewhere, ServeFetch, DeliverFetch, FailFetch, Render, vars, dialogs
<1>2. CASE \E s \in {"detail", "list", "create"} : Navigate(s)
  BY <1>2 DEF Navigate, GoTo
<1>3. CASE Controls
  BY <1>3 DEF Controls, OpenEdit, CloseEdit, Type, TypeBlanks, OpenDelete, CloseDelete, Submit,
              ConfirmPastDeadline,
              CancelPastDeadline, HandleDelete, HandleProgress, HandleReassign, dialogs
<1>4. ASSUME NEW c \in 1 .. sent, CallStep(c) PROVE editOpen' \in BOOLEAN /\ deleteOpen' \in BOOLEAN
  <2>1. CASE DeliverRefused(c)
    BY <2>1, Zenon DEF DeliverRefused
  <2>2. CASE ~DeliverRefused(c)
    BY <1>4, <2>2 DEF CallStep, ServePast, ServeCheck, ServeWrite, ServeRefuse, Lose, DeliverOk, Settle,
                      DeliverPast,
                      GoTo, dialogs
  <2> QED BY <2>1, <2>2
<1> QED BY <1>1, <1>2, <1>3, <1>4 DEF Next

LEMMA FormTypedKept ==
  ASSUME Inv, Inv', FormTyped, QueryTyped, WorldTyped, Mounted, QueryTyped', [Next]_vars
  PROVE  FormTyped'
<1>1. FormOK(form)' /\ forms' \in 0 .. MaxForms
  BY FormKept
<1>2. confirm' # NoBody => form' # NoForm
  BY DEF Inv, FormSound
<1>3. confirm' # NoBody => "deadline" \in DOMAIN confirm'
  BY ConfirmMoves DEF FormTyped, Inv, CallsSound, CallSound
<1>4. editOpen' \in BOOLEAN /\ deleteOpen' \in BOOLEAN
  BY DialogsTyped DEF FormTyped
<1> QED BY <1>1, <1>2, <1>3, <1>4 DEF FormTyped

\* Agreement comes from a dialog, hence from a form and on a deadline of its.
LEMMA HistoryTypedKept ==
  ASSUME Inv, Inv', FormTyped, QueryTyped, WorldTyped, Mounted, QueryTyped', BodiesOK, HistoryTyped, [Next]_vars
  PROVE  HistoryTyped'
<1>1. forms \in Nat /\ forms' \in Nat /\ forms' >= forms
  BY FormKept DEF Inv, FormSound
<1>2. agreed' = agreed \/ ConfirmPastDeadline
  <2>1. CASE Tick \/ Elsewhere \/ ServeFetch \/ DeliverFetch \/ FailFetch \/ vars' = vars
    BY <2>1 DEF Tick, Elsewhere, ServeFetch, DeliverFetch, FailFetch, Render, vars, history
  <2>2. CASE \E s \in {"detail", "list", "create"} : Navigate(s)
    BY <2>2 DEF Navigate, history
  <2>3. CASE Controls
    BY <2>3 DEF Controls, OpenEdit, CloseEdit, Type, TypeBlanks, OpenDelete, CloseDelete, Submit,
                CancelPastDeadline, HandleDelete, HandleProgress, HandleReassign, history
  <2>4. CASE \E c \in 1 .. sent : CallStep(c)
    BY <2>4 DEF CallStep, ServePast, ServeCheck, ServeWrite, ServeRefuse, Lose, DeliverOk, Settle,
                DeliverPast,
                DeliverRefused, history
  <2> QED BY <2>1, <2>2, <2>3, <2>4 DEF Next
<1>3. agreed' \subseteq (1 .. forms) \X Deadlines
  <2>1. CASE ConfirmPastDeadline
    <3>1. confirm # NoBody /\ agreed' = agreed \cup {<<form.no, confirm.deadline>>}
      BY <2>1 DEF ConfirmPastDeadline
    <3>2. form.no \in 1 .. forms
      BY <3>1 DEF Inv, FormSound
    <3>3. confirm.deadline \in Deadlines
      BY <3>1 DEF FormTyped, BodiesOK, BodyOK
    <3> QED BY <3>1, <3>2, <3>3 DEF HistoryTyped
  <2> QED BY <1>2, <2>1 DEF HistoryTyped
<1>6. padded' \subseteq 1 .. forms
  <2>1. CASE Submit
    <3>1. form.no \in 1 .. forms /\ padded' \in {padded, padded \cup {form.no}}
      BY <2>1 DEF Submit, InForm, Inv, FormSound
    <3> QED BY <3>1 DEF HistoryTyped
  <2>2. CASE padded' = padded
    BY <2>2 DEF HistoryTyped
  <2>3. CASE Controls
    BY <2>1, <2>2, <2>3 DEF Controls, OpenEdit, CloseEdit, Type, TypeBlanks, OpenDelete, CloseDelete,
                ConfirmPastDeadline, CancelPastDeadline, HandleDelete, HandleProgress, HandleReassign, history
  <2>4. CASE Tick \/ Elsewhere \/ ServeFetch \/ DeliverFetch \/ FailFetch \/ vars' = vars
    BY <2>2, <2>4 DEF Tick, Elsewhere, ServeFetch, DeliverFetch, FailFetch, Render, vars, history
  <2>5. CASE \E s \in {"detail", "list", "create"} : Navigate(s)
    BY <2>2, <2>5 DEF Navigate, history
  <2>6. CASE \E c \in 1 .. sent : CallStep(c)
    BY <2>2, <2>6 DEF CallStep, ServePast, ServeCheck, ServeWrite, ServeRefuse, Lose, DeliverOk, Settle,
                DeliverPast, DeliverRefused, history
  <2> QED BY <2>3, <2>4, <2>5, <2>6 DEF Next
<1>4. 1 .. forms \subseteq 1 .. forms'
  BY <1>1
<1>5. agreed' \subseteq (1 .. forms') \X Deadlines /\ padded' \subseteq 1 .. forms'
  BY <1>3, <1>4, <1>6
<1> QED BY <1>5 DEF HistoryTyped

\* What is sent was typed, or is what was sent before.
LEMMA BodiesKept ==
  ASSUME Inv, FormTyped, Mounted, BodiesOK, [Next]_vars
  PROVE  BodiesOK'
<1>1. 1 .. sent \subseteq DOMAIN calls /\ sent \in Nat /\ MaxCalls \in Nat
  <2>1. MaxCalls \in Nat
    BY FormsAssumption
  <2> QED BY <2>1, CallIndex DEF Inv, CallsSound
<1>2. confirm' # NoBody => BodyOK(confirm')
  BY ConfirmMoves DEF BodiesOK
<1>3. ASSUME UNCHANGED <<calls, sent>> PROVE BodiesOK'
  BY <1>2, <1>3 DEF BodiesOK, BodyOK
<1>4. ASSUME NEW kind, NEW body, NEW allow, Send(kind, body, allow), BodyOK(body) PROVE BodiesOK'
  <2> DEFINE new == [kind |-> kind, form |-> form.no,
                     base |-> IF form = NoForm THEN <<>> ELSE form.base,
                     page |-> page, body |-> body, allow |-> allow, st |-> "sent",
                     stored |-> FALSE, lost |-> FALSE]
  <2>1. sent' = sent + 1 /\ calls' = [calls EXCEPT ![sent + 1] = new] /\ new.body = body /\ sent < MaxCalls
    BY <1>4, Zenon DEF Send
  <2> HIDE DEF new
  <2>2. DOMAIN calls = 1 .. MaxCalls
    BY DEF Inv, CallsSound
  <2>3. calls'[sent + 1].body = body /\ \A c \in 1 .. sent : calls'[c] = calls[c]
    BY <1>1, <2>1, <2>2
  <2>4. \A c \in 1 .. sent' : c \in 1 .. sent \/ c = sent + 1
    BY <1>1, <2>1
  <2>5. ASSUME NEW c \in 1 .. sent', calls'[c].st \in {"sent", "checked", "past"} PROVE BodyOK(calls'[c].body)
    BY <1>4, <2>3, <2>4, <2>5 DEF BodiesOK
  <2>6. \A b : BodyOK(b)' <=> BodyOK(b)
    BY DEF BodyOK
  <2> QED BY <1>2, <2>5, <2>6 DEF BodiesOK, BodyOK
<1>5. ASSUME form # NoForm, "" \notin {form.value[f] : f \in DOMAIN form.value} PROVE BodyOK(Body)
  <2>1. CASE form.mode = "create"
    <3>1. form.value \in Drafts /\ Body = form.value
      BY <1>5, <2>1 DEF FormTyped, FormOK, Body, BuildCreate
    <3>2. DOMAIN Body = {"title", "deadline", "assignee"} /\ Body.title # "" /\ Body.assignee # ""
      BY <1>5, <3>1 DEF Drafts
    <3> QED BY <3>1, <3>2 DEF Drafts, BodyOK
  <2>2. CASE form.mode = "edit"
    <3>1. form.value \in Edits /\ Body = BuildEdit
      BY <1>5, <2>2 DEF FormTyped, FormOK, Body
    <3>2. /\ DOMAIN Body \subseteq {"title", "deadline"}
          /\ \A f \in DOMAIN Body : Body[f] = form.value[f]
      BY <3>1 DEF BuildEdit, EditFields
    <3>3. form.value.title \in Titles /\ form.value.deadline \in Deadlines
      BY <3>1 DEF Edits
    <3> QED BY <3>2, <3>3 DEF BodyOK
  <2> QED BY <1>5, <2>1, <2>2 DEF Mounted
<1>6. CASE Controls
  <2>1. CASE Submit
    BY <1>4, <1>5, <2>1 DEF Submit, InForm
  <2>2. CASE ConfirmPastDeadline
    BY <1>4, <2>2 DEF ConfirmPastDeadline, BodiesOK
  <2>3. CASE HandleDelete
    <3>1. BodyOK(<<>>)
      <4>1. DOMAIN <<>> = {}
        OBVIOUS
      <4> QED BY <4>1 DEF BodyOK
    <3> QED BY <1>4, <2>3, <3>1 DEF HandleDelete
  <2>4. ASSUME NEW v \in {"todo", "done"}, HandleProgress(v) PROVE BodiesOK'
    <3>1. BodyOK([progress |-> v])
      BY DEF BodyOK
    <3> QED BY <1>4, <2>4, <3>1 DEF HandleProgress
  <2>5. ASSUME NEW u \in People, HandleReassign(u) PROVE BodiesOK'
    <3>1. BodyOK([assignee |-> u])
      BY DEF BodyOK
    <3> QED BY <1>4, <2>5, <3>1 DEF HandleReassign
  <2>6. CASE OpenEdit \/ CloseEdit \/ OpenDelete \/ CloseDelete \/ CancelPastDeadline \/ TypeBlanks
             \/ \E f, v : Type(f, v)
    BY <1>3, <2>6 DEF OpenEdit, CloseEdit, OpenDelete, CloseDelete, CancelPastDeadline, TypeBlanks, Type
  <2> QED BY <1>6, <2>1, <2>2, <2>3, <2>4, <2>5, <2>6 DEF Controls
<1>7. CASE Tick \/ Elsewhere \/ ServeFetch \/ vars' = vars
  BY <1>3, <1>7 DEF Tick, Elsewhere, ServeFetch, vars
<1>10. ASSUME NEW data, NEW error, Render(data, error) PROVE BodiesOK'
  <2>1. CallsStand
    BY <1>10, RenderStands
  <2>2. ASSUME NEW c \in 1 .. sent', calls'[c].st \in {"sent", "checked", "past"}
        PROVE  BodyOK(calls'[c].body)
    <3>1. c \in 1 .. sent /\ Same(calls[c], calls'[c]) /\ CallSound(calls[c])
      BY <2>1 DEF CallsStand, Inv, CallsSound
    <3>2. calls[c].st = calls'[c].st
      BY <3>1 DEF Same, CallSound
    <3>3. "body" \in DOMAIN calls[c]
      BY <2>2, <3>1, <3>2 DEF CallSound, FromItsForm, Fields
    <3>4. calls'[c].body = calls[c].body
      BY <3>1, <3>3 DEF Same
    <3> QED BY <2>2, <3>1, <3>2, <3>4 DEF BodiesOK
  <2>3. \A b : BodyOK(b)' <=> BodyOK(b)
    BY DEF BodyOK
  <2> QED BY <1>2, <2>2, <2>3 DEF BodiesOK, BodyOK
<1>11. CASE DeliverFetch \/ FailFetch
  BY <1>10, <1>11 DEF DeliverFetch, FailFetch
<1>8. CASE \E s \in {"detail", "list", "create"} : Navigate(s)
  BY <1>3, <1>8 DEF Navigate
<1>9. ASSUME NEW c \in 1 .. sent, CallStep(c) PROVE BodiesOK'
  <2>1. sent' = sent /\ \A d \in 1 .. sent : d # c => calls'[d] = calls[d]
    <3>1. CASE ServePast(c) \/ ServeCheck(c) \/ ServeWrite(c) \/ ServeRefuse(c)
      BY <1>1, <3>1 DEF ServePast, ServeCheck, ServeWrite, ServeRefuse, Ended
    <3>2. CASE Lose(c) \/ DeliverOk(c) \/ Settle(c) \/ DeliverPast(c) \/ DeliverRefused(c)
      BY <1>1, <3>2 DEF Lose, DeliverOk, Settle, DeliverPast, DeliverRefused, Finish
    <3> QED BY <1>9, <3>1, <3>2 DEF CallStep
  <2>2. "st" \in DOMAIN calls[c]
    BY DEF Inv, CallsSound, CallSound
  <2>3. \/ calls'[c].st \notin {"sent", "checked", "past"}
        \/ calls[c].st = "sent" /\ calls'[c].body = calls[c].body
    <3>1. CASE ServePast(c) \/ ServeCheck(c)
      <4>1. calls[c].st = "sent" /\ \E st : calls' = [calls EXCEPT ![c].st = st]
        BY <3>1 DEF ServePast, ServeCheck
      <4>2. "body" \in DOMAIN calls[c]
        BY <4>1 DEF Inv, CallsSound, CallSound, FromItsForm, Fields
      <4> QED BY <1>1, <4>1, <4>2
    <3>2. CASE ServeWrite(c) \/ ServeRefuse(c) \/ Lose(c)
      BY <1>1, <2>2, <3>2 DEF ServeWrite, ServeRefuse, Lose, Ended
    <3>4. CASE DeliverOk(c) \/ Settle(c) \/ DeliverPast(c) \/ DeliverRefused(c)
      BY <1>1, <2>2, <3>4 DEF DeliverOk, Settle, DeliverPast, DeliverRefused, Finish
    <3> QED BY <1>9, <3>1, <3>2, <3>4 DEF CallStep
  <2>4. \A d \in 1 .. sent' : calls'[d].st \in {"sent", "checked", "past"} => BodyOK(calls'[d].body)
    BY <2>1, <2>3 DEF BodiesOK
  <2> QED BY <1>2, <2>4 DEF BodiesOK, BodyOK
<1> QED BY <1>6, <1>7, <1>8, <1>9, <1>11 DEF Next

LEMMA FullInductive ==
  ASSUME FullInv, [Next]_vars
  PROVE  FullInv'
<1>1. Inv' /\ Mounted'
  BY Inductive, MountedKept DEF FullInv
<1>2. SlipsSound' /\ OneCounts'
  BY SlipsKept DEF FullInv
<1>3. BodiesOK'
  BY BodiesKept DEF FullInv, Typed
<1>4. WorldTyped' /\ QueryTyped' /\ CallsTyped'
  BY <1>2, WorldKept, QueryKept, CallsKept DEF FullInv, Typed
<1>5. FormTyped' /\ HistoryTyped'
  BY <1>1, <1>4, FormTypedKept, HistoryTypedKept DEF FullInv, Typed
<1> QED BY <1>1, <1>2, <1>3, <1>4, <1>5 DEF FullInv, Typed

\* The variables keep their types: an edit form is only mounted over the task
\* it edits, and a confirmation only over a form (TaskForm.tsx, TaskDetail.tsx).
THEOREM TypeCorrect == Spec => []TypeOK
<1>1. FullInv => TypeOK
  BY Parts DEF FullInv
<1> QED BY FullInitSound, FullInductive, <1>1, PTL DEF Spec

\* One form makes one task unless an answer was lost: neither the confirmation
\* of a past deadline nor a second click sends it twice (TaskForm.tsx:141).
THEOREM OneForm == Spec => []OneTaskPerForm
<1>1. FullInv => OneTaskPerForm
  BY DEF FullInv, SlipsSound, SlipSound, OneCounts, Counts, OneTaskPerForm
<1> QED BY FullInitSound, FullInductive, <1>1, PTL DEF Spec

-----------------------------------------------------------------------------
(* The seeding *)

(***************************************************************************)
(* What restarts leave alone, for any number of replicas and crashes: as   *)
(* long as no two replicas have found the database empty together, what    *)
(* users wrote stays, and a replica that serves has an administrator.      *)
(* Both follow from what the table of users says about how far the one     *)
(* seeding replica has come.  Whatever the replicas do, no reference leads *)
(* nowhere; and where nobody was killed either, the one seed meets no      *)
(* refusal, so that the tables end up whole.                               *)
(***************************************************************************)

HasAdmin == \E u \in users : u[1] = "admin"

Places ==
  /\ pc \in [Replicas -> {"down", "failed", "migrate", "count", "seed", "serve"}]
  /\ at \in [Replicas -> Nat]
  /\ written \in Nat
  /\ crowd \in BOOLEAN

\* One replica seeds, and the fourth statement is its first insert, the admin.
OneSeeds ==
  /\ \A r, q \in Replicas : pc[r] = "seed" /\ pc[q] = "seed" => r = q
  /\ \A r \in Replicas : pc[r] = "seed" => at[r] >= 1 /\ (at[r] <= 4 <=> users = {})

UsersTell ==
  /\ users # {} => HasAdmin
  /\ users = {} => ~Serving /\ written = 0
  /\ \A n \in 1 .. written : \E w \in work : w[1] = n

SeedInv == Places /\ (~crowd => OneSeeds /\ UsersTell)

-----------------------------------------------------------------------------
\* The seed begins with three statements that delete and one for the admin.
LEMMA SeedOrder ==
  /\ Len(Reset) = 3
  /\ Len(SeedDatabase) \in Nat /\ Len(SeedDatabase) > 4
  /\ SeedDatabase[4] = "admin"
BY DEF SeedDatabase, Reset, TaskInserts

\* The statements by number.
LEMMA Script ==
  /\ Len(SeedDatabase) = 19
  /\ SeedDatabase[1] = "wipeTasks" /\ SeedDatabase[2] = "wipeUsers"
  /\ SeedDatabase[3] = "wipeTeams" /\ SeedDatabase[4] = "admin"
  /\ SeedDatabase[5] = "backend" /\ SeedDatabase[6] = "frontend"
  /\ SeedDatabase[7] = "beLead" /\ SeedDatabase[8] = "beA" /\ SeedDatabase[9] = "beB"
  /\ SeedDatabase[10] = "feLead" /\ SeedDatabase[11] = "feA"
  /\ SeedDatabase[12] = "designSchema" /\ SeedDatabase[13] = "writeAuth"
  /\ SeedDatabase[14] = "seedData" /\ SeedDatabase[15] = "migrationProd"
  /\ SeedDatabase[16] = "fixBug500" /\ SeedDatabase[17] = "readPrismaDocs"
  /\ SeedDatabase[18] = "deletedTask" /\ SeedDatabase[19] = "feLayout"
BY DEF SeedDatabase, Reset, TaskInserts

\* The names of the rows.
LEMMA Names ==
  /\ Users = {"admin", "beLead", "beA", "beB", "feLead", "feA"}
  /\ Tasks = {"designSchema", "writeAuth", "seedData", "migrationProd", "fixBug500",
              "readPrismaDocs", "deletedTask", "feLayout"}
BY DEF Users, Tasks, TeamOf, PeopleOf

LEMMA Lookup ==
  /\ TeamOf["beLead"] = "backend" /\ TeamOf["beA"] = "backend" /\ TeamOf["beB"] = "backend"
  /\ TeamOf["feLead"] = "frontend" /\ TeamOf["feA"] = "frontend"
  /\ PeopleOf["designSchema"] = {"beLead", "beA"} /\ PeopleOf["writeAuth"] = {"beLead", "beA"}
  /\ PeopleOf["seedData"] = {"beLead", "beB"} /\ PeopleOf["migrationProd"] = {"beLead", "beB"}
  /\ PeopleOf["fixBug500"] = {"beLead", "beA"} /\ PeopleOf["readPrismaDocs"] = {"beA"}
  /\ PeopleOf["deletedTask"] = {"beLead", "beB"} /\ PeopleOf["feLayout"] = {"feLead", "feA"}
BY DEF TeamOf, PeopleOf

\* What the seed has inserted before its statement k.
Written(k) == {SeedDatabase[i] : i \in 4 .. k - 1}

LEMMA WrittenGrows ==
  /\ \A k \in 1 .. 4 : Written(k) = {}
  /\ \A k \in 4 .. 19 : Written(k + 1) = Written(k) \cup {SeedDatabase[k]}
BY DEF Written

\* An insert comes once, and after what it refers to.
LEMMA InOrder ==
  ASSUME NEW k \in 4 .. 19
  PROVE  LET n == SeedDatabase[k] IN
         /\ n \notin Written(k)
         /\ n \in Teams \cup Users \cup Tasks
         /\ n \in Users /\ n # "admin" => TeamOf[n] \in Written(k) \cap Teams
         /\ n \in Tasks => PeopleOf[n] \subseteq Written(k) \cap Users
<1>1. SeedDatabase[k] \notin Written(k)
  BY Script DEF Written
<1>2. SeedDatabase[k] \in Teams \cup Users \cup Tasks
  BY Script, Names DEF Teams
<1>3. ASSUME SeedDatabase[k] \in Users, SeedDatabase[k] # "admin"
      PROVE  TeamOf[SeedDatabase[k]] \in Written(k) \cap Teams
  <2>1. k \in 7 .. 11
    BY <1>3, Script, Names
  <2> QED BY <2>1, Script, Lookup DEF Written, Teams
<1>4. ASSUME SeedDatabase[k] \in Tasks
      PROVE  PeopleOf[SeedDatabase[k]] \subseteq Written(k) \cap Users
  <2>1. k \in 12 .. 19
    BY <1>4, Script, Names
  <2>2. {"beLead", "beA", "beB", "feLead", "feA"} \subseteq Written(k)
    <3>1. /\ 7 \in 4 .. k - 1 /\ 8 \in 4 .. k - 1 /\ 9 \in 4 .. k - 1
          /\ 10 \in 4 .. k - 1 /\ 11 \in 4 .. k - 1
      BY <2>1
    <3> QED BY <3>1, Script DEF Written
  <2>3. PeopleOf[SeedDatabase[k]] \subseteq {"beLead", "beA", "beB", "feLead", "feA"}
    BY <2>1, Script, Lookup
  <2> QED BY <2>2, <2>3, Names
<1> QED BY <1>1, <1>2, <1>3, <1>4

\* At the end everything is there.
LEMMA AllWritten == Teams \cup Users \cup Tasks \subseteq Written(20)
<1>1. Written(20) = {SeedDatabase[i] : i \in 4 .. 19}
  BY DEF Written
<1> SUFFICES ASSUME NEW n \in Teams \cup Users \cup Tasks
             PROVE  \E i \in 4 .. 19 : SeedDatabase[i] = n
    BY <1>1
<1> QED BY Script, Names DEF Teams

\* The initial states.
LEMMA SeedInitSound == SeedingInit => SeedInv
<1> SUFFICES ASSUME SeedingInit PROVE SeedInv
    OBVIOUS
<1>1. Places
  BY DEF SeedingInit, Places
<1>2. OneSeeds
  BY DEF SeedingInit, OneSeeds
<1>3. UsersTell
  BY DEF SeedingInit, UsersTell, Serving
<1> QED BY <1>1, <1>2, <1>3 DEF SeedInv

\* The entrypoint up to the seed.
LEMMA BootStep ==
  ASSUME SeedInv, NEW r \in Replicas,
         \/ Restart(r) /\ UNCHANGED <<at, tables, written, crowd>>
         \/ MigrateDeploy(r) /\ UNCHANGED <<at, tables, written, crowd>>
         \/ SeedIfEmpty(r) /\ UNCHANGED <<tables, written>>
  PROVE  SeedInv'
<1>1. /\ Places /\ UNCHANGED <<users, work, written>>
      /\ ~crowd => OneSeeds /\ UsersTell
  BY DEF SeedInv, tables
<1>2. CASE Restart(r) \/ MigrateDeploy(r)
  <2>1. UNCHANGED <<at, crowd>> /\ \E l \in {"migrate", "count"} : pc' = [pc EXCEPT ![r] = l]
    BY <1>2 DEF Restart, MigrateDeploy, Goto, SeedIfEmpty
  <2> QED
    BY <1>1, <2>1 DEF SeedInv, Places, OneSeeds, UsersTell, Serving, HasAdmin
<1>3. CASE SeedIfEmpty(r)
  <2>1. CASE users # {}
    <3>1. pc' = [pc EXCEPT ![r] = "serve"] /\ UNCHANGED <<at, crowd>>
      BY <1>3, <2>1 DEF SeedIfEmpty, Goto
    <3> QED
      BY <1>1, <2>1, <3>1 DEF SeedInv, Places, OneSeeds, UsersTell, Serving, HasAdmin
  <2>2. CASE users = {}
    <3>1. /\ pc' = [pc EXCEPT ![r] = "seed"] /\ at' = [at EXCEPT ![r] = 1]
          /\ crowd' = (crowd \/ \E q \in Replicas \ {r} : pc[q] = "seed")
      BY <1>3, <2>2 DEF SeedIfEmpty, Goto
    <3>2. crowd' \in BOOLEAN /\ (~crowd' => ~crowd /\ \A q \in Replicas \ {r} : pc[q] # "seed")
      BY Zenon, <3>1
    <3> QED
      BY <1>1, <2>2, <3>1, <3>2 DEF SeedInv, Places, OneSeeds, UsersTell, Serving, HasAdmin
  <2> QED BY <2>1, <2>2
<1> QED BY <1>2, <1>3

\* The seed: it deletes only what is not there yet, and adds from then on.
LEMMA SeedStepSound ==
  ASSUME SeedInv, NEW r \in Replicas, SeedStep(r), UNCHANGED <<written, crowd>>
  PROVE  SeedInv'
<1>1. Places /\ pc[r] = "seed"
  BY DEF SeedInv, SeedStep
<1> DEFINE n == SeedDatabase[at[r]]
           deletes == at[r] <= Len(Reset)
           allowed == IF deletes THEN WipeAllowed(n) ELSE InsertAllowed(r, n)
<1>2. CASE ~allowed
  <2>1. /\ pc' = [pc EXCEPT ![r] = "failed"] /\ at' = [at EXCEPT ![r] = 0]
        /\ UNCHANGED <<users, work>>
    BY <1>2 DEF SeedStep, Goto, tables
  <2> QED
    BY <1>1, <2>1 DEF SeedInv, Places, OneSeeds, UsersTell, Serving, HasAdmin
<1>3. CASE allowed
  <2>1. /\ IF deletes THEN Wipe(n) ELSE Insert(r, n)
        /\ at' = [at EXCEPT ![r] = IF @ = Len(SeedDatabase) THEN 0 ELSE @ + 1]
        /\ IF at[r] = Len(SeedDatabase) THEN pc' = [pc EXCEPT ![r] = "serve"] ELSE pc' = pc
    BY <1>3 DEF SeedStep, Goto
  <2>2. Places'
    BY <1>1, <2>1, SeedOrder DEF Places
  <2>3. ASSUME ~crowd PROVE OneSeeds' /\ UsersTell'
    <3>1. OneSeeds /\ UsersTell
      BY <2>3 DEF SeedInv
    <3>2. CASE at[r] <= 3
      <4>1. users' = {} /\ written' = 0
        <5>1. users = {} /\ written = 0
          BY <1>1, <3>1, <3>2 DEF Places, OneSeeds, UsersTell
        <5>2. Wipe(SeedDatabase[at[r]])
          BY <2>1, <3>2, SeedOrder
        <5> QED BY <5>1, <5>2 DEF Wipe
      <4>2. pc' = pc /\ at' = [at EXCEPT ![r] = at[r] + 1]
        <5>1. at[r] # Len(SeedDatabase)
          BY <1>1, <3>2, SeedOrder DEF Places
        <5> QED BY <2>1, <5>1
      <4> QED
        BY <1>1, <3>1, <3>2, <4>1, <4>2 DEF Places, OneSeeds, UsersTell, Serving, HasAdmin
    <3>3. CASE at[r] > 3
      <4>1. Insert(r, SeedDatabase[at[r]])
        BY <1>1, <2>1, <3>3, SeedOrder DEF Places
      <4>2. users \subseteq users' /\ work' = work
        BY <4>1 DEF Insert
      <4>3. users' # {} /\ HasAdmin'
        <5>1. CASE at[r] = 4
          <6>1. Insert(r, "admin")
            BY <4>1, <5>1, SeedOrder
          <6>2. users' = users \cup {<<"admin", r>>}
            BY <6>1 DEF Insert, Teams, Tasks, PeopleOf
          <6>3. <<"admin", r>> \in users' /\ <<"admin", r>>[1] = "admin"
            BY <6>2
          <6> QED BY <6>3 DEF HasAdmin
        <5>2. CASE at[r] # 4
          <6>1. users # {} /\ HasAdmin
            BY <1>1, <3>1, <3>3, <5>2 DEF Places, OneSeeds, UsersTell
          <6> QED BY <4>2, <6>1 DEF HasAdmin
        <5> QED BY <5>1, <5>2
      <4>4. OneSeeds'
        BY <1>1, <2>1, <3>1, <3>3, <4>3, SeedOrder DEF Places, OneSeeds
      <4> QED BY <3>1, <4>2, <4>3, <4>4 DEF UsersTell
    <3> QED BY <1>1, <3>2, <3>3 DEF Places
  <2> QED BY <2>2, <2>3 DEF SeedInv
<1> QED BY <1>2, <1>3

\* Crashes and the users' own writes.
LEMMA AroundStep ==
  ASSUME SeedInv,
         \/ \E r \in Replicas : Crash(r)
         \/ \E r \in Replicas, u \in users : Work(r, u)
         \/ seedingVars' = seedingVars
  PROVE  SeedInv'
<1>1. CASE \E r \in Replicas : Crash(r)
  BY <1>1 DEF Crash, Goto, tables, SeedInv, Places, OneSeeds, UsersTell, Serving, HasAdmin
<1>2. ASSUME NEW r \in Replicas, NEW u \in users, Work(r, u) PROVE SeedInv'
  <2>1. /\ written' = written + 1 /\ work' = work \cup {<<written + 1, u>>}
        /\ UNCHANGED <<pc, at, users, crowd>>
    BY <1>2 DEF Work
  <2>2. ~crowd => \A n \in 1 .. written' : \E w \in work' : w[1] = n
    <3> SUFFICES ASSUME ~crowd, NEW n \in 1 .. written' PROVE \E w \in work' : w[1] = n
      OBVIOUS
    <3>1. CASE n = written + 1
      <4>1. <<written + 1, u>> \in work' /\ <<written + 1, u>>[1] = written + 1
        BY <2>1
      <4> QED BY <3>1, <4>1
    <3>2. CASE n \in 1 .. written
      BY <2>1, <3>2 DEF SeedInv, UsersTell
    <3> QED BY <2>1, <3>1, <3>2 DEF SeedInv, Places
  <2> QED
    BY <1>2, <2>1, <2>2 DEF SeedInv, Places, OneSeeds, UsersTell, Serving, HasAdmin
<1>3. CASE seedingVars' = seedingVars
  BY <1>3 DEF seedingVars, tables, SeedInv, Places, OneSeeds, UsersTell, Serving, HasAdmin
<1> QED BY <1>1, <1>2, <1>3

\* The invariant is inductive.
LEMMA SeedInductive == SeedInv /\ [SeedingNext]_seedingVars => SeedInv'
<1> SUFFICES ASSUME SeedInv, [SeedingNext]_seedingVars PROVE SeedInv'
    OBVIOUS
<1>1. ASSUME NEW r \in Replicas, Boot(r) PROVE SeedInv'
  BY <1>1, BootStep, SeedStepSound DEF Boot
<1> QED BY <1>1, AroundStep DEF SeedingNext

\* Restarts keep what users wrote, unless two replicas found the database
\* empty together (seed-if-empty.ts:6).
THEOREM WorkIsKept == SeedingSpec => []RestartsKeepWork
<1>1. SeedInv => RestartsKeepWork
  BY DEF SeedInv, UsersTell, RestartsKeepWork
<1> QED BY SeedInitSound, SeedInductive, <1>1, PTL DEF SeedingSpec

\* A replica that serves has an administrator, wherever earlier seeds were cut
\* off (seed.ts:61, docker-entrypoint.sh).
THEOREM AdminIsThere == SeedingSpec => []ServingHasAdmin
<1>1. SeedInv => ServingHasAdmin
  BY DEF SeedInv, UsersTell, HasAdmin, ServingHasAdmin
<1> QED BY SeedInitSound, SeedInductive, <1>1, PTL DEF SeedingSpec
-----------------------------------------------------------------------------
(* The tables and the fixture *)

Marks ==
  /\ \A r \in Replicas : IF pc[r] = "seed" THEN at[r] \in 1 .. Len(SeedDatabase)
                         ELSE at[r] = 0
  /\ \A r \in Replicas : pc[r] \in {"count", "seed", "serve"} => schema
  /\ crashes \in Nat

\* The foreign keys and unique keys hold, between any two statements.
References ==
  /\ teams \subseteq Teams \X Replicas /\ users \subseteq Users \X Replicas
  /\ tasks \subseteq Tasks \X Replicas
  /\ \A x, y \in teams : x[1] = y[1] => x = y
  /\ \A x, y \in users : x[1] = y[1] => x = y
  /\ \A u \in users : u[1] # "admin" => <<TeamOf[u[1]], u[2]>> \in teams
  /\ \A t \in tasks : \A u \in PeopleOf[t[1]] : <<u, t[2]>> \in users
  /\ \A w \in work : w[2] \in users

SeedTypeInv == Places /\ Marks /\ References

\* The tables hold what replica r inserted before its statement k.
Rows(k, r) ==
  /\ teams = (Written(k) \cap Teams) \X {r}
  /\ users = (Written(k) \cap Users) \X {r}
  /\ tasks = (Written(k) \cap Tasks) \X {r}

\* With nobody killed and no two seeding together, a seed finds nothing in its
\* way, so that a table is empty, as far as the one seed has come, or whole.
OneFixture ==
  /\ \A r \in Replicas : pc[r] = "seed" => Rows(at[r], r)
  /\ (\A r \in Replicas : pc[r] # "seed") =>
       IF users = {} THEN teams = {} /\ tasks = {}
       ELSE \E r \in Replicas : Rows(Len(SeedDatabase) + 1, r)

WholeInv == SeedInv /\ SeedTypeInv /\ (~crowd /\ crashes = 0 => OneFixture)

LEMMA SeedTypesHold == SeedTypeInv => SeedingTypeOK
<1> SUFFICES ASSUME SeedTypeInv PROVE SeedingTypeOK
    OBVIOUS
<1>1. /\ pc \in [Replicas -> {"down", "failed", "migrate", "count", "seed", "serve"}]
      /\ \A r \in Replicas : at[r] \in 1 .. Len(SeedDatabase) <=> pc[r] = "seed"
      /\ Serving => schema
  BY Script DEF SeedTypeInv, Places, Marks, Serving
<1> QED BY <1>1 DEF SeedTypeInv, References, SeedingTypeOK

LEMMA InitFull == SeedingInit => WholeInv
<1> SUFFICES ASSUME SeedingInit PROVE WholeInv
    OBVIOUS
<1>1. SeedInv
  BY SeedInitSound
<1>2. Places
  BY <1>1 DEF SeedInv
<1>3. Marks
  BY DEF SeedingInit, Marks
<1>4. References
  BY DEF SeedingInit, References
<1>5. OneFixture
  BY DEF SeedingInit, OneFixture
<1> QED BY <1>1, <1>2, <1>3, <1>4, <1>5 DEF WholeInv, SeedTypeInv

\* A statement that the database lets through keeps the references whole.
LEMMA WipeSound ==
  ASSUME References, NEW n, WipeAllowed(n), Wipe(n)
  PROVE  References'
<1>1. CASE n = "wipeTasks" /\ tasks' = {} /\ work' = {} /\ UNCHANGED <<teams, users>>
  BY <1>1 DEF References
<1>2. CASE n = "wipeUsers" /\ users' = {} /\ UNCHANGED <<teams, tasks, work>>
  BY <1>2 DEF References, WipeAllowed
<1>3. CASE n = "wipeTeams" /\ teams' = {} /\ UNCHANGED <<users, tasks, work>>
  BY <1>3 DEF References, WipeAllowed
<1> QED BY <1>1, <1>2, <1>3 DEF Wipe

LEMMA InsertSound ==
  ASSUME References, NEW r \in Replicas, NEW n, InsertAllowed(r, n), Insert(r, n)
  PROVE  References'
<1>1. CASE n \in Teams /\ teams' = teams \cup {<<n, r>>} /\ UNCHANGED <<users, tasks, work>>
  <2>1. \A x \in teams : x[1] # n
    BY <1>1 DEF References, InsertAllowed, Taken
  <2> QED BY <1>1, <2>1 DEF References
<1>2. CASE n \in Users /\ users' = users \cup {<<n, r>>} /\ UNCHANGED <<teams, tasks, work>>
  <2>1. \A x \in users : x[1] # n
    BY <1>2 DEF References, InsertAllowed, Taken
  <2>2. n # "admin" => <<TeamOf[n], r>> \in teams
    BY <1>2 DEF InsertAllowed
  <2> QED BY <1>2, <2>1, <2>2 DEF References
<1>3. CASE n \in Tasks /\ tasks' = tasks \cup {<<n, r>>} /\ UNCHANGED <<teams, users, work>>
  <2>1. \A u \in PeopleOf[n] : <<u, r>> \in users
    BY <1>3 DEF InsertAllowed
  <2> QED BY <1>3, <2>1 DEF References
<1> QED BY <1>1, <1>2, <1>3 DEF Insert

LEMMA MarksStep ==
  ASSUME Places, Marks, [SeedingNext]_seedingVars
  PROVE  Marks'
<1>1. ASSUME NEW r \in Replicas, Boot(r) PROVE Marks'
  <2>1. CASE Restart(r) /\ UNCHANGED <<at, schema, tables, crashes, written, crowd>>
    BY <2>1 DEF Restart, Goto, Places, Marks
  <2>2. CASE MigrateDeploy(r) /\ UNCHANGED <<at, tables, crashes, written, crowd>>
    BY <2>2 DEF MigrateDeploy, Goto, Places, Marks
  <2>3. CASE SeedIfEmpty(r) /\ UNCHANGED <<schema, tables, crashes, written>>
    <3>1. /\ pc[r] = "count" /\ UNCHANGED <<schema, crashes>>
          /\ \/ pc' = [pc EXCEPT ![r] = "serve"] /\ at' = at
             \/ pc' = [pc EXCEPT ![r] = "seed"] /\ at' = [at EXCEPT ![r] = 1]
      BY <2>3 DEF SeedIfEmpty, Goto
    <3> QED BY <3>1, Script DEF Places, Marks
  <2>4. CASE SeedStep(r) /\ UNCHANGED <<schema, crashes, written, crowd>>
    <3>1. /\ pc[r] = "seed" /\ UNCHANGED <<schema, crashes>>
          /\ \/ /\ at' = [at EXCEPT ![r] = IF @ = Len(SeedDatabase) THEN 0 ELSE @ + 1]
                /\ IF at[r] = Len(SeedDatabase) THEN pc' = [pc EXCEPT ![r] = "serve"]
                   ELSE pc' = pc
             \/ pc' = [pc EXCEPT ![r] = "failed"] /\ at' = [at EXCEPT ![r] = 0]
      BY <2>4 DEF SeedStep, Goto
    <3> QED BY <3>1, Script DEF Places, Marks
  <2> QED BY <1>1, <2>1, <2>2, <2>3, <2>4 DEF Boot
<1>2. ASSUME NEW r \in Replicas, Crash(r) PROVE Marks'
  BY <1>2 DEF Crash, Goto, Places, Marks
<1>3. ASSUME NEW r \in Replicas, NEW u \in users, Work(r, u) PROVE Marks'
  BY <1>3 DEF Work, Marks
<1>4. CASE seedingVars' = seedingVars
  BY <1>4 DEF seedingVars, Marks
<1> QED BY <1>1, <1>2, <1>3, <1>4 DEF SeedingNext

LEMMA ReferencesStep ==
  ASSUME References, [SeedingNext]_seedingVars
  PROVE  References'
<1>1. ASSUME NEW r \in Replicas, Boot(r) PROVE References'
  <2>1. CASE UNCHANGED tables
    BY <2>1 DEF tables, References
  <2>2. CASE SeedStep(r) /\ ~UNCHANGED tables
    BY <2>2, WipeSound, InsertSound DEF SeedStep
  <2> QED BY <1>1, <2>1, <2>2 DEF Boot
<1>2. ASSUME NEW r \in Replicas, Crash(r) PROVE References'
  BY <1>2 DEF Crash, tables, References
<1>3. ASSUME NEW r \in Replicas, NEW u \in users, Work(r, u) PROVE References'
  <2>1. work' = work \cup {<<written + 1, u>>} /\ UNCHANGED <<teams, users, tasks>>
    BY <1>3 DEF Work
  <2> QED BY <2>1 DEF References
<1>4. CASE seedingVars' = seedingVars
  BY <1>4 DEF seedingVars, tables, References
<1> QED BY <1>1, <1>2, <1>3, <1>4 DEF SeedingNext

\* The one seed goes through without a refusal.
LEMMA SeedGoesOn ==
  ASSUME SeedInv, SeedTypeInv, OneFixture, ~crowd, NEW r \in Replicas, SeedStep(r),
         UNCHANGED <<crashes, crowd>>
  PROVE  OneFixture'
<1>0. PICK k \in 1 .. 19 : k = at[r]
  BY Script DEF SeedStep, SeedTypeInv, Marks
<1> DEFINE n == SeedDatabase[k]
<1>1. /\ pc[r] = "seed" /\ Rows(k, r) /\ at[r] = k
      /\ \A q \in Replicas : pc[q] = "seed" => q = r
      /\ k <= 4 <=> users = {}
  BY <1>0 DEF SeedStep, OneFixture, SeedInv, OneSeeds
<1>2. CASE k <= 3
  <2>1. users = {} /\ teams = {} /\ tasks = {} /\ work = {}
    BY <1>1, <1>2, WrittenGrows DEF Rows, SeedTypeInv, References
  <2>2. WipeAllowed(n)
    BY <2>1 DEF WipeAllowed
  <2>3. /\ Wipe(n) /\ pc' = pc
        /\ at' = [at EXCEPT ![r] = at[r] + 1]
    BY <1>1, <1>2, <2>2, Script, SeedOrder DEF SeedStep
  <2>4. users' = {} /\ teams' = {} /\ tasks' = {}
    BY <2>1, <2>3 DEF Wipe
  <2>5. Written(k + 1) = {}
    BY <1>1, <1>2, WrittenGrows
  <2>6. Rows(k + 1, r)'
    BY <2>4, <2>5 DEF Rows, Written
  <2>7. at'[r] = k + 1
    BY <1>1, <2>3 DEF SeedTypeInv, Places
  <2> QED BY <1>1, <2>3, <2>6, <2>7 DEF OneFixture
<1>3. CASE k > 3
  <2>1. k \in 4 .. 19
    BY <1>3
  <2>2. InsertAllowed(r, n)
    <3>1. n \in Teams => ~Taken(n, teams)
      BY <1>1, <2>1, InOrder DEF Taken, Rows
    <3>2. n \in Users => ~Taken(n, users)
      BY <1>1, <2>1, InOrder DEF Taken, Rows
    <3>3. n \in Users /\ n # "admin" => <<TeamOf[n], r>> \in teams
      BY <1>1, <2>1, InOrder DEF Rows
    <3>4. n \in Tasks => \A u \in PeopleOf[n] : <<u, r>> \in users
      BY <1>1, <2>1, InOrder DEF Rows
    <3> QED BY <3>1, <3>2, <3>3, <3>4 DEF InsertAllowed
  <2>3. /\ Insert(r, n)
        /\ at' = [at EXCEPT ![r] = IF @ = 19 THEN 0 ELSE @ + 1]
        /\ IF k = 19 THEN pc' = [pc EXCEPT ![r] = "serve"] ELSE pc' = pc
    BY <1>1, <1>3, <2>2, Script, SeedOrder DEF SeedStep, Goto
  <2>4. /\ teams' = (Written(k + 1) \cap Teams) \X {r}
        /\ users' = (Written(k + 1) \cap Users) \X {r}
        /\ tasks' = (Written(k + 1) \cap Tasks) \X {r}
    <3>1. Written(k + 1) = Written(k) \cup {n}
      BY <2>1, WrittenGrows
    <3>2. \/ n \in Teams /\ n \notin Users /\ n \notin Tasks
          \/ n \in Users /\ n \notin Teams /\ n \notin Tasks
          \/ n \in Tasks /\ n \notin Users /\ n \notin Teams
      BY <2>3, Names DEF Teams, Insert
    <3> HIDE DEF n
    <3> QED BY <1>1, <2>3, <3>1, <3>2 DEF Rows, Insert
  <2>5. users' # {}
    <3>1. CASE k = 4
      BY <2>3, <3>1, Script, Names DEF Teams, Insert
    <3>2. CASE k # 4
      BY <1>1, <1>3, <2>3, <3>2 DEF Insert
    <3> QED BY <3>1, <3>2
  <2>6. CASE k = 19
    <3>1. pc' = [pc EXCEPT ![r] = "serve"]
      BY <2>3, <2>6
    <3>2. Rows(Len(SeedDatabase) + 1, r)'
      BY <2>4, <2>6, Script DEF Rows, Written
    <3> QED BY <1>1, <2>5, <3>1, <3>2 DEF OneFixture, SeedTypeInv, Places
  <2>7. CASE k # 19
    <3>1. pc' = pc /\ at'[r] = k + 1
      BY <1>1, <2>3, <2>7 DEF SeedTypeInv, Places
    <3>2. Rows(k + 1, r)'
      BY <2>4 DEF Rows, Written
    <3> QED BY <1>1, <3>1, <3>2 DEF OneFixture
  <2> QED BY <2>6, <2>7
<1> QED BY <1>1, <1>2, <1>3

LEMMA FixtureStep ==
  ASSUME SeedInv, SeedTypeInv, ~crowd /\ crashes = 0 => OneFixture, [SeedingNext]_seedingVars,
         ~crowd', crashes' = 0
  PROVE  OneFixture'
<1>1. ~crowd /\ crashes = 0 /\ OneFixture
  <2>1. ~crowd
    BY DEF SeedingNext, Boot, SeedIfEmpty, Crash, Work, seedingVars, SeedInv, Places
  <2>2. crashes = 0
    BY DEF SeedingNext, Boot, Crash, Work, seedingVars, SeedTypeInv, Marks
  <2> QED BY <2>1, <2>2
<1>2. ASSUME NEW r \in Replicas, Boot(r) PROVE OneFixture'
  <2>1. ASSUME Restart(r) \/ MigrateDeploy(r), UNCHANGED <<at, tables>> PROVE OneFixture'
    <3>1. /\ pc[r] # "seed" /\ UNCHANGED <<at, teams, users, tasks>>
          /\ \E l \in {"migrate", "count"} : pc' = [pc EXCEPT ![r] = l]
      BY <2>1 DEF Restart, MigrateDeploy, Goto, tables
    <3> QED BY <1>1, <3>1 DEF OneFixture, Rows, SeedTypeInv, Places
  <2>2. ASSUME SeedIfEmpty(r), UNCHANGED <<schema, tables, crashes, written>>
        PROVE  OneFixture'
    <3>1. pc[r] = "count" /\ UNCHANGED <<teams, users, tasks>>
      BY <2>2 DEF SeedIfEmpty, tables
    <3>2. CASE users # {}
      <4>1. pc' = [pc EXCEPT ![r] = "serve"] /\ at' = at
        BY <2>2, <3>2 DEF SeedIfEmpty, Goto
      <4> QED BY <1>1, <3>1, <4>1 DEF OneFixture, Rows, SeedTypeInv, Places
    <3>3. CASE users = {}
      <4>1. /\ pc' = [pc EXCEPT ![r] = "seed"] /\ at' = [at EXCEPT ![r] = 1]
            /\ crowd' = (crowd \/ \E q \in Replicas \ {r} : pc[q] = "seed")
        BY <2>2, <3>3 DEF SeedIfEmpty, Goto
      <4>2. \A q \in Replicas : pc[q] # "seed"
        BY Zenon, <3>1, <4>1
      <4>3. teams = {} /\ tasks = {}
        BY <1>1, <3>3, <4>2 DEF OneFixture
      <4>4. Rows(1, r)'
        BY <3>1, <3>3, <4>3, WrittenGrows DEF Rows, Written
      <4>5. at'[r] = 1 /\ pc'[r] = "seed" /\ \A q \in Replicas : pc'[q] = "seed" => q = r
        BY <4>1, <4>2 DEF SeedTypeInv, Places
      <4> QED BY <4>4, <4>5 DEF OneFixture
    <3> QED BY <3>2, <3>3
  <2>3. ASSUME SeedStep(r), UNCHANGED <<crashes, crowd>> PROVE OneFixture'
    BY <1>1, <2>3, SeedGoesOn
  <2> QED BY <1>2, <2>1, <2>2, <2>3 DEF Boot
<1>3. ASSUME NEW r \in Replicas, Crash(r) PROVE FALSE
  BY <1>1, <1>3 DEF Crash
<1>4. ASSUME NEW r \in Replicas, NEW u \in users, Work(r, u) PROVE OneFixture'
  BY <1>1, <1>4 DEF Work, OneFixture, Rows
<1>5. CASE seedingVars' = seedingVars
  BY <1>1, <1>5 DEF seedingVars, tables, OneFixture, Rows
<1> QED BY <1>2, <1>3, <1>4, <1>5 DEF SeedingNext

LEMMA WholeInductive == WholeInv /\ [SeedingNext]_seedingVars => WholeInv'
<1> SUFFICES ASSUME WholeInv, [SeedingNext]_seedingVars PROVE WholeInv'
    OBVIOUS
<1>1. SeedInv'
  BY SeedInductive DEF WholeInv
<1>2. Places' /\ Marks' /\ References'
  BY <1>1, MarksStep, ReferencesStep DEF WholeInv, SeedTypeInv, SeedInv
<1>3. ~crowd' /\ crashes' = 0 => OneFixture'
  BY FixtureStep DEF WholeInv
<1> QED BY <1>1, <1>2, <1>3 DEF WholeInv, SeedTypeInv

\* Every reference leads to a row and every name is there once, in whatever
\* order the replicas' statements come (seed.ts:38-41, migration.sql).
THEOREM SeedingTypeCorrect == SeedingSpec => []SeedingTypeOK
<1>1. WholeInv => SeedingTypeOK
  BY SeedTypesHold DEF WholeInv
<1> QED BY InitFull, WholeInductive, <1>1, PTL DEF SeedingSpec

\* Without a crash the API ends up on the whole fixture (seed.ts:33-151,
\* seed-if-empty.ts:14-20).
THEOREM WholeFixture == SeedingSpec => []FixtureIsWhole
<1>1. WholeInv => FixtureIsWhole
  <2> SUFFICES ASSUME WholeInv, ~crowd, Serving, crashes = 0,
                      \A r \in Replicas : pc[r] # "seed"
               PROVE  /\ {x[1] : x \in teams} = Teams /\ {x[1] : x \in users} = Users
                      /\ {x[1] : x \in tasks} = Tasks
    BY DEF FixtureIsWhole
  <2>1. users # {} /\ OneFixture
    BY DEF WholeInv, SeedInv, UsersTell
  <2>2. PICK r \in Replicas : Rows(20, r)
    BY <2>1, Script DEF OneFixture
  <2>3. teams = Teams \X {r} /\ users = Users \X {r} /\ tasks = Tasks \X {r}
    BY <2>2, AllWritten DEF Rows
  <2>4. \A S : {x[1] : x \in S \X {r}} = S
    <3> SUFFICES ASSUME NEW S PROVE {x[1] : x \in S \X {r}} = S
      OBVIOUS
    <3>1. \A s \in S : <<s, r>> \in S \X {r} /\ <<s, r>>[1] = s
      OBVIOUS
    <3> QED BY <3>1
  <2> QED BY <2>3, <2>4
<1> QED BY InitFull, WholeInductive, <1>1, PTL DEF SeedingSpec
=============================================================================

-------------------------- MODULE WorkspacesProofs --------------------------
(***************************************************************************)
(* Proofs about Workspaces, for every number of users, workspaces, forms   *)
(* and requests: a form is in one workspace of a user at most, it does not *)
(* fall out of them, and the deletion of a workspace archives no form that *)
(* its user has not owned or that is handed over meanwhile, however far    *)
(* behind the node is that says whose the forms are.                       *)
(***************************************************************************)
EXTENDS Workspaces, TLAPS

Task == [pc : {"idle", "title", "archive", "remove", "begin", "find", "commit"},
         op : Operation, user : User \cup {NoUser}, todo : SUBSET Workspace,
         formIds : SUBSET Form, view : View]

\* What the nodes may return of a form: what it is now, and was before.
Lagging ==
    /\ replicas \in [Form -> SUBSET FormDocument]
    /\ \A f \in Form : forms[f] \in replicas[f]
    /\ \A f \in Form : \A d \in replicas[f] : d.updates <= forms[f].updates
    /\ \A f \in Form \ Created : replicas[f] = {NoForm}

\* What is in the database, with its type.
Database ==
    /\ workspaces \in [Workspace -> WorkspaceDocument]
    /\ \A w \in Workspace : workspaces[w].stored = "no"
                               => workspaces[w] = NotCreated
    /\ \A w \in Workspace : ~Stored(workspaces, w) => workspaces[w].formIds = {}
    /\ forms \in [Form -> FormDocument]
    /\ \A f \in Form \ Created : forms[f] = NoForm
    /\ Lagging

\* What a request names: one workspace, of the user if forms are moved to it,
\* and forms that exist or, if it creates one, that nobody else knows.
WellNamed(h) ==
    /\ task[h].pc # "idle" => task[h].user \in User
    /\ task[h].op \in {"title", "move", "delete", "deleteWithForms", "create"}
          => \A v, w \in task[h].todo : v = w
    /\ task[h].op = "move"
          => \A w \in task[h].todo : AdminOf[w] = task[h].user
    /\ task[h].op # "create" => task[h].formIds \subseteq Created
    /\ task[h].op = "create"
          => \A f \in task[h].formIds : f \notin Created
    /\ task[h].pc = "find" => task[h].op = "deleteWithForms"
    /\ task[h].pc \in {"archive", "remove"} => task[h].op \in {"archive", "remove"}

NewFormsUnknown ==
    \A g, h \in TaskHandler :
       g # h /\ task[h].op = "create" => task[g].formIds \cap task[h].formIds = {}

\* The requests, with their type.
Requests ==
    /\ task \in [TaskHandler -> Task]
    /\ tasks \in 0 .. MaxTasks /\ aborted \in 0 .. MaxAborts
    /\ \A h \in TaskHandler : WellNamed(h)
    /\ NewFormsUnknown

\* Every step leaves a document alone, or counts that it was written.
Since(old, new, Key) ==
    \A k \in Key : old[k] = new[k] \/ old[k].updates < new[k].updates

LEMMA SinceTransitive ==
    ASSUME NEW Key, NEW a, NEW b, NEW c,
           \A k \in Key : a[k].updates \in Nat /\ b[k].updates \in Nat
                             /\ c[k].updates \in Nat,
           Since(a, b, Key), Since(b, c, Key)
    PROVE  Since(a, c, Key)
  BY DEF Since

LEMMA IdleIsTask == NoTask \in Task /\ NoView \in View
  BY DEF NoTask, Task, Operation, View, NoView, WorkspaceDocument, FormDocument,
     NotCreated, NoForm

LEMMA FirstRequests ==
    WorkspaceInit => Database /\ Requests
<1> SUFFICES ASSUME WorkspaceInit PROVE Database /\ Requests
  OBVIOUS
<1>1. forms \in [Form -> FormDocument] /\ \A f \in Form \ Created : forms[f] = NoForm
  <2>1. forms \in [Form -> {NoForm} \cup
            [owner : User, archived : {FALSE}, updates : {1}]]
    BY DEF WorkspaceInit
  <2>2. \A f \in Form : forms[f] = NoForm
            \/ forms[f] \in [owner : User, archived : {FALSE}, updates : {1}]
    BY <2>1
  <2>3. NoForm \in FormDocument
    BY DEF NoForm, FormDocument
  <2>7. ASSUME NEW d \in [owner : User, archived : {FALSE}, updates : {1}]
        PROVE  d \in FormDocument
    <3>1. PICK u \in User : d = [owner |-> u, archived |-> FALSE, updates |-> 1]
      OBVIOUS
    <3> QED
      BY <3>1 DEF FormDocument
  <2>4. \A f \in Form \ Created : forms[f] = NoForm
    BY <2>2, WorkspaceAssumption DEF Created
  <2>5. \A f \in Form : forms[f] \in FormDocument
    BY <2>2, <2>3, <2>7
  <2>6. forms = [f \in Form |-> forms[f]]
    BY <2>1
  <2> QED
    BY <2>4, <2>5, <2>6
<1>2. workspaces \in [Workspace -> {NotCreated} \cup
          [stored : {"yes"}, formIds : SUBSET Created, updates : {1}]]
  BY DEF WorkspaceInit
<1>3. Created \subseteq Form /\ NotCreated \in WorkspaceDocument
  BY DEF Created, NotCreated, WorkspaceDocument
<1>4. \A w \in Workspace :
          \/ workspaces[w] = NotCreated
          \/ workspaces[w] \in WorkspaceDocument /\ workspaces[w].stored = "yes"
  BY <1>2, <1>3 DEF WorkspaceDocument
<1>5. Database
  <2>1. workspaces \in [Workspace -> WorkspaceDocument]
    BY <1>2, <1>3, <1>4
  <2>2. NotCreated.formIds = {} /\ NotCreated.stored = "no"
    BY DEF NotCreated
  <2>3. Lagging
    <3>1. replicas = [f \in Form |-> {forms[f]}]
      BY DEF WorkspaceInit
    <3>2. \A f \in Form : forms[f].updates \in Nat
      BY <1>1 DEF FormDocument
    <3> QED
      BY <1>1, <3>1, <3>2 DEF Lagging
  <2> QED
    BY <2>1, <2>2, <2>3, <1>1, <1>4 DEF Database, Stored
<1>6. \A h \in TaskHandler : task[h] = NoTask
  BY DEF WorkspaceInit
<1>7. task \in [TaskHandler -> Task] /\ tasks \in 0 .. MaxTasks
         /\ aborted \in 0 .. MaxAborts
  BY IdleIsTask, WorkspaceAssumption DEF WorkspaceInit
<1>8. (\A h \in TaskHandler : WellNamed(h)) /\ NewFormsUnknown
  BY <1>6 DEF WellNamed, NewFormsUnknown, NoTask
<1> QED
  BY <1>5, <1>7, <1>8 DEF Requests

-----------------------------------------------------------------------------
(* How a step changes the documents.                                        *)

Rewritten(w) ==
    /\ workspaces'[w].stored # "no"
    /\ workspaces'[w].updates = workspaces[w].updates + 1
    /\ ~Stored(workspaces', w) => workspaces'[w].formIds = {}

WorkspacesEvolve ==
    /\ workspaces' \in [Workspace -> WorkspaceDocument]
    /\ \A w \in Workspace : workspaces'[w] = workspaces[w] \/ Rewritten(w)

\* No workspace has a form that it had not.
WorkspacesShrink ==
    \A w \in Workspace : workspaces'[w].formIds \subseteq workspaces[w].formIds

FormsEvolve ==
    /\ forms' \in [Form -> FormDocument]
    /\ \A f \in Form :
          \/ forms'[f] = forms[f]
          \/ forms'[f].owner # NoUser /\ forms[f].updates < forms'[f].updates

\* What has been written is among what the nodes may return, for ever.
ReplicasEvolve == replicas' = [f \in Form |-> replicas[f] \cup {forms'[f]}]

LEMMA WrittenDocument ==
    ASSUME Database, NEW w \in Workspace, Stored(workspaces, w),
           NEW F \in SUBSET Form
    PROVE  /\ Written(workspaces[w], F) \in WorkspaceDocument
           /\ Written(workspaces[w], F).stored = "yes"
           /\ Written(workspaces[w], F).formIds = F
           /\ Written(workspaces[w], F).updates = workspaces[w].updates + 1
<1> DEFINE d == workspaces[w]
<1>1. d \in WorkspaceDocument /\ d.stored = "yes"
  BY DEF Database, Stored
<1>2. Written(d, F) = [stored |-> "yes", formIds |-> F, updates |-> d.updates + 1]
  BY DEF Written
<1>3. d.updates \in Nat
  BY <1>1 DEF WorkspaceDocument
<1> QED
  BY <1>2, <1>3 DEF WorkspaceDocument

\* A transaction that commits writes workspaces that are still as it saw them.
LEMMA WritesStored ==
    ASSUME Database, Requests, NEW h \in TaskHandler, ~WriteConflict(h),
           NEW w \in Workspace, w \in Writes(h)
    PROVE  Stored(workspaces, w) /\ workspaces[w] = task[h].view.workspaces[w]
  BY DEF Writes, Destination, Visited, Of, WriteConflict, WorkspaceConflict, Stored

LEMMA CreateWorkspaceStep ==
    ASSUME Database, NEW w \in Workspace, createWorkspace(w)
    PROVE  WorkspacesEvolve /\ WorkspacesShrink
<1>1. workspaces' = [workspaces EXCEPT ![w] =
          [stored |-> "yes", formIds |-> {}, updates |-> 1]]
        /\ workspaces[w] = NotCreated
  BY DEF createWorkspace, Database
<1> QED
  BY <1>1 DEF Database, WorkspacesEvolve, WorkspacesShrink, Rewritten,
     WorkspaceDocument, NotCreated, Stored

LEMMA TitleStep ==
    ASSUME Database, Requests, NEW h \in TaskHandler, updateWorkspaceTitle(h)
    PROVE  WorkspacesEvolve /\ WorkspacesShrink
<1>1. \A w \in Workspace :
          \/ workspaces'[w] = workspaces[w]
          \/ /\ Stored(workspaces, w)
             /\ workspaces'[w] = Written(workspaces[w], workspaces[w].formIds)
  BY DEF updateWorkspaceTitle
<1>2. \A w \in Workspace : workspaces[w].formIds \in SUBSET Form
  BY DEF Database, WorkspaceDocument
<1>3. \E u : workspaces' = [w \in Workspace |-> u[w]]
  BY DEF updateWorkspaceTitle
<1> QED
  BY <1>1, <1>2, <1>3, WrittenDocument
     DEF WorkspacesEvolve, WorkspacesShrink, Rewritten, Stored, Database

LEMMA RemoveStep ==
    ASSUME Database, Requests, NEW h \in TaskHandler, removeFormIdsFromAllWorkspaces(h)
    PROVE  WorkspacesEvolve /\ WorkspacesShrink
<1>1. CASE UNCHANGED workspaces
  BY <1>1 DEF WorkspacesEvolve, WorkspacesShrink, Database
<1>2. CASE \E w \in task[h].todo :
            /\ Stored(workspaces, w)
            /\ workspaces' = [workspaces EXCEPT
                 ![w] = Written(@, @.formIds \ task[h].formIds)]
  <2>1. PICK w \in task[h].todo :
            /\ Stored(workspaces, w)
            /\ workspaces' = [workspaces EXCEPT
                 ![w] = Written(@, @.formIds \ task[h].formIds)]
    BY <1>2
  <2>2. w \in Workspace /\ workspaces[w].formIds \ task[h].formIds \in SUBSET Form
    BY DEF Requests, Task, Database, WorkspaceDocument
  <2>3. workspaces' = [workspaces EXCEPT
            ![w] = Written(workspaces[w], workspaces[w].formIds \ task[h].formIds)]
    BY <2>1, <2>2 DEF Database
  <2>4. /\ workspaces' \in [Workspace -> WorkspaceDocument]
        /\ \A v \in Workspace \ {w} : workspaces'[v] = workspaces[v]
        /\ workspaces'[w] =
              Written(workspaces[w], workspaces[w].formIds \ task[h].formIds)
    BY <2>1, <2>2, <2>3, WrittenDocument DEF Database
  <2> QED
    BY <2>1, <2>2, <2>4, WrittenDocument
       DEF WorkspacesEvolve, WorkspacesShrink, Rewritten, Stored
<1> QED
  BY <1>1, <1>2 DEF removeFormIdsFromAllWorkspaces

LEMMA SavedFormType ==
    ASSUME Database, NEW f \in Form, NEW u \in User \cup {NoUser},
           NEW isArchived \in BOOLEAN
    PROVE  /\ SavedForm(u, isArchived, forms[f]) \in FormDocument
           /\ SavedForm(u, isArchived, forms[f]).owner = u
           /\ forms[f].updates < SavedForm(u, isArchived, forms[f]).updates
<1>1. forms[f].updates \in Nat
  BY DEF Database, FormDocument
<1> QED
  BY <1>1 DEF SavedForm, FormDocument

LEMMA ArchivedForms ==
    ASSUME Database, NEW F \in SUBSET Created,
           forms' = Archived(F)
    PROVE  FormsEvolve
<1>1. \A f \in Form : f \in F \/ forms'[f] = forms[f]
  BY DEF Archived
<1>2. ASSUME NEW f \in F
      PROVE  /\ forms'[f] \in FormDocument /\ forms'[f].owner # NoUser
             /\ forms[f].updates < forms'[f].updates
  <2>1. /\ forms'[f] = SavedForm(forms[f].owner, TRUE, forms[f])
        /\ f \in Form /\ forms[f].owner # NoUser
        /\ forms[f].owner \in User \cup {NoUser}
    BY DEF Archived, Created, Database, FormDocument
  <2> QED
    BY <2>1, SavedFormType
<1>3. \A f \in Form : forms[f] \in FormDocument
  BY DEF Database
<1>4. \A f \in Form : forms'[f] \in FormDocument
  BY <1>1, <1>2, <1>3
<1>5. forms' = [f \in Form |-> forms'[f]]
  BY DEF Archived
<1>6. forms' \in [Form -> FormDocument]
  BY <1>4, <1>5
<1> QED
  BY <1>1, <1>2, <1>6 DEF FormsEvolve

LEMMA TransferStep ==
    ASSUME Database, NEW f \in Form, NEW u \in User,
           transferOwner(f, u)
    PROVE  FormsEvolve
<1>1. forms' = [forms EXCEPT ![f] = SavedForm(u, forms[f].archived, forms[f])]
  BY DEF transferOwner, Database
<1>2. forms[f].archived \in BOOLEAN /\ u # NoUser
  BY WorkspaceAssumption DEF Database, FormDocument
<1>3. /\ forms' \in [Form -> FormDocument]
      /\ forms'[f] = SavedForm(u, forms[f].archived, forms[f])
      /\ \A g \in Form \ {f} : forms'[g] = forms[g]
  BY <1>1, <1>2, SavedFormType DEF Database
<1> QED
  BY <1>2, <1>3, SavedFormType DEF FormsEvolve

LEMMA MoveStep ==
    ASSUME Database, Requests, NEW h \in TaskHandler, moveForms(h)
    PROVE  WorkspacesEvolve
<1>1. \A w \in Workspace : IF w \in Writes(h)
          THEN workspaces'[w] = Written(workspaces[w], Moved(h, w))
          ELSE workspaces'[w] = workspaces[w]
  BY DEF moveForms
<1>2. \A w \in Workspace : workspaces[w].formIds \in SUBSET Form
                              /\ task[h].formIds \in SUBSET Form
  BY DEF Database, WorkspaceDocument, Requests, Task
<1>3. \A w \in Workspace : Moved(h, w) \in SUBSET Form
  BY <1>2 DEF Moved
<1>4. \A w \in Workspace : w \in Writes(h) => Stored(workspaces, w)
  BY WritesStored DEF moveForms, Commits
<1>5. \A w \in Workspace :
          \/ workspaces'[w] = workspaces[w]
          \/ Rewritten(w) /\ workspaces'[w] \in WorkspaceDocument
  BY <1>1, <1>3, <1>4, WrittenDocument DEF Rewritten, Stored
<1>6. workspaces' = [w \in Workspace |-> workspaces'[w]]
  BY DEF moveForms
<1>7. \A w \in Workspace : workspaces'[w] \in WorkspaceDocument
  BY <1>5 DEF Database
<1> QED
  BY <1>5, <1>6, <1>7 DEF WorkspacesEvolve

LEMMA CreateFormStep ==
    ASSUME Database, Requests, NEW h \in TaskHandler,
           createFormInWorkspace(h)
    PROVE  WorkspacesEvolve /\ FormsEvolve
<1>1. \A w \in Workspace : IF w \in Writes(h)
          THEN workspaces'[w] =
                 Written(workspaces[w], workspaces[w].formIds \cup task[h].formIds)
          ELSE workspaces'[w] = workspaces[w]
  BY DEF createFormInWorkspace
<1>2. \A w \in Workspace : workspaces[w].formIds \in SUBSET Form
                              /\ task[h].formIds \in SUBSET Form
  BY DEF Database, WorkspaceDocument, Requests, Task
<1>3. \A w \in Workspace :
          workspaces[w].formIds \cup task[h].formIds \in SUBSET Form
  BY <1>2
<1>4. \A w \in Workspace : w \in Writes(h) => Stored(workspaces, w)
  BY WritesStored DEF createFormInWorkspace, Commits
<1>5. \A w \in Workspace :
          \/ workspaces'[w] = workspaces[w]
          \/ Rewritten(w) /\ workspaces'[w] \in WorkspaceDocument
  <2>1. ASSUME NEW w \in Workspace, w \in Writes(h)
        PROVE  Rewritten(w) /\ workspaces'[w] \in WorkspaceDocument
    <3> DEFINE F == workspaces[w].formIds \cup task[h].formIds
    <3>1. F \in SUBSET Form /\ Stored(workspaces, w)
             /\ workspaces'[w] = Written(workspaces[w], F)
      BY <2>1, <1>1, <1>3, <1>4
    <3> HIDE DEF F
    <3> QED
      BY <3>1, WrittenDocument DEF Rewritten, Stored
  <2> QED
    BY <1>1, <2>1
<1>6. workspaces' = [w \in Workspace |-> workspaces'[w]]
  BY DEF createFormInWorkspace
<1>7. \A w \in Workspace : workspaces'[w] \in WorkspaceDocument
  BY <1>5 DEF Database
<1>8. WorkspacesEvolve
  BY <1>5, <1>6, <1>7 DEF WorkspacesEvolve
<1>9. task[h].user \in User /\ \A f \in task[h].formIds : f \notin Created
  BY DEF createFormInWorkspace, Commits, TaskAt, Requests, WellNamed
<1>10. ASSUME NEW f \in task[h].formIds
       PROVE  /\ forms'[f] \in FormDocument /\ forms'[f].owner # NoUser
              /\ forms[f].updates < forms'[f].updates
  <2>1. f \in Form /\ forms[f] = NoForm
    BY <1>2, <1>9 DEF Database, Requests, Task
  <2>2. forms'[f] = SavedForm(task[h].user, FALSE, forms[f])
    BY <2>1 DEF createFormInWorkspace
  <2>3. task[h].user \in User \cup {NoUser} /\ task[h].user # NoUser
    BY <1>9, WorkspaceAssumption
  <2>4. f \in Form
    BY <2>1
  <2> QED
    BY <2>2, <2>3, <2>4, SavedFormType
<1>11. \A f \in Form : f \in task[h].formIds \/ forms'[f] = forms[f]
  BY DEF createFormInWorkspace
<1>12. forms' = [f \in Form |-> forms'[f]]
  BY DEF createFormInWorkspace
<1>13. \A f \in Form : forms'[f] \in FormDocument
  BY <1>10, <1>11 DEF Database
<1>14. forms' \in [Form -> FormDocument]
  BY <1>12, <1>13
<1> QED
  BY <1>8, <1>10, <1>11, <1>14 DEF FormsEvolve

LEMMA DeleteStep ==
    ASSUME Database, Requests, NEW h \in TaskHandler,
           deleteWorkspace(h)
    PROVE  WorkspacesEvolve /\ WorkspacesShrink /\ FormsEvolve
<1>1. \A w \in Workspace : IF w \in Writes(h)
          THEN workspaces'[w] = [Written(workspaces[w], {}) EXCEPT !.stored = "deleted"]
          ELSE workspaces'[w] = workspaces[w]
  BY DEF deleteWorkspace
<1>2. \A w \in Workspace : w \in Writes(h) => Stored(workspaces, w)
  BY WritesStored DEF deleteWorkspace, Commits
<1>3. ASSUME NEW w \in Workspace, w \in Writes(h)
      PROVE  /\ workspaces'[w] \in WorkspaceDocument /\ Rewritten(w)
             /\ workspaces'[w].formIds = {}
  <2>1. workspaces[w].updates \in Nat
    BY DEF Database, WorkspaceDocument
  <2>2. workspaces'[w] = [stored |-> "deleted", formIds |-> {},
                          updates |-> workspaces[w].updates + 1]
    BY <1>1, <1>3 DEF Written
  <2> QED
    BY <2>1, <2>2 DEF WorkspaceDocument, Rewritten, Stored
<1>4. workspaces' = [w \in Workspace |-> workspaces'[w]]
  BY DEF deleteWorkspace
<1>5. \A w \in Workspace : workspaces'[w] \in WorkspaceDocument
  BY <1>1, <1>3 DEF Database
<1>6. WorkspacesEvolve /\ WorkspacesShrink
  BY <1>1, <1>3, <1>4, <1>5 DEF WorkspacesEvolve, WorkspacesShrink
<1>7. task[h].formIds \in SUBSET Created
  BY DEF deleteWorkspace, Commits, TaskAt, Requests, WellNamed
<1>8. FormsEvolve
  BY <1>7, ArchivedForms DEF deleteWorkspace
<1> QED
  BY <1>6, <1>8

LEMMA ArchiveStep ==
    ASSUME Database, Requests, NEW h \in TaskHandler,
           archiveForm(h)
    PROVE  FormsEvolve
<1>1. task[h].formIds \in SUBSET Created
  BY DEF Requests, WellNamed, archiveForm, TaskAt
<1> QED
  BY <1>1, ArchivedForms DEF archiveForm

-----------------------------------------------------------------------------
(* How a step changes the requests.                                         *)

Only(h) == \A g \in TaskHandler \ {h} : task'[g] = task[g]

Ends(h) == task'[h] = NoTask

\* A new request names what it may name.
Received(h) ==
    /\ UNCHANGED <<workspaces, forms>>
    /\ task'[h].pc \in {"title", "archive", "remove", "begin"}
    /\ task'[h].pc \in {"archive", "remove"} => task'[h].op \in {"archive", "remove"}
    /\ task'[h].user \in User
    /\ task'[h].op \in {"title", "move", "delete", "deleteWithForms", "create"}
          => \A v, w \in task'[h].todo : v = w
    /\ task'[h].op = "move"
          => \A w \in task'[h].todo : AdminOf[w] = task'[h].user
    /\ task'[h].op # "create" => task'[h].formIds \subseteq Created
    /\ task'[h].op = "create"
          => \A f \in task'[h].formIds :
                f \notin Created /\ \A g \in TaskHandler : f \notin task[g].formIds

\* It goes on outside of a transaction.
Goes(h) ==
    /\ task[h].pc # "idle"
    /\ task'[h].pc \in {"begin", "remove"}
    /\ task'[h].pc = "remove" => task[h].op \in {"archive", "remove"}
    /\ task'[h].op = task[h].op /\ task'[h].user = task[h].user
    /\ task'[h].formIds = task[h].formIds
    /\ task'[h].todo = task[h].todo \/ task[h].op \in {"archive", "remove"}

Begins(h) ==
    /\ UNCHANGED <<workspaces, forms>>
    /\ task[h].pc = "begin"
    /\ task'[h].pc = IF task[h].op = "deleteWithForms" THEN "find" ELSE "commit"
    /\ task'[h].op = task[h].op /\ task'[h].user = task[h].user
    /\ task'[h].formIds = task[h].formIds /\ task'[h].todo = task[h].todo
    /\ task'[h].view.workspaces = workspaces /\ task'[h].view.forms = forms

Finds(h) ==
    /\ UNCHANGED <<workspaces, forms>>
    /\ task[h].pc = "find" /\ task'[h].pc = "commit"
    /\ task'[h].op = task[h].op /\ task'[h].user = task[h].user
    /\ \E read \in Returned : task'[h].formIds = CanBeArchived(h, read)
    /\ task'[h].todo = task[h].todo /\ task'[h].view = task[h].view

Advances(h) ==
    /\ task' \in [TaskHandler -> Task]
    /\ Only(h)
    /\ Ends(h) \/ Received(h) \/ Goes(h) \/ Begins(h) \/ Finds(h)
    /\ tasks' \in 0 .. MaxTasks /\ aborted' \in 0 .. MaxAborts

LEMMA EndsAdvance ==
    ASSUME Requests, NEW h \in TaskHandler, EndTask(h), UNCHANGED <<tasks, aborted>>
    PROVE  Advances(h)
  BY IdleIsTask DEF Requests, EndTask, Advances, Only, Ends

LEMMA FailsAdvance ==
    ASSUME Requests, NEW h \in TaskHandler, TaskFails(h)
    PROVE  Advances(h)
<1>1. task' = [task EXCEPT ![h] = NoTask] /\ aborted' \in 0 .. MaxAborts
         /\ UNCHANGED tasks
  BY WorkspaceAssumption DEF Requests, TaskFails, EndTask
<1> QED
  BY <1>1, IdleIsTask DEF Requests, Advances, Only, Ends

LEMMA BeginAdvances ==
    ASSUME Requests, NEW h \in TaskHandler, NEW op \in Operation,
           NEW u \in User, NEW todo \in SUBSET Workspace, NEW F \in SUBSET Form,
           NEW step \in {"title", "archive", "remove", "begin"},
           Begin(h, op, u, todo, F, step),
           step \in {"archive", "remove"} => op \in {"archive", "remove"},
           op \in {"title", "move", "delete", "deleteWithForms", "create"}
              => \A v, w \in todo : v = w,
           op = "move" => \A w \in todo : AdminOf[w] = u,
           op # "create" => F \subseteq Created,
           op = "create" => \A f \in F :
               f \notin Created /\ \A g \in TaskHandler : f \notin task[g].formIds
    PROVE  Advances(h) /\ UNCHANGED <<workspaces, forms>>
<1> DEFINE r == [pc |-> step, op |-> op, user |-> u, todo |-> todo, formIds |-> F,
                 view |-> NoView]
<1>1. r \in Task
  BY IdleIsTask DEF Task
<1>2. task' = [task EXCEPT ![h] = r] /\ UNCHANGED <<workspaces, forms, aborted>>
         /\ tasks' \in 0 .. MaxTasks
  BY WorkspaceAssumption DEF Begin, Requests
<1>3. /\ r.pc = step /\ r.op = op /\ r.user = u /\ r.todo = todo /\ r.formIds = F
  OBVIOUS
<1> HIDE DEF r
<1>4. /\ task' \in [TaskHandler -> Task] /\ task'[h] = r /\ Only(h)
  BY <1>1, <1>2 DEF Requests, Only
<1>5. Received(h)
  BY <1>2, <1>3, <1>4 DEF Received
<1> QED
  BY <1>2, <1>4, <1>5 DEF Advances, Requests

LEMMA ReceiveAdvances ==
    ASSUME Database, Requests, NEW h \in TaskHandler, ReceiveTask(h)
    PROVE  Advances(h) /\ UNCHANGED <<workspaces, forms>>
<1>1. PICK u \in User : \/ BeginOnWorkspace(h, u)
                        \/ BeginCreate(h, u)
                        \/ BeginArchive(h, u)
                        \/ BeginRemove(h, u)
  BY DEF ReceiveTask
<1>2. /\ {"title", "move", "delete", "deleteWithForms", "create", "archive",
          "remove"} \subseteq Operation
      /\ Created \subseteq Form
      /\ \A w \in Of(workspaces, u) : w \in Workspace /\ AdminOf[w] = u
  BY DEF Operation, Created, Of
<1>3. CASE BeginOnWorkspace(h, u)
  <2>1. PICK w \in Of(workspaces, u) :
            \/ Begin(h, "title", u, {w}, {}, "title")
            \/ \E F \in SUBSET Created : Begin(h, "move", u, {w}, F, "begin")
            \/ \E op \in {"delete", "deleteWithForms"} :
                  Begin(h, op, u, {w}, {}, "begin")
    BY <1>3 DEF BeginOnWorkspace
  <2>2. w \in Workspace /\ AdminOf[w] = u
    BY <1>2
  <2>3. CASE Begin(h, "title", u, {w}, {}, "title")
    BY <1>2, <2>2, <2>3, BeginAdvances
  <2>4. CASE \E F \in SUBSET Created : Begin(h, "move", u, {w}, F, "begin")
    <3>1. PICK F \in SUBSET Created : Begin(h, "move", u, {w}, F, "begin")
      BY <2>4
    <3> QED
      BY <1>2, <2>2, <3>1, BeginAdvances
  <2>5. CASE \E op \in {"delete", "deleteWithForms"} :
                Begin(h, op, u, {w}, {}, "begin")
    <3>1. PICK op \in {"delete", "deleteWithForms"} :
              Begin(h, op, u, {w}, {}, "begin")
      BY <2>5
    <3> QED
      BY <1>2, <2>2, <3>1, BeginAdvances
  <2> QED
    BY <2>1, <2>3, <2>4, <2>5
<1>4. CASE BeginCreate(h, u)
  <2>1. PICK w \in Workspace, f \in Form \ Created :
            /\ \A g \in TaskHandler : f \notin task[g].formIds
            /\ Begin(h, "create", u, {w}, {f}, "begin")
    BY <1>4 DEF BeginCreate
  <2> QED
    BY <1>2, <2>1, BeginAdvances
<1>5. CASE BeginArchive(h, u)
  <2>1. PICK f \in Created : Begin(h, "archive", u, {}, {f}, "archive")
    BY <1>5 DEF BeginArchive
  <2> QED
    BY <1>2, <2>1, BeginAdvances
<1>6. CASE BeginRemove(h, u)
  <2>1. PICK F \in SUBSET Created :
            Begin(h, "remove", u, Of(workspaces, u), F, "remove")
    BY <1>6 DEF BeginRemove
  <2>2. Of(workspaces, u) \in SUBSET Workspace /\ F \in SUBSET Form
    BY <1>2, <2>1
  <2> QED
    BY <1>2, <2>1, <2>2, BeginAdvances
<1> QED
  BY <1>1, <1>3, <1>4, <1>5, <1>6

\* A handler whose task is changed in some fields.
LEMMA TaskFields ==
    ASSUME Requests, NEW h \in TaskHandler
    PROVE  /\ task[h] \in Task
           /\ \A r : task' = [task EXCEPT ![h] = r] =>
                 /\ task'[h] = r /\ Only(h)
                 /\ r \in Task => task' \in [TaskHandler -> Task]
  BY DEF Requests, Only

LEMMA RetryAdvances ==
    ASSUME Requests, NEW h \in TaskHandler, RetryTransaction(h)
    PROVE  Advances(h)
<1> DEFINE r == [task[h] EXCEPT !.pc = "begin"]
<1>1. task' = [task EXCEPT ![h] = r] /\ task[h].pc = "commit"
         /\ UNCHANGED <<tasks, aborted>>
  BY DEF RetryTransaction, TaskNext, TaskAt
<1>2. task[h] \in Task
  BY TaskFields
<1>3. /\ r \in Task /\ r.pc = "begin" /\ r.op = task[h].op
      /\ r.user = task[h].user /\ r.formIds = task[h].formIds
      /\ r.todo = task[h].todo
  BY <1>2 DEF Task
<1> HIDE DEF r
<1>4. task'[h] = r /\ Only(h) /\ task' \in [TaskHandler -> Task]
  BY <1>1, <1>3, TaskFields
<1>5. Goes(h)
  BY <1>1, <1>3, <1>4 DEF Goes
<1> QED
  BY <1>1, <1>4, <1>5 DEF Advances, Requests

LEMMA ArchiveAdvances ==
    ASSUME Requests, NEW h \in TaskHandler, archiveForm(h)
    PROVE  Advances(h)
<1> DEFINE r == [task[h] EXCEPT !.pc = "remove", !.todo = Of(workspaces, task[h].user)]
<1>1. task' = [task EXCEPT ![h] = r] /\ task[h].pc = "archive"
         /\ UNCHANGED <<tasks, aborted>>
  BY TaskFields DEF archiveForm, TaskAt, Requests
<1>2. task[h] \in Task /\ Of(workspaces, task[h].user) \in SUBSET Workspace
  BY TaskFields DEF Of
<1>3. /\ r \in Task /\ r.pc = "remove" /\ r.op = task[h].op
      /\ r.user = task[h].user /\ r.formIds = task[h].formIds
  BY <1>2 DEF Task
<1> HIDE DEF r
<1>4. task'[h] = r /\ Only(h) /\ task' \in [TaskHandler -> Task]
  BY <1>1, <1>3, TaskFields
<1>5. task[h].op \in {"archive", "remove"}
  BY <1>1 DEF Requests, WellNamed
<1>6. Goes(h)
  BY <1>1, <1>3, <1>4, <1>5 DEF Goes
<1> QED
  BY <1>1, <1>4, <1>6 DEF Advances, Requests

LEMMA RemoveAdvances ==
    ASSUME Requests, NEW h \in TaskHandler, removeFormIdsFromAllWorkspaces(h)
    PROVE  Advances(h)
<1>1. task[h].pc = "remove" /\ UNCHANGED <<tasks, aborted>>
  BY DEF removeFormIdsFromAllWorkspaces, TaskAt
<1>2. CASE EndTask(h)
  BY <1>1, <1>2, EndsAdvance
<1>3. CASE \E w \in task[h].todo : task' = [task EXCEPT ![h].todo = @ \ {w}]
  <2>1. PICK w \in task[h].todo : task' = [task EXCEPT ![h].todo = @ \ {w}]
    BY <1>3
  <2> DEFINE r == [task[h] EXCEPT !.todo = task[h].todo \ {w}]
  <2>2. task' = [task EXCEPT ![h] = r]
    BY <2>1 DEF Requests
  <2>3. task[h] \in Task
    BY TaskFields
  <2>4. /\ r \in Task /\ r.pc = "remove" /\ r.op = task[h].op
        /\ r.user = task[h].user /\ r.formIds = task[h].formIds
    BY <1>1, <2>3 DEF Task
  <2> HIDE DEF r
  <2>5. task'[h] = r /\ Only(h) /\ task' \in [TaskHandler -> Task]
    BY <2>2, <2>4, TaskFields
  <2>6. task[h].op \in {"archive", "remove"}
    BY <1>1 DEF Requests, WellNamed
  <2>7. Goes(h)
    BY <1>1, <2>4, <2>5, <2>6 DEF Goes
  <2> QED
    BY <1>1, <2>5, <2>7 DEF Advances, Requests
<1> QED
  BY <1>2, <1>3 DEF removeFormIdsFromAllWorkspaces

LEMMA BeginTransactionAdvances ==
    ASSUME Database, Requests, NEW h \in TaskHandler, BeginTransaction(h)
    PROVE  Advances(h) /\ UNCHANGED <<workspaces, forms>>
<1> DEFINE v == [workspaces |-> workspaces, forms |-> forms]
           step == IF task[h].op = "deleteWithForms" THEN "find" ELSE "commit"
           r == [task[h] EXCEPT !.pc = step, !.view = v]
<1>1. task' = [task EXCEPT ![h] = r] /\ task[h].pc = "begin"
         /\ UNCHANGED <<workspaces, forms, tasks, aborted>>
  BY TaskFields DEF BeginTransaction, TaskAt, Requests
<1>2. task[h] \in Task /\ v \in View /\ step \in {"find", "commit"}
  BY TaskFields DEF View, Database
<1>3. v.workspaces = workspaces /\ v.forms = forms
  OBVIOUS
<1> HIDE DEF v
<1>4. /\ r \in Task /\ r.pc = step /\ r.op = task[h].op
      /\ r.user = task[h].user /\ r.formIds = task[h].formIds
      /\ r.todo = task[h].todo /\ r.view = v
  BY <1>2 DEF Task
<1> HIDE DEF r
<1>5. task'[h] = r /\ Only(h) /\ task' \in [TaskHandler -> Task]
  BY <1>1, <1>4, TaskFields
<1>6. Begins(h)
  BY <1>1, <1>3, <1>4, <1>5 DEF Begins
<1> QED
  BY <1>1, <1>5, <1>6 DEF Advances, Requests

LEMMA FindAdvances ==
    ASSUME Database, Requests, NEW h \in TaskHandler, FindForms(h)
    PROVE  Advances(h) /\ UNCHANGED <<workspaces, forms>>
<1>0. PICK read \in Returned :
         task' = [task EXCEPT ![h].pc = "commit",
                              ![h].formIds = CanBeArchived(h, read)]
  BY DEF FindForms
<1> DEFINE F == CanBeArchived(h, read)
           r == [task[h] EXCEPT !.pc = "commit", !.formIds = F]
<1>1. task' = [task EXCEPT ![h] = r] /\ task[h].pc = "find"
         /\ UNCHANGED <<workspaces, forms, tasks, aborted>>
  BY <1>0, TaskFields DEF FindForms, TaskAt, Requests
<1>2. task[h] \in Task /\ F \in SUBSET Form
  BY TaskFields DEF CanBeArchived, InWorkspace
<1>3. F = CanBeArchived(h, read)
  OBVIOUS
<1> HIDE DEF F
<1>4. /\ r \in Task /\ r.pc = "commit" /\ r.op = task[h].op
      /\ r.user = task[h].user /\ r.formIds = F
      /\ r.todo = task[h].todo /\ r.view = task[h].view
  BY <1>2 DEF Task
<1> HIDE DEF r
<1>5. task'[h] = r /\ Only(h) /\ task' \in [TaskHandler -> Task]
  BY <1>1, <1>4, TaskFields
<1>6. Finds(h)
  BY <1>1, <1>3, <1>4, <1>5 DEF Finds
<1> QED
  BY <1>1, <1>5, <1>6 DEF Advances, Requests

-----------------------------------------------------------------------------
(* What every step does.                                                    *)

Waits == UNCHANGED task /\ tasks' \in 0 .. MaxTasks /\ aborted' \in 0 .. MaxAborts

LEMMA Unchanged ==
    ASSUME Database
    PROVE  /\ UNCHANGED workspaces => WorkspacesEvolve /\ WorkspacesShrink
           /\ UNCHANGED forms => FormsEvolve
  BY DEF Database, WorkspacesEvolve, WorkspacesShrink, FormsEvolve

\* Forms are added by a move or a creation only, and created by a creation.
Adds(h) == moveForms(h) \/ createFormInWorkspace(h)

LEMMA Steps ==
    ASSUME Database, Requests, [WorkspaceNext]_workspaceVars
    PROVE  /\ WorkspacesEvolve /\ FormsEvolve
           /\ Waits \/ \E h \in TaskHandler : Advances(h)
           /\ WorkspacesShrink \/ \E h \in TaskHandler : Adds(h)
<1>1. CASE UNCHANGED workspaceVars
  BY <1>1, Unchanged DEF workspaceVars, Waits, Requests
<1>2. ASSUME NEW w \in Workspace, createWorkspace(w)
      PROVE  WorkspacesEvolve /\ FormsEvolve /\ Waits /\ WorkspacesShrink
  BY <1>2, CreateWorkspaceStep, Unchanged DEF createWorkspace, Waits, Requests
<1>3. ASSUME NEW f \in Form, NEW u \in User, transferOwner(f, u)
      PROVE  WorkspacesEvolve /\ FormsEvolve /\ Waits /\ WorkspacesShrink
  <2>1. tasks' \in 0 .. MaxTasks /\ UNCHANGED <<workspaces, task, aborted>>
    BY <1>3, WorkspaceAssumption DEF transferOwner, Requests
  <2> QED
    BY <1>3, <2>1, TransferStep, Unchanged DEF Waits, Requests
<1>4. ASSUME NEW h \in TaskHandler,
             \/ ReceiveTask(h) \/ BeginTransaction(h) \/ FindForms(h)
             \/ RetryTransaction(h) \/ TaskFails(h)
      PROVE  WorkspacesEvolve /\ FormsEvolve /\ Advances(h) /\ WorkspacesShrink
  <2>1. Advances(h) /\ UNCHANGED <<workspaces, forms>>
    BY <1>4, ReceiveAdvances, BeginTransactionAdvances, FindAdvances,
       RetryAdvances, FailsAdvance DEF RetryTransaction, TaskFails
  <2> QED
    BY <2>1, Unchanged
<1>5. ASSUME NEW h \in TaskHandler, updateWorkspaceTitle(h)
      PROVE  WorkspacesEvolve /\ FormsEvolve /\ Advances(h) /\ WorkspacesShrink
  BY <1>5, TitleStep, EndsAdvance, Unchanged DEF updateWorkspaceTitle
<1>6. ASSUME NEW h \in TaskHandler, archiveForm(h)
      PROVE  WorkspacesEvolve /\ FormsEvolve /\ Advances(h) /\ WorkspacesShrink
  BY <1>6, ArchiveStep, ArchiveAdvances, Unchanged DEF archiveForm
<1>7. ASSUME NEW h \in TaskHandler, removeFormIdsFromAllWorkspaces(h)
      PROVE  WorkspacesEvolve /\ FormsEvolve /\ Advances(h) /\ WorkspacesShrink
  BY <1>7, RemoveStep, RemoveAdvances, Unchanged
     DEF removeFormIdsFromAllWorkspaces
<1>8. ASSUME NEW h \in TaskHandler, moveForms(h)
      PROVE  WorkspacesEvolve /\ FormsEvolve /\ Advances(h) /\ Adds(h)
  BY <1>8, MoveStep, EndsAdvance, Unchanged DEF moveForms, Commits, Adds
<1>9. ASSUME NEW h \in TaskHandler, createFormInWorkspace(h)
      PROVE  WorkspacesEvolve /\ FormsEvolve /\ Advances(h) /\ Adds(h)
  BY <1>9, CreateFormStep, EndsAdvance DEF createFormInWorkspace, Commits, Adds
<1>10. ASSUME NEW h \in TaskHandler, deleteWorkspace(h)
       PROVE  WorkspacesEvolve /\ FormsEvolve /\ Advances(h) /\ WorkspacesShrink
  BY <1>10, DeleteStep, EndsAdvance DEF deleteWorkspace, Commits
<1> QED
  BY <1>1, <1>2, <1>3, <1>4, <1>5, <1>6, <1>7, <1>8, <1>9, <1>10 DEF
     WorkspaceNext, Work

LEMMA NewForms ==
    ASSUME Database, Requests, [WorkspaceNext]_workspaceVars
    PROVE  /\ Created \subseteq Created'
           /\ \A f \in Created' \ Created : \E h \in TaskHandler :
                 task[h].op = "create" /\ f \in task[h].formIds /\ task'[h] = NoTask
<1>1. FormsEvolve
  BY Steps
<1>2. Created \subseteq Created'
  BY <1>1 DEF FormsEvolve, Created
<1>3. CASE Created' = Created
  BY <1>2, <1>3
<1>4. CASE UNCHANGED forms
  BY <1>4, <1>3 DEF Created
<1>5. ASSUME NEW h \in TaskHandler, createFormInWorkspace(h)
      PROVE  \A f \in Created' \ Created :
                 task[h].op = "create" /\ f \in task[h].formIds /\ task'[h] = NoTask
  <2>1. task[h].op = "create" /\ task'[h] = NoTask
    BY <1>5 DEF createFormInWorkspace, Commits, EndTask, Requests
  <2>2. \A f \in Form \ task[h].formIds : forms'[f] = forms[f]
    BY <1>5 DEF createFormInWorkspace
  <2> QED
    BY <2>1, <2>2 DEF Created
<1>6. ASSUME NEW F, forms' = Archived(F)
      PROVE  Created' = Created
  <2>1. \A f \in Form : forms'[f].owner = forms[f].owner
    BY <1>6 DEF Archived, SavedForm
  <2> QED
    BY <2>1 DEF Created
<1>7. ASSUME NEW f \in Form, NEW u \in User, transferOwner(f, u)
      PROVE  Created' = Created
  <2>1. /\ \A g \in Form \ {f} : forms'[g] = forms[g]
        /\ f \in Created
    BY <1>7 DEF transferOwner, Database
  <2> QED
    BY <1>2, <2>1 DEF Created
<1>8. \/ UNCHANGED forms
      \/ \E F : forms' = Archived(F)
      \/ \E f \in Form, u \in User : transferOwner(f, u)
      \/ \E h \in TaskHandler : createFormInWorkspace(h)
  BY DEF WorkspaceNext, Work, workspaceVars, createWorkspace, ReceiveTask,
     BeginOnWorkspace, Begin, BeginCreate, BeginArchive, BeginRemove,
     updateWorkspaceTitle, archiveForm, removeFormIdsFromAllWorkspaces,
     BeginTransaction, FindForms, RetryTransaction, moveForms, deleteWorkspace,
     TaskFails
<1> QED
  BY <1>2, <1>3, <1>4, <1>5, <1>6, <1>7, <1>8

\* A node has what is written, at once or later; before that, what was.
LEMMA ReplicasNext ==
    ASSUME Database, [WorkspaceNext]_workspaceVars
    PROVE  ReplicasEvolve
<1>1. CASE WorkspaceNext
  BY <1>1 DEF WorkspaceNext, ReplicasEvolve
<1>2. CASE UNCHANGED workspaceVars
  <2>1. replicas' = replicas /\ forms' = forms
    BY <1>2 DEF workspaceVars
  <2>2. \A f \in Form : replicas[f] = replicas[f] \cup {forms'[f]}
    BY <2>1 DEF Database, Lagging
  <2>3. replicas = [f \in Form |-> replicas[f]]
    BY DEF Database, Lagging
  <2> QED
    BY <2>1, <2>2, <2>3 DEF ReplicasEvolve
<1> QED
  BY <1>1, <1>2

LEMMA LaggingNext ==
    ASSUME Database, FormsEvolve, ReplicasEvolve PROVE Lagging'
<1>1. ASSUME NEW f \in Form
      PROVE  /\ replicas'[f] = replicas[f] \cup {forms'[f]}
             /\ forms'[f] \in FormDocument /\ replicas[f] \subseteq FormDocument
             /\ \A d \in replicas[f] : d.updates \in Nat
             /\ forms[f].updates \in Nat /\ forms'[f].updates \in Nat
             /\ forms[f].updates <= forms'[f].updates
  <2>1. /\ replicas'[f] = replicas[f] \cup {forms'[f]}
        /\ forms'[f] \in FormDocument /\ replicas[f] \subseteq FormDocument
        /\ forms[f] \in FormDocument
    BY DEF ReplicasEvolve, FormsEvolve, Database, Lagging
  <2>2. /\ \A d \in replicas[f] : d.updates \in Nat
        /\ forms[f].updates \in Nat /\ forms'[f].updates \in Nat
    BY <2>1 DEF FormDocument
  <2>3. forms[f].updates <= forms'[f].updates
    BY <2>2 DEF FormsEvolve
  <2> QED
    BY <2>1, <2>2, <2>3
<1>2. replicas' \in [Form -> SUBSET FormDocument]
  BY <1>1 DEF ReplicasEvolve
<1>3. ASSUME NEW f \in Form, NEW d \in replicas'[f]
      PROVE  d.updates <= forms'[f].updates
  <2>1. CASE d \in replicas[f]
    <3>1. d.updates <= forms[f].updates
      BY <2>1 DEF Database, Lagging
    <3> QED
      BY <1>1, <2>1, <3>1
  <2>2. CASE d = forms'[f]
    BY <1>1, <2>2
  <2> QED
    BY <1>1, <1>3, <2>1, <2>2
<1>4. ASSUME NEW f \in Form, forms'[f].owner = NoUser
      PROVE  replicas'[f] = {NoForm}
  <2>1. forms'[f] = forms[f]
    BY <1>4 DEF FormsEvolve
  <2>2. f \notin Created
    BY <1>4, <2>1 DEF Created
  <2> QED
    BY <1>1, <2>1, <2>2 DEF Database, Lagging
<1>5. \A f \in Form \ Created' : replicas'[f] = {NoForm}
  BY <1>4 DEF Created
<1>6. \A f \in Form : forms'[f] \in replicas'[f]
  BY <1>1
<1> QED
  BY <1>2, <1>3, <1>5, <1>6 DEF Lagging

LEMMA DatabaseNext ==
    ASSUME Database, WorkspacesEvolve, FormsEvolve, ReplicasEvolve
    PROVE  Database'
<1>1. \A w \in Workspace :
          /\ workspaces'[w].stored = "no" => workspaces'[w] = NotCreated
          /\ ~Stored(workspaces', w) => workspaces'[w].formIds = {}
  BY DEF WorkspacesEvolve, Database, Rewritten, Stored
<1>2. \A f \in Form \ Created' : forms'[f] = NoForm
  BY DEF FormsEvolve, Database, Created
<1>3. Lagging'
  BY LaggingNext
<1> QED
  BY <1>1, <1>2, <1>3 DEF Database, WorkspacesEvolve, FormsEvolve, Stored

\* The forms that are found have been created, and have been the user's.
LEMMA FoundForms ==
    ASSUME Database, NEW h \in TaskHandler, task[h].user \in User,
           NEW read \in Returned, NEW f \in CanBeArchived(h, read)
    PROVE  /\ f \in Form /\ f \in Created
           /\ read[f] \in replicas[f] /\ read[f].owner = task[h].user
<1>1. f \in Form /\ read[f].owner = task[h].user
  BY DEF CanBeArchived, InWorkspace
<1>2. read[f] \in replicas[f]
  BY <1>1 DEF Returned
<1>3. f \in Created
  <2>1. NoForm.owner = NoUser
    BY DEF NoForm
  <2> QED
    BY <1>1, <1>2, <2>1, WorkspaceAssumption DEF Database, Lagging
<1> QED
  BY <1>1, <1>2, <1>3

LEMMA NamedNext ==
    ASSUME Database, Requests, [WorkspaceNext]_workspaceVars,
           NEW h \in TaskHandler, Advances(h)
    PROVE  \A g \in TaskHandler : WellNamed(g)'
<1>1. Created \subseteq Created'
         /\ \A f \in Created' \ Created : \E k \in TaskHandler :
               task[k].op = "create" /\ f \in task[k].formIds /\ task'[k] = NoTask
  BY NewForms
<1>2. ASSUME NEW g \in TaskHandler, task'[g].op = "create", task[g].op = "create",
             task'[g].formIds = task[g].formIds, task'[g] # NoTask
      PROVE  \A f \in task'[g].formIds : f \notin Created'
  <2>1. \A f \in task[g].formIds : f \notin Created
    BY <1>2 DEF Requests, WellNamed
  <2>2. ASSUME NEW f \in task[g].formIds, f \in Created' \ Created PROVE FALSE
    <3>1. PICK k \in TaskHandler : task[k].op = "create" /\ f \in task[k].formIds
                                  /\ task'[k] = NoTask
      BY <2>2, <1>1
    <3>2. k # g
      BY <1>2, <3>1
    <3> QED
      BY <3>1, <3>2, <2>2, <1>2 DEF Requests, NewFormsUnknown
  <2> QED
    BY <1>2, <2>1, <2>2
<1>3. ASSUME NEW g \in TaskHandler, task'[g] = task[g] PROVE WellNamed(g)'
  <2>1. WellNamed(g)
    BY DEF Requests
  <2>2. CASE task[g].op # "create"
    BY <1>1, <1>3, <2>1, <2>2 DEF WellNamed
  <2>3. CASE task[g].op = "create"
    <3>1. task'[g] # NoTask
      BY <1>3, <2>3 DEF NoTask
    <3>2. \A f \in task'[g].formIds : f \notin Created'
      BY <1>2, <1>3, <2>3, <3>1
    <3> QED
      BY <1>3, <2>1, <2>3, <3>2 DEF WellNamed
  <2> QED
    BY <2>2, <2>3
<1>4. CASE Ends(h)
  BY <1>3, <1>4 DEF Ends, Advances, Only, NoTask, WellNamed
<1>5. CASE Received(h)
  <2>1. Created' = Created
    BY <1>5 DEF Received, Created
  <2>2. WellNamed(h)'
    BY <1>5, <2>1 DEF Received, WellNamed
  <2> QED
    BY <1>3, <2>2 DEF Advances, Only
<1>6. CASE Goes(h)
  <2>1. WellNamed(h) /\ task'[h] # NoTask
    BY <1>6 DEF Requests, Goes, NoTask
  <2>2. task[h].op = "create" => \A f \in task'[h].formIds : f \notin Created'
    BY <1>2, <1>6, <2>1 DEF Goes
  <2>3. WellNamed(h)'
    BY <1>1, <1>6, <2>1, <2>2 DEF Goes, WellNamed
  <2> QED
    BY <1>3, <2>3 DEF Advances, Only
<1>7. CASE Begins(h)
  <2>1. Created' = Created /\ WellNamed(h)
    BY <1>7 DEF Begins, Created, Requests
  <2>2. WellNamed(h)'
    BY <1>7, <2>1 DEF Begins, WellNamed
  <2> QED
    BY <1>3, <2>2 DEF Advances, Only
<1>8. CASE Finds(h)
  <2>1. Created' = Created /\ WellNamed(h)
    BY <1>8 DEF Finds, Created, Requests
  <2>2. task[h].user \in User /\ task[h].op = "deleteWithForms"
    BY <1>8, <2>1 DEF Finds, WellNamed
  <2>3. task'[h].formIds \subseteq Created
    BY <1>8, <2>2, FoundForms DEF Finds
  <2>4. WellNamed(h)'
    BY <1>8, <2>1, <2>2, <2>3 DEF Finds, WellNamed
  <2> QED
    BY <1>3, <2>4 DEF Advances, Only
<1> QED
  BY <1>4, <1>5, <1>6, <1>7, <1>8 DEF Advances

LEMMA UnknownNext ==
    ASSUME Database, Requests, NEW h \in TaskHandler, Advances(h)
    PROVE  NewFormsUnknown'
<1> SUFFICES ASSUME NEW i \in TaskHandler, NEW k \in TaskHandler, i # k,
                    task'[k].op = "create"
             PROVE  task'[i].formIds \cap task'[k].formIds = {}
  BY DEF NewFormsUnknown
<1>1. \A g \in TaskHandler \ {h} : task'[g] = task[g]
  BY DEF Advances, Only
<1>2. \A g \in TaskHandler : task[g].op # "create" => task[g].formIds \subseteq Created
  BY DEF Requests, WellNamed
<1>3. \A g \in TaskHandler : task[g].op = "create" =>
          \A f \in task[g].formIds : f \notin Created
  BY DEF Requests, WellNamed
<1>4. CASE i # h /\ k # h
  BY <1>1, <1>4 DEF Requests, NewFormsUnknown
<1>5. CASE task'[h].op = task[h].op /\ task'[h].formIds = task[h].formIds
  BY <1>1, <1>5 DEF Requests, NewFormsUnknown
<1>6. CASE Ends(h)
  BY <1>1, <1>4, <1>6 DEF Ends, NoTask
<1>7. CASE Received(h) /\ k = h
  BY <1>1, <1>7 DEF Received
<1>8. CASE Received(h) /\ i = h
  <2>1. task'[k] = task[k]
    BY <1>1, <1>8
  <2>2. CASE task'[h].op = "create"
    BY <1>8, <2>1, <2>2 DEF Received
  <2>3. CASE task'[h].op # "create"
    BY <1>3, <1>8, <2>1, <2>3 DEF Received
  <2> QED
    BY <2>2, <2>3
<1>9. CASE Finds(h)
  <2>1. task[h].user \in User /\ task[h].op = "deleteWithForms"
    BY <1>9 DEF Finds, Requests, WellNamed
  <2>2. task'[h].formIds \subseteq Created
    BY <1>9, <2>1, FoundForms DEF Finds
  <2>3. k # h /\ task'[k] = task[k]
    BY <1>1, <1>9, <2>1 DEF Finds
  <2> QED
    BY <1>3, <1>4, <1>9, <2>2, <2>3 DEF Finds
<1> QED
  BY <1>4, <1>5, <1>6, <1>7, <1>8, <1>9 DEF Advances, Goes, Begins

LEMMA TypesNext ==
    ASSUME Database, Requests, [WorkspaceNext]_workspaceVars
    PROVE  Database' /\ Requests'
<1>1. WorkspacesEvolve /\ FormsEvolve /\ (Waits \/ \E h \in TaskHandler : Advances(h))
  BY Steps
<1>2. Database'
  BY <1>1, DatabaseNext, ReplicasNext
<1>3. CASE \E h \in TaskHandler : Advances(h)
  <2>1. PICK h \in TaskHandler : Advances(h)
    BY <1>3
  <2> QED
    BY <1>2, <2>1, NamedNext, UnknownNext DEF Advances, Requests
<1>4. CASE Waits
  <2>1. NoTask.op = "none"
    BY DEF NoTask
  <2>2. Created' = Created
    BY <1>4, <2>1, NewForms DEF Waits
  <2> QED
    BY <1>2, <1>4, <2>2 DEF Waits, Requests, WellNamed, NewFormsUnknown
<1> QED
  BY <1>1, <1>2, <1>3, <1>4

\* Every variable keeps its type, and requests keep to what they may name.
THEOREM WorkspaceTypeCorrect == WorkspaceSpec => []WorkspaceTypeOK
<1>1. WorkspaceInit => Database /\ Requests
  BY FirstRequests
<1>2. Database /\ Requests /\ [WorkspaceNext]_workspaceVars => (Database /\ Requests)'
  BY TypesNext
<1>3. Database /\ Requests => WorkspaceTypeOK
  BY DEF Database, Lagging, Requests, WorkspaceTypeOK, Task
<1> QED
  BY <1>1, <1>2, <1>3, PTL DEF WorkspaceSpec

-----------------------------------------------------------------------------
(* What a transaction has seen, and what has been written since.            *)

InTransaction(h) == task[h].pc \in {"find", "commit"}

WorkspacesOf(h) == task[h].view.workspaces

FormsOf(h) == task[h].view.forms

ViewsPast ==
    \A h \in TaskHandler : InTransaction(h) =>
       /\ Since(WorkspacesOf(h), workspaces, Workspace)
       /\ Since(FormsOf(h), forms, Form)

\* Of two snapshots one is the older.
ViewsOrdered ==
    \A g, h \in TaskHandler : InTransaction(g) /\ InTransaction(h) =>
       \/ Since(WorkspacesOf(g), WorkspacesOf(h), Workspace)
       \/ Since(WorkspacesOf(h), WorkspacesOf(g), Workspace)

WorkspacesKnown == \A w \in Workspace : workspaces[w].formIds \subseteq Created

\* When one of its forms is in a workspace that a move does not see, whoever
\* brought it there has written the destination.
Noticed ==
    \A h \in TaskHandler : TaskAt(h, "commit") /\ task[h].op = "move" =>
       \A v \in Workspace, w \in Destination(h) :
          (/\ AdminOf[v] = task[h].user
           /\ ~Stored(WorkspacesOf(h), v)
           /\ workspaces[v].formIds \cap task[h].formIds # {})
             => WorkspacesOf(h)[w].updates < workspaces[w].updates

\* The forms that a deletion has found were the user's when it began or before,
\* or have been written since.
FoundOwned ==
    \A h \in TaskHandler : TaskAt(h, "commit") /\ task[h].op = "deleteWithForms" =>
       \A f \in task[h].formIds :
          \/ FormsOf(h)[f].updates < forms[f].updates
          \/ \E d \in replicas[f] : /\ d.owner = task[h].user
                                   /\ d.updates <= FormsOf(h)[f].updates

Types == Database /\ Requests

LEMMA SinceNext ==
    ASSUME Database, WorkspacesEvolve, FormsEvolve
    PROVE  Since(workspaces, workspaces', Workspace) /\ Since(forms, forms', Form)
<1>1. \A w \in Workspace : workspaces[w].updates \in Nat
  BY DEF Database, WorkspaceDocument
<1> QED
  BY <1>1 DEF WorkspacesEvolve, FormsEvolve, Since, Rewritten

LEMMA Numbers ==
    ASSUME Types, NEW h \in TaskHandler
    PROVE  /\ \A w \in Workspace : /\ workspaces[w].updates \in Nat
                                   /\ WorkspacesOf(h)[w].updates \in Nat
           /\ \A f \in Form : /\ forms[f].updates \in Nat
                              /\ FormsOf(h)[f].updates \in Nat
<1>1. task[h] \in Task
  BY DEF Types, Requests
<1>2. task[h].view.workspaces \in [Workspace -> WorkspaceDocument]
         /\ task[h].view.forms \in [Form -> FormDocument]
  BY <1>1 DEF Task, View
<1> QED
  BY <1>2 DEF Types, Database, WorkspaceDocument, FormDocument, WorkspacesOf,
     FormsOf

\* A snapshot is kept, or is what is in the database.
LEMMA ViewKept ==
    ASSUME Waits \/ \E h \in TaskHandler : Advances(h), NEW g \in TaskHandler,
           InTransaction(g)'
    PROVE  \/ InTransaction(g) /\ task'[g].view = task[g].view
           \/ /\ task'[g].view.workspaces = workspaces
              /\ task'[g].view.forms = forms
              /\ UNCHANGED <<workspaces, forms>>
<1>1. CASE task'[g] = task[g]
  BY <1>1 DEF InTransaction
<1>2. CASE Advances(g)
  BY <1>2 DEF Advances, Ends, NoTask, Received, Goes, Begins, Finds,
     InTransaction
<1> QED
  BY <1>1, <1>2 DEF Waits, Advances, Only

LEMMA ViewsNext ==
    ASSUME Types, Types', WorkspacesEvolve, FormsEvolve, ViewsPast, ViewsOrdered,
           Waits \/ \E h \in TaskHandler : Advances(h)
    PROVE  ViewsPast' /\ ViewsOrdered'
<1>1. /\ Since(workspaces, workspaces', Workspace)
      /\ Since(forms, forms', Form)
  BY SinceNext DEF Types
<1>2. \A w \in Workspace : workspaces[w].updates \in Nat
                              /\ workspaces'[w].updates \in Nat
  BY DEF Types, Database, WorkspaceDocument
<1>3. \A f \in Form : forms[f].updates \in Nat /\ forms'[f].updates \in Nat
  BY DEF Types, Database, FormDocument
<1>4. ASSUME NEW h \in TaskHandler, InTransaction(h)'
      PROVE  /\ Since(WorkspacesOf(h)', workspaces', Workspace)
             /\ Since(FormsOf(h)', forms', Form)
  <2>1. CASE InTransaction(h) /\ task'[h].view = task[h].view
    <3>1. Since(WorkspacesOf(h), workspaces, Workspace)
             /\ Since(FormsOf(h), forms, Form)
      BY <2>1 DEF ViewsPast
    <3>2. Since(WorkspacesOf(h), workspaces', Workspace)
      BY <1>1, <1>2, <3>1, Numbers DEF Since
    <3>3. Since(FormsOf(h), forms', Form)
      BY <1>1, <1>3, <3>1, Numbers DEF Since
    <3> QED
      BY <2>1, <3>2, <3>3 DEF WorkspacesOf, FormsOf
  <2>2. CASE /\ task'[h].view.workspaces = workspaces
             /\ task'[h].view.forms = forms
             /\ UNCHANGED <<workspaces, forms>>
    BY <2>2 DEF Since, WorkspacesOf, FormsOf
  <2> QED
    BY <1>4, <2>1, <2>2, ViewKept
<1>5. ASSUME NEW g \in TaskHandler, NEW h \in TaskHandler, InTransaction(g)', InTransaction(h)'
      PROVE  \/ Since(WorkspacesOf(g)', WorkspacesOf(h)', Workspace)
             \/ Since(WorkspacesOf(h)', WorkspacesOf(g)', Workspace)
  <2>1. CASE task'[g].view.workspaces = workspaces /\ UNCHANGED workspaces
    BY <1>4, <1>5, <2>1 DEF WorkspacesOf
  <2>2. CASE task'[h].view.workspaces = workspaces /\ UNCHANGED workspaces
    BY <1>4, <1>5, <2>2 DEF WorkspacesOf
  <2>3. CASE /\ InTransaction(g) /\ task'[g].view = task[g].view
             /\ InTransaction(h) /\ task'[h].view = task[h].view
    BY <2>3 DEF ViewsOrdered, WorkspacesOf
  <2> QED
    BY <1>5, <2>1, <2>2, <2>3, ViewKept
<1> QED
  BY <1>4, <1>5 DEF ViewsPast, ViewsOrdered

\* Which forms a step adds, and where.
LEMMA MoveAdds ==
    ASSUME Types, NEW h \in TaskHandler, moveForms(h), NEW w \in Workspace
    PROVE  /\ workspaces'[w].formIds \subseteq workspaces[w].formIds
                 \cup (IF w \in Destination(h) THEN task[h].formIds ELSE {})
           /\ w \in Visited(h) \ Destination(h) =>
                 workspaces'[w].formIds \cap task[h].formIds = {}
           /\ w \in Writes(h) => Rewritten(w)
           /\ Visited(h) \cup Destination(h) = Writes(h)
<1>1. task[h].op = "move" /\ ~WriteConflict(h)
  BY DEF moveForms, Commits
<1>2. Visited(h) \cup Destination(h) = Writes(h)
  BY <1>1 DEF Writes
<1>3. CASE w \in Writes(h)
  <2>1. workspaces'[w] = Written(workspaces[w], Moved(h, w))
           /\ Stored(workspaces, w)
    BY <1>1, <1>3, WritesStored DEF moveForms, Types
  <2>2. Moved(h, w) \in SUBSET Form
    BY DEF Moved, Types, Database, WorkspaceDocument, Requests, Task
  <2>3. workspaces'[w].formIds = Moved(h, w) /\ Rewritten(w)
    BY <2>1, <2>2, WrittenDocument DEF Types, Rewritten, Stored
  <2> QED
    BY <1>2, <2>3 DEF Moved
<1>4. CASE w \notin Writes(h)
  BY <1>2, <1>4 DEF moveForms
<1> QED
  BY <1>3, <1>4

LEMMA CreateAdds ==
    ASSUME Types, NEW h \in TaskHandler, createFormInWorkspace(h), NEW w \in Workspace
    PROVE  /\ workspaces'[w].formIds \subseteq workspaces[w].formIds
                 \cup (IF w \in Destination(h) THEN task[h].formIds ELSE {})
           /\ \A f \in task[h].formIds : f \notin Created /\ f \in Created'
           /\ task[h].op = "create"
<1>1. task[h].op = "create" /\ ~WriteConflict(h) /\ task[h].pc # "idle"
  BY DEF createFormInWorkspace, Commits, TaskAt
<1>2. Destination(h) = Writes(h)
  BY <1>1 DEF Writes
<1>3. ASSUME w \in Writes(h)
      PROVE  workspaces'[w].formIds = workspaces[w].formIds \cup task[h].formIds
  <2> DEFINE F == workspaces[w].formIds \cup task[h].formIds
  <2>1. workspaces'[w] = Written(workspaces[w], F)
    BY <1>3 DEF createFormInWorkspace
  <2>2. workspaces'[w].formIds = F
    BY <2>1 DEF Written
  <2> QED
    BY <2>2
<1>4. ASSUME w \notin Writes(h) PROVE workspaces'[w] = workspaces[w]
  BY <1>4 DEF createFormInWorkspace
<1>5. /\ task[h].formIds \subseteq Form /\ task[h].user \in User
      /\ \A f \in task[h].formIds : f \notin Created
  BY <1>1 DEF Types, Requests, Task, WellNamed
<1>6. \A f \in task[h].formIds : forms'[f].owner # NoUser
  BY <1>5, WorkspaceAssumption DEF createFormInWorkspace, SavedForm
<1> QED
  BY <1>1, <1>2, <1>3, <1>4, <1>5, <1>6 DEF Created

LEMMA KnownNext ==
    ASSUME Types, [WorkspaceNext]_workspaceVars, WorkspacesKnown
    PROVE  WorkspacesKnown'
<1>1. Created \subseteq Created'
  BY NewForms DEF Types
<1>2. CASE WorkspacesShrink
  BY <1>1, <1>2 DEF WorkspacesShrink, WorkspacesKnown
<1>3. ASSUME NEW h \in TaskHandler, moveForms(h) PROVE WorkspacesKnown'
  <2>1. task[h].formIds \subseteq Created
    BY <1>3 DEF moveForms, Commits, Types, Requests, WellNamed
  <2> QED
    BY <1>1, <1>3, <2>1, MoveAdds DEF WorkspacesKnown
<1>4. ASSUME NEW h \in TaskHandler, createFormInWorkspace(h) PROVE WorkspacesKnown'
  BY <1>1, <1>4, CreateAdds DEF WorkspacesKnown
<1> QED
  BY <1>2, <1>3, <1>4, Steps DEF Types, Adds

\* How a handler comes to be, or stays, about to commit.
LEMMA CommitKept ==
    ASSUME Waits \/ \E h \in TaskHandler : Advances(h), NEW g \in TaskHandler,
           TaskAt(g, "commit")'
    PROVE  task'[g] = task[g] \/ Begins(g) \/ Finds(g)
<1>1. CASE Advances(g)
  BY <1>1 DEF Advances, Ends, NoTask, Received, Goes, TaskAt
<1> QED
  BY <1>1 DEF Waits, Advances, Only

LEMMA NoticedNext ==
    ASSUME Types, Types', [WorkspaceNext]_workspaceVars, ViewsPast,
           ViewsOrdered, Noticed
    PROVE  Noticed'
<1> SUFFICES ASSUME NEW g \in TaskHandler, TaskAt(g, "commit")', task'[g].op = "move",
                    NEW v \in Workspace, NEW w \in Destination(g)',
                    AdminOf[v] = task'[g].user, ~Stored(WorkspacesOf(g)', v),
                    workspaces'[v].formIds \cap task'[g].formIds # {}
             PROVE  WorkspacesOf(g)'[w].updates < workspaces'[w].updates
  BY DEF Noticed
<1>1. /\ WorkspacesEvolve /\ FormsEvolve
      /\ Waits \/ \E h \in TaskHandler : Advances(h)
      /\ WorkspacesShrink \/ \E h \in TaskHandler : Adds(h)
  BY Steps DEF Types
<1>2. task'[g] = task[g] \/ Begins(g) \/ Finds(g)
  BY <1>1, CommitKept
<1>3. CASE Begins(g)
  <2>1. WorkspacesOf(g)' = workspaces /\ UNCHANGED workspaces
    BY <1>3 DEF Begins, WorkspacesOf
  <2>2. workspaces[v].formIds = {}
    BY <2>1 DEF Types, Database, Stored
  <2> QED
    BY <2>1, <2>2
<1>4. CASE Finds(g)
  BY <1>4 DEF Finds, Types, Requests, WellNamed
<1>5. CASE task'[g] = task[g]
  <2>1. /\ TaskAt(g, "commit") /\ task[g].op = "move" /\ w \in Destination(g)
        /\ WorkspacesOf(g)' = WorkspacesOf(g)
        /\ AdminOf[v] = task[g].user /\ ~Stored(WorkspacesOf(g), v)
        /\ workspaces'[v].formIds \cap task[g].formIds # {}
    BY <1>5 DEF TaskAt, Destination, WorkspacesOf
  <2>2. w \in Workspace /\ Stored(WorkspacesOf(g), w) /\ AdminOf[w] = task[g].user
    BY <2>1 DEF Destination, WorkspacesOf, Types, Requests, Task, WellNamed
  <2>3. InTransaction(g) /\ WellNamed(g)
    BY <2>1 DEF InTransaction, TaskAt, Types, Requests
  <2>4. /\ WorkspacesOf(g)[w].updates \in Nat /\ workspaces[w].updates \in Nat
        /\ workspaces'[w].updates \in Nat
        /\ WorkspacesOf(g)[v].updates \in Nat /\ workspaces[v].updates \in Nat
    BY <2>2, Numbers DEF Types, Database, WorkspaceDocument
  <2>5. workspaces[w].updates <= workspaces'[w].updates
    BY <1>1, <2>2, <2>4 DEF WorkspacesEvolve, Rewritten
  <2>6. WorkspacesOf(g)[w].updates <= workspaces[w].updates
    BY <2>2, <2>3, <2>4 DEF ViewsPast, Since
  <2>7. CASE workspaces[v].formIds \cap task[g].formIds # {}
    BY <2>1, <2>2, <2>4, <2>5, <2>7 DEF Noticed
  <2>8. CASE workspaces[v].formIds \cap task[g].formIds = {}
    <3>1. PICK f \in task[g].formIds :
              f \in workspaces'[v].formIds /\ f \notin workspaces[v].formIds
      BY <2>1, <2>8
    <3>2. PICK k \in TaskHandler : Adds(k)
      BY <1>1, <3>1 DEF WorkspacesShrink
    <3>3. k # g
      <4>1. task'[k] = NoTask
        BY <3>2 DEF Adds, moveForms, createFormInWorkspace, Commits, EndTask,
           Types, Requests
      <4> QED
        BY <1>5, <2>1, <4>1 DEF TaskAt, NoTask
    <3>4. CASE createFormInWorkspace(k)
      <4>1. f \in task[k].formIds /\ task[k].op = "create"
        BY <3>1, <3>4, CreateAdds
      <4> QED
        BY <3>1, <3>3, <4>1 DEF Types, Requests, NewFormsUnknown
    <3>5. CASE moveForms(k)
      <4>1. v \in Destination(k)
        BY <3>1, <3>5, MoveAdds
      <4>2. task[k].op = "move" /\ TaskAt(k, "commit") /\ ~WriteConflict(k)
        BY <3>5 DEF moveForms, Commits
      <4>3. AdminOf[v] = task[k].user /\ InTransaction(k)
        BY <4>1, <4>2 DEF Destination, Types, Requests, WellNamed, InTransaction,
           TaskAt
      <4>4. workspaces[v] = WorkspacesOf(k)[v] /\ Stored(workspaces, v)
        BY <4>1, <4>2, WritesStored DEF Types, Writes, WorkspacesOf
      <4>5. WorkspacesOf(g)[v].updates < WorkspacesOf(k)[v].updates
        BY <2>1, <2>3, <4>4 DEF ViewsPast, Since, Stored
      <4>6. Since(WorkspacesOf(g), WorkspacesOf(k), Workspace)
        BY <2>3, <2>4, <4>3, <4>4, <4>5 DEF ViewsOrdered, Since
      <4>7. CASE Stored(WorkspacesOf(k), w)
        <5>1. w \in Visited(k)
          BY <2>1, <2>2, <4>3, <4>7 DEF Visited, Of, WorkspacesOf
        <5>2. workspaces'[w].updates = workspaces[w].updates + 1
          BY <2>2, <3>5, <5>1, MoveAdds DEF Rewritten
        <5> QED
          BY <2>1, <2>4, <2>6, <5>2
      <4>8. CASE ~Stored(WorkspacesOf(k), w)
        <5>1. WorkspacesOf(g)[w].updates < WorkspacesOf(k)[w].updates
          BY <2>2, <4>6, <4>8 DEF Since, Stored
        <5>2. WorkspacesOf(k)[w].updates <= workspaces[w].updates
          BY <2>2, <4>3, Numbers DEF ViewsPast, Since
        <5>3. WorkspacesOf(k)[w].updates \in Nat
          BY <2>2, Numbers
        <5> QED
          BY <2>1, <2>4, <2>5, <5>1, <5>2, <5>3
      <4> QED
        BY <4>7, <4>8
    <3> QED
      BY <3>2, <3>4, <3>5 DEF Adds
  <2> QED
    BY <2>7, <2>8
<1> QED
  BY <1>2, <1>3, <1>4, <1>5

LEMMA FoundOwnedNext ==
    ASSUME Types, Types', [WorkspaceNext]_workspaceVars, ViewsPast,
           FoundOwned
    PROVE  FoundOwned'
<1> SUFFICES ASSUME NEW g \in TaskHandler, TaskAt(g, "commit")',
                    task'[g].op = "deleteWithForms", NEW f \in task'[g].formIds
             PROVE  \/ FormsOf(g)'[f].updates < forms'[f].updates
                    \/ \E d \in replicas'[f] :
                          /\ d.owner = task'[g].user
                          /\ d.updates <= FormsOf(g)'[f].updates
  BY DEF FoundOwned
<1>1. FormsEvolve /\ (Waits \/ \E h \in TaskHandler : Advances(h))
  BY Steps DEF Types
<1>2. task'[g] = task[g] \/ Begins(g) \/ Finds(g)
  BY <1>1, CommitKept
<1>6. ReplicasEvolve
  BY ReplicasNext DEF Types
<1>3. CASE Begins(g)
  BY <1>3 DEF Begins, TaskAt
<1>4. CASE Finds(g)
  <2>1. /\ FormsOf(g)' = FormsOf(g)
        /\ task'[g].user = task[g].user /\ UNCHANGED forms
        /\ InTransaction(g)
    BY <1>4 DEF Finds, FormsOf, InTransaction
  <2>4. PICK read \in Returned : f \in CanBeArchived(g, read)
    BY <1>4 DEF Finds
  <2>5. task[g].user \in User
    BY <1>4 DEF Finds, Types, Requests, WellNamed
  <2>2. /\ f \in Form /\ read[f] \in replicas[f]
        /\ read[f].owner = task[g].user
    BY <2>4, <2>5, FoundForms DEF Types
  <2>3. FormsOf(g)[f] = forms[f] \/ FormsOf(g)[f].updates < forms[f].updates
    BY <2>1, <2>2 DEF ViewsPast, Since
  <2>6. read[f].updates <= forms[f].updates
    BY <2>2 DEF Types, Database, Lagging
  <2>7. read[f] \in replicas'[f]
    BY <1>6, <2>2 DEF ReplicasEvolve
  <2> QED
    BY <2>1, <2>2, <2>3, <2>6, <2>7
<1>5. CASE task'[g] = task[g]
  <2>1. /\ TaskAt(g, "commit") /\ task[g].op = "deleteWithForms"
        /\ f \in task[g].formIds /\ FormsOf(g)' = FormsOf(g)
    BY <1>5 DEF TaskAt, FormsOf
  <2>2. f \in Form
    BY <2>1 DEF Types, Requests, Task
  <2>3. /\ FormsOf(g)[f].updates \in Nat /\ forms[f].updates \in Nat
        /\ forms'[f].updates \in Nat
    BY <2>2, Numbers DEF Types, Database, FormDocument
  <2>4. forms[f].updates <= forms'[f].updates
    BY <1>1, <2>2, <2>3 DEF FormsEvolve
  <2>5. \/ FormsOf(g)[f].updates < forms[f].updates
        \/ \E d \in replicas[f] : /\ d.owner = task[g].user
                                 /\ d.updates <= FormsOf(g)[f].updates
    BY <2>1 DEF FoundOwned
  <2>6. replicas[f] \subseteq replicas'[f]
    BY <1>6, <2>2 DEF ReplicasEvolve
  <2> QED
    BY <1>5, <2>1, <2>3, <2>4, <2>5, <2>6
<1> QED
  BY <1>2, <1>3, <1>4, <1>5

-----------------------------------------------------------------------------
(* The invariant, and the two properties.                                   *)

WorkspaceInv ==
    /\ Types /\ OneWorkspace /\ WorkspacesKnown
    /\ ViewsPast /\ ViewsOrdered /\ Noticed /\ FoundOwned

LEMMA OneWorkspaceNext ==
    ASSUME WorkspaceInv, [WorkspaceNext]_workspaceVars
    PROVE  OneWorkspace'
<1> USE DEF WorkspaceInv
<1> SUFFICES ASSUME NEW v \in Workspace, NEW w \in Workspace,
                    AdminOf[v] = AdminOf[w], v # w,
                    NEW f \in workspaces'[v].formIds, f \in workspaces'[w].formIds
             PROVE  FALSE
  BY DEF OneWorkspace, Apart
<1>1. ~(f \in workspaces[v].formIds /\ f \in workspaces[w].formIds)
  BY DEF OneWorkspace, Apart
<1>2. CASE WorkspacesShrink
  BY <1>1, <1>2 DEF WorkspacesShrink
\* The form has come to a, and is in b as well.
<1>3. ASSUME NEW h \in TaskHandler, moveForms(h), NEW a \in Workspace, NEW b \in Workspace,
             AdminOf[a] = AdminOf[b], a # b, f \notin workspaces[a].formIds,
             f \in workspaces'[a].formIds, f \in workspaces'[b].formIds
      PROVE  FALSE
  <2>1. a \in Destination(h) /\ f \in task[h].formIds
    BY <1>3, MoveAdds
  <2>2. /\ TaskAt(h, "commit") /\ task[h].op = "move" /\ ~WriteConflict(h)
    BY <1>3 DEF moveForms, Commits
  <2>3. AdminOf[a] = task[h].user /\ b \notin Destination(h)
    BY <1>3, <2>1, <2>2 DEF Types, Requests, WellNamed, Destination
  <2>4. b \notin Visited(h) /\ f \in workspaces[b].formIds
    BY <1>3, <2>1, <2>3, MoveAdds
  <2>5. ~Stored(WorkspacesOf(h), b)
    BY <1>3, <2>3, <2>4 DEF Visited, Of, WorkspacesOf
  <2>6. WorkspacesOf(h)[a].updates < workspaces[a].updates
    BY <1>3, <2>1, <2>2, <2>3, <2>4, <2>5 DEF Noticed
  <2>7. workspaces[a] = WorkspacesOf(h)[a] /\ workspaces[a].updates \in Nat
    BY <2>1, <2>2, WritesStored, Numbers DEF Types, Writes, WorkspacesOf
  <2> QED
    BY <2>6, <2>7
<1>4. ASSUME NEW h \in TaskHandler, createFormInWorkspace(h) PROVE FALSE
  <2>1. f \in task[h].formIds
    BY <1>1, <1>4, CreateAdds
  <2>2. f \notin Created /\ task[h].op = "create"
    BY <1>4, <2>1, CreateAdds
  <2>3. f \notin workspaces[v].formIds /\ f \notin workspaces[w].formIds
    BY <2>2 DEF WorkspacesKnown
  <2>4. v \in Destination(h) /\ w \in Destination(h)
    BY <1>4, <2>3, CreateAdds
  <2> QED
    BY <2>2, <2>4 DEF Destination, Types, Requests, WellNamed
<1>5. ASSUME NEW h \in TaskHandler, moveForms(h) PROVE FALSE
  BY <1>1, <1>3, <1>5
<1> QED
  BY <1>2, <1>4, <1>5, Steps DEF Types, Adds

LEMMA WorkspaceInvInit == WorkspaceInit => WorkspaceInv
<1> SUFFICES ASSUME WorkspaceInit PROVE WorkspaceInv
  OBVIOUS
<1>1. Types
  BY FirstRequests DEF Types
<1>2. OneWorkspace
  BY DEF WorkspaceInit, OneWorkspace
<1>3. \A h \in TaskHandler : task[h].pc = "idle"
  BY DEF WorkspaceInit, NoTask
<1>4. ViewsPast /\ ViewsOrdered /\ Noticed /\ FoundOwned
  BY <1>3 DEF ViewsPast, ViewsOrdered, Noticed, FoundOwned, InTransaction,
     TaskAt
<1>5. WorkspacesKnown
  <2>1. \A w \in Workspace : workspaces[w] = NotCreated
            \/ workspaces[w].formIds \in SUBSET Created
    BY DEF WorkspaceInit
  <2> QED
    BY <2>1 DEF WorkspacesKnown, NotCreated
<1> QED
  BY <1>1, <1>2, <1>4, <1>5 DEF WorkspaceInv

LEMMA WorkspaceInvNext ==
    ASSUME WorkspaceInv, [WorkspaceNext]_workspaceVars
    PROVE  WorkspaceInv'
<1>1. Types'
  BY TypesNext DEF WorkspaceInv, Types
<1>2. /\ WorkspacesEvolve /\ FormsEvolve
      /\ Waits \/ \E h \in TaskHandler : Advances(h)
  BY Steps DEF WorkspaceInv, Types
<1>3. ViewsPast' /\ ViewsOrdered'
  BY <1>1, <1>2, ViewsNext DEF WorkspaceInv
<1>4. WorkspacesKnown' /\ Noticed' /\ FoundOwned'
  BY <1>1, KnownNext, NoticedNext, FoundOwnedNext DEF WorkspaceInv
<1> QED
  BY <1>1, <1>3, <1>4, OneWorkspaceNext DEF WorkspaceInv

\* A deletion that commits archives what has been its user's and has not been
\* written since, and no other step that ends one archives any.
LEMMA DeletionArchives ==
    ASSUME WorkspaceInv, [WorkspaceNext]_workspaceVars,
           NEW h \in TaskHandler, TaskAt(h, "commit"), task[h].op = "deleteWithForms",
           task'[h] = NoTask
    PROVE  \A f \in Form : forms'[f] # forms[f] =>
              /\ forms[f].owner = task[h].view.forms[f].owner
              /\ \E read \in replicas[f] :
                    /\ read.owner = task[h].user
                    /\ read.updates <= task[h].view.forms[f].updates
<1>1. task'[h] # task[h]
  BY DEF TaskAt, NoTask
<1>2. \A k \in TaskHandler : (\E r : task' = [task EXCEPT ![k] = r]) => k = h
  BY <1>1 DEF WorkspaceInv, Types, Requests
<1>3. CASE UNCHANGED forms
  BY <1>3
<1>4. ASSUME NEW k \in TaskHandler, archiveForm(k) PROVE FALSE
  <2>1. Advances(k) /\ TaskAt(k, "archive")
    BY <1>4, ArchiveAdvances DEF WorkspaceInv, Types, archiveForm
  <2>2. k # h
    BY <2>1 DEF TaskAt
  <2> QED
    BY <1>1, <2>1, <2>2 DEF Advances, Only
<1>5. ASSUME NEW f \in Form, NEW u \in User, transferOwner(f, u) PROVE FALSE
  BY <1>1, <1>5 DEF transferOwner
<1>6. ASSUME NEW k \in TaskHandler, createFormInWorkspace(k) PROVE FALSE
  BY <1>2, <1>6 DEF createFormInWorkspace, Commits, EndTask
<1>7. ASSUME NEW k \in TaskHandler, deleteWorkspace(k)
      PROVE  \A f \in Form : forms'[f] # forms[f] =>
                /\ forms[f].owner = task[h].view.forms[f].owner
                /\ \E read \in replicas[f] :
                      /\ read.owner = task[h].user
                      /\ read.updates <= task[h].view.forms[f].updates
  <2>1. k = h /\ ~WriteConflict(h)
    BY <1>2, <1>7 DEF deleteWorkspace, Commits, EndTask
  <2>2. ASSUME NEW f \in task[h].formIds
        PROVE  /\ forms[f].owner = task[h].view.forms[f].owner
               /\ \E read \in replicas[f] :
                     /\ read.owner = task[h].user
                     /\ read.updates <= task[h].view.forms[f].updates
    <3>1. forms[f] = FormsOf(h)[f]
      BY <2>1 DEF WriteConflict, FormConflict, FormsOf
    <3>2. forms[f].updates \in Nat
      BY DEF WorkspaceInv, Types, Requests, Task, Database, FormDocument
    <3>3. \/ FormsOf(h)[f].updates < forms[f].updates
          \/ \E d \in replicas[f] : /\ d.owner = task[h].user
                                   /\ d.updates <= FormsOf(h)[f].updates
      BY DEF WorkspaceInv, FoundOwned
    <3> QED
      BY <3>1, <3>2, <3>3 DEF FormsOf
  <2>3. \A f \in Form \ task[h].formIds : forms'[f] = forms[f]
    BY <1>7, <2>1 DEF deleteWorkspace, Archived
  <2> QED
    BY <2>2, <2>3
<1>8. \/ UNCHANGED forms
      \/ \E k \in TaskHandler : archiveForm(k) \/ createFormInWorkspace(k)
                               \/ deleteWorkspace(k)
      \/ \E f \in Form, u \in User : transferOwner(f, u)
  BY DEF WorkspaceNext, Work, workspaceVars, createWorkspace, ReceiveTask,
     BeginOnWorkspace, Begin, BeginCreate, BeginArchive, BeginRemove,
     updateWorkspaceTitle, removeFormIdsFromAllWorkspaces, BeginTransaction,
     FindForms, RetryTransaction, moveForms, TaskFails
<1> QED
  BY <1>3, <1>4, <1>5, <1>6, <1>7, <1>8

\* However many requests move, create and remove forms and workspaces at the
\* same time, no form is in two workspaces of a user.
THEOREM OneWorkspaceAlways ==
    WorkspaceSpec => []OneWorkspace
<1>1. WorkspaceInit => WorkspaceInv
  BY WorkspaceInvInit
<1>2. WorkspaceInv /\ [WorkspaceNext]_workspaceVars => WorkspaceInv'
  BY WorkspaceInvNext
<1>3. WorkspaceInv => OneWorkspace
  BY DEF WorkspaceInv
<1> QED
  BY <1>1, <1>2, <1>3, PTL DEF WorkspaceSpec

\* A workspace that is deleted with its forms takes no form along that its user
\* has not owned by then, and none that is handed over while it is deleted,
\* though the node that says whose the forms are may lag behind.
THEOREM OwnFormsAlways ==
    WorkspaceSpec => OwnFormsArchived
<1>1. WorkspaceInit => WorkspaceInv
  BY WorkspaceInvInit
<1>2. WorkspaceInv /\ [WorkspaceNext]_workspaceVars => WorkspaceInv'
  BY WorkspaceInvNext
<1>3. WorkspaceInv /\ [WorkspaceNext]_workspaceVars =>
        [\A h \in TaskHandler :
          (/\ TaskAt(h, "commit") /\ task[h].op = "deleteWithForms"
           /\ task'[h] = NoTask)
              => \A f \in Form : forms'[f] # forms[f] =>
                    /\ forms[f].owner = task[h].view.forms[f].owner
                    /\ \E read \in replicas[f] :
                          /\ read.owner = task[h].user
                          /\ read.updates <= task[h].view.forms[f].updates
        ]_workspaceVars
  BY DeletionArchives
<1> QED
  BY <1>1, <1>2, <1>3, PTL DEF WorkspaceSpec, OwnFormsArchived

\* A form that leaves a workspace is moved to another of the user, or is taken
\* out by a request that is there to take it out.
LEMMA LeavesBy ==
    ASSUME Types, [WorkspaceNext]_workspaceVars,
           NEW u \in User, NEW f \in Form, NEW w \in Workspace,
           AdminOf[w] = u, f \in workspaces[w].formIds,
           f \notin workspaces'[w].formIds, ~ Filed(u, f)'
    PROVE  \E h \in TaskHandler : task'[h] # task[h] /\ TakesOut(h, f)
<1>1. workspaces'[w] # workspaces[w]
  OBVIOUS
<1>2. ASSUME NEW v \in Workspace, createWorkspace(v) PROVE FALSE
  <2>1. workspaces[v] = NotCreated
    BY <1>2 DEF createWorkspace, Types, Database
  <2>2. v # w
    BY <2>1 DEF NotCreated
  <2>3. workspaces'[w] = workspaces[w]
    BY <1>2, <2>2 DEF createWorkspace, Types, Database
  <2> QED
    BY <1>1, <2>3
<1>3. ASSUME NEW h \in TaskHandler, updateWorkspaceTitle(h) PROVE FALSE
  <2>1. \/ workspaces'[w] = workspaces[w]
        \/ workspaces'[w] = Written(workspaces[w], workspaces[w].formIds)
    BY <1>3 DEF updateWorkspaceTitle
  <2> QED
    BY <1>1, <2>1 DEF Written
<1>4. ASSUME NEW h \in TaskHandler, removeFormIdsFromAllWorkspaces(h)
      PROVE  task'[h] # task[h] /\ TakesOut(h, f)
  <2>1. PICK v \in task[h].todo :
           /\ task' = [task EXCEPT ![h].todo = @ \ {v}]
           /\ workspaces' = IF Stored(workspaces, v)
                 THEN [workspaces EXCEPT
                         ![v] = Written(@, @.formIds \ task[h].formIds)]
                 ELSE workspaces
    BY <1>1, <1>4 DEF removeFormIdsFromAllWorkspaces
  <2>2. task[h] \in Task /\ task \in [TaskHandler -> Task] /\ WellNamed(h)
    BY DEF Types, Requests
  <2>3. task'[h].todo = task[h].todo \ {v}
    BY <2>1, <2>2 DEF Task
  <2>4. task'[h] # task[h]
    BY <2>3
  <2>5. v = w /\ workspaces'[w] = Written(workspaces[w],
                                        workspaces[w].formIds \ task[h].formIds)
    BY <1>1, <2>1 DEF Types, Database
  <2>6. f \in task[h].formIds
    BY <2>5 DEF Written
  <2>7. task[h].op \in {"archive", "remove"}
    BY <1>4, <2>2 DEF removeFormIdsFromAllWorkspaces, TaskAt, WellNamed
  <2> QED
    BY <2>4, <2>6, <2>7 DEF TakesOut
<1>5. ASSUME NEW h \in TaskHandler, moveForms(h)
      PROVE  task'[h] # task[h] /\ TakesOut(h, f)
  <2>1. /\ task[h].op = "move" /\ ~WriteConflict(h) /\ task[h].pc = "commit"
        /\ task'[h] = NoTask /\ WellNamed(h)
    BY <1>5 DEF moveForms, Commits, TaskAt, EndTask, Types, Requests
  <2>2. task'[h] # task[h]
    BY <2>1 DEF NoTask
  <2>3. w \in Writes(h) /\ workspaces'[w] = Written(workspaces[w], Moved(h, w))
    BY <1>1, <1>5 DEF moveForms
  <2>4. f \notin Moved(h, w)
    BY <2>3 DEF Written
  <2>5. f \in task[h].formIds /\ w \in Visited(h)
    BY <2>4 DEF Moved
  <2>6. AdminOf[w] = task[h].user
    BY <2>5 DEF Visited, Of
  <2>7. ASSUME NEW v \in Destination(h) PROVE FALSE
    <3>1. v \in Workspace /\ AdminOf[v] = u
      BY <2>1, <2>6 DEF Destination, WellNamed, Types, Requests, Task
    <3>2. v \in Writes(h) /\ f \in Moved(h, v)
      BY <2>5 DEF Writes, Moved
    <3>3. workspaces'[v] = Written(workspaces[v], Moved(h, v))
      BY <1>5, <3>1, <3>2 DEF moveForms
    <3>4. f \in workspaces'[v].formIds
      BY <3>2, <3>3 DEF Written
    <3> QED
      BY <3>1, <3>4 DEF Filed
  <2>8. \A v \in task[h].todo : ~Stored(task[h].view.workspaces, v)
    BY <2>7 DEF Destination
  <2> QED
    BY <2>1, <2>2, <2>5, <2>8 DEF TakesOut
<1>6. ASSUME NEW h \in TaskHandler, createFormInWorkspace(h) PROVE FALSE
  <2>1. \/ workspaces'[w] = workspaces[w]
        \/ workspaces'[w] = Written(workspaces[w],
                                   workspaces[w].formIds \cup task[h].formIds)
    BY <1>6 DEF createFormInWorkspace
  <2>2. \/ workspaces'[w] = workspaces[w]
        \/ workspaces'[w].formIds = workspaces[w].formIds \cup task[h].formIds
    BY <2>1 DEF Written
  <2> QED
    BY <1>1, <2>2
<1>7. ASSUME NEW h \in TaskHandler, deleteWorkspace(h)
      PROVE  task'[h] # task[h] /\ TakesOut(h, f)
  <2>1. /\ task[h].op \in {"delete", "deleteWithForms"} /\ ~WriteConflict(h)
        /\ task[h].pc = "commit" /\ task'[h] = NoTask
    BY <1>7 DEF deleteWorkspace, Commits, TaskAt, EndTask, Types, Requests
  <2>2. task'[h] # task[h]
    BY <2>1 DEF NoTask
  <2>3. w \in Writes(h)
    BY <1>1, <1>7 DEF deleteWorkspace
  <2>4. w \in task[h].todo
    BY <2>1, <2>3 DEF Writes, Destination
  <2>5. workspaces[w] = task[h].view.workspaces[w]
    BY <2>1, <2>3, WritesStored DEF Types
  <2>6. f \in InWorkspace(h)
    BY <2>4, <2>5 DEF InWorkspace
  <2> QED
    BY <2>1, <2>2, <2>6 DEF TakesOut
<1>8. \/ \E v \in Workspace : createWorkspace(v)
      \/ \E h \in TaskHandler :
            \/ updateWorkspaceTitle(h) \/ removeFormIdsFromAllWorkspaces(h)
            \/ moveForms(h) \/ createFormInWorkspace(h) \/ deleteWorkspace(h)
  BY <1>1 DEF WorkspaceNext, Work, workspaceVars, transferOwner, ReceiveTask,
     BeginOnWorkspace, Begin, BeginCreate, BeginArchive, BeginRemove,
     archiveForm, BeginTransaction, FindForms, RetryTransaction, TaskFails
<1> QED
  BY <1>2, <1>3, <1>4, <1>5, <1>6, <1>7, <1>8

\* However moves, deletions and removals overlap, no form falls out of the
\* workspaces of a user but by a request that takes it out.
THEOREM FormsAlwaysStayFiled ==
    WorkspaceSpec => FormsStayFiled
<1>1. WorkspaceInit => WorkspaceInv
  BY WorkspaceInvInit
<1>2. WorkspaceInv /\ [WorkspaceNext]_workspaceVars => WorkspaceInv'
  BY WorkspaceInvNext
<1>3. WorkspaceInv /\ [WorkspaceNext]_workspaceVars =>
        [\A u \in User, f \in Form :
          Filed(u, f) /\ ~Filed(u, f)'
              => \E h \in TaskHandler : task'[h] # task[h] /\ TakesOut(h, f)
        ]_workspaceVars
  <2> SUFFICES ASSUME WorkspaceInv, [WorkspaceNext]_workspaceVars,
                      NEW u \in User, NEW f \in Form,
                      Filed(u, f), ~Filed(u, f)'
               PROVE  \E h \in TaskHandler :
                         task'[h] # task[h] /\ TakesOut(h, f)
    OBVIOUS
  <2>1. PICK w \in Workspace : AdminOf[w] = u /\ f \in workspaces[w].formIds
    BY DEF Filed
  <2>2. f \notin workspaces'[w].formIds
    BY <2>1 DEF Filed
  <2> QED
    BY <2>1, <2>2, LeavesBy DEF WorkspaceInv
<1> QED
  BY <1>1, <1>2, <1>3, PTL DEF WorkspaceSpec, FormsStayFiled

=============================================================================

----------------------------- MODULE Workspaces -----------------------------
(***************************************************************************)
(* Users sort forms into workspaces, hand them over to one another, and    *)
(* archive them, one by one or with a workspace.                           *)
(*                                                                         *)
(* Source: src/src/app/modules/workspace, workspace.controller.ts and      *)
(* workspace.service.ts; workspace.server.model.ts; and admin-form.service *)
(* .ts with form.server.model.ts, under src/src/app.                       *)
(*                                                                         *)
(* The database is external. A transaction reads a snapshot; it is run     *)
(* again when a document it writes has been written since. The workspaces  *)
(* have timestamps, so that every update of one writes it, also one that   *)
(* finds no form to remove from it. An update of many documents outside of *)
(* a transaction writes them one after the other. What is read of a form   *)
(* outside of a transaction comes from the nearest node, and may be older. *)
(***************************************************************************)
EXTENDS Naturals, FiniteSets

CONSTANTS Form,         \* ids of forms
          User,
          NoUser,
          Workspace,    \* ids of workspaces
          AdminOf,      \* who creates which workspace, and so is its admin
          TaskHandler,      \* bound: requests served at a time
          MaxTasks,     \* bound: requests
          MaxAborts     \* bound: requests that fail

\* What a proof assumes of them, and MCForms checks.
ASSUME WorkspaceAssumption ==
    /\ AdminOf \in [Workspace -> User]
    /\ NoUser \notin User
    /\ {MaxTasks, MaxAborts} \subseteq Nat

VARIABLES
    workspaces,  \* the documents: whether stored, with which forms, and how
                 \* often they have been written
    forms,       \* the documents: whose (NoUser before they are created),
                 \* whether archived, how often written
    replicas,    \* per form the documents that one node or another may return
    task,        \* per handler the request it serves
    tasks,       \* requests so far
    aborted      \* history: failures so far

workspaceVars == <<workspaces, forms, replicas, task, tasks, aborted>>

WorkspaceDocument == [stored : {"no", "yes", "deleted"}, formIds : SUBSET Form,
             updates : Nat]

NotCreated == [stored |-> "no", formIds |-> {}, updates |-> 0]

FormDocument == [owner : User \cup {NoUser}, archived : BOOLEAN, updates : Nat]

View == [workspaces : [Workspace -> WorkspaceDocument],
         forms : [Form -> FormDocument]]

NoForm == [owner |-> NoUser, archived |-> FALSE, updates |-> 0]

NoView == [workspaces |-> [w \in Workspace |-> NotCreated],
           forms |-> [f \in Form |-> NoForm]]

Operation == {"none", "title", "move", "delete", "deleteWithForms", "create",
              "archive", "remove"}

NoTask == [pc |-> "idle", op |-> "none", user |-> NoUser, todo |-> {},
         formIds |-> {}, view |-> NoView]

Created == {f \in Form : forms[f].owner # NoUser}

\* A form is in one workspace of a user at most.
Apart(docs) ==
    \A v, w \in Workspace :
        (/\ AdminOf[v] = AdminOf[w]
         /\ docs[v].formIds \cap docs[w].formIds # {}) => v = w

WorkspaceInit ==
    /\ forms \in [Form -> {NoForm} \cup
          [owner : User, archived : {FALSE}, updates : {1}]]
    /\ workspaces \in [Workspace -> {NotCreated} \cup
          [stored : {"yes"}, formIds : SUBSET Created, updates : {1}]]
    /\ Apart(workspaces)
    /\ replicas = [f \in Form |-> {forms[f]}]
    /\ task = [h \in TaskHandler |-> NoTask]
    /\ tasks = 0
    /\ aborted = 0

TaskAt(h, step) == task[h].pc = step

TaskNext(h, step) == task' = [task EXCEPT ![h].pc = step]

EndTask(h) == task' = [task EXCEPT ![h] = NoTask]

Stored(docs, w) == docs[w].stored = "yes"

\* The workspaces of user u in docs.
Of(docs, u) == {w \in Workspace : Stored(docs, w) /\ AdminOf[w] = u}

-----------------------------------------------------------------------------
(* What a request does first.                                               *)

createWorkspace(w) ==
    /\ workspaces[w].stored = "no"
    /\ workspaces' = [workspaces EXCEPT ![w] =
          [stored |-> "yes", formIds |-> {}, updates |-> 1]]
    /\ UNCHANGED <<forms, task, tasks, aborted>>

\* Todo is the workspace the request names, or those it visits.
Begin(h, op, u, todo, F, step) ==
    /\ TaskAt(h, "idle")
    /\ tasks < MaxTasks
    /\ tasks' = tasks + 1
    /\ task' = [task EXCEPT ![h] =
          [pc |-> step, op |-> op, user |-> u, todo |-> todo, formIds |-> F,
           view |-> NoView]]
    /\ UNCHANGED <<workspaces, forms, aborted>>

\* getWorkspace and verifyWorkspaceAdmin.
BeginOnWorkspace(h, u) ==
    \E w \in Of(workspaces, u) :
       \/ Begin(h, "title", u, {w}, {}, "title")
       \/ \E F \in SUBSET Created : Begin(h, "move", u, {w}, F, "begin")
       \/ \E op \in {"delete", "deleteWithForms"} :
             Begin(h, op, u, {w}, {}, "begin")

\* The id of a form that is created belongs to it alone. The workspace is
\* taken as it is named.
BeginCreate(h, u) ==
    \E w \in Workspace, f \in Form \ Created :
       /\ \A g \in TaskHandler : f \notin task[g].formIds
       /\ Begin(h, "create", u, {w}, {f}, "begin")

\* getFormAfterPermissionChecks: only the owner may archive a form.
BeginArchive(h, u) ==
    \E f \in Created :
        /\ \E read \in replicas[f] : read.owner = u /\ ~read.archived
        /\ Begin(h, "archive", u, {}, {f}, "archive")

\* removeFormsFromWorkspaces. The workspaces of a collaborator that leaves, or
\* whose form is archived, are visited in the same way.
BeginRemove(h, u) ==
    \E F \in SUBSET Created :
       Begin(h, "remove", u, Of(workspaces, u), F, "remove")

-----------------------------------------------------------------------------
(* Updates outside of a transaction.                                        *)

Written(doc, F) ==
    [stored |-> "yes", formIds |-> F, updates |-> doc.updates + 1]

updateWorkspaceTitle(h) ==
    /\ TaskAt(h, "title")
    /\ workspaces' = [w \in Workspace |->
          IF w \in task[h].todo /\ Stored(workspaces, w)
          THEN Written(workspaces[w], workspaces[w].formIds)
          ELSE workspaces[w]]
    /\ EndTask(h)
    /\ UNCHANGED <<forms, tasks, aborted>>

SavedForm(u, isArchived, form) ==
    [owner |-> u, archived |-> isArchived, updates |-> form.updates + 1]

Archived(F) ==
    [f \in Form |-> IF f \in F
                    THEN SavedForm(forms[f].owner, TRUE, forms[f])
                    ELSE forms[f]]

\* The form is saved with what was read, and then leaves the workspaces.
archiveForm(h) ==
    /\ TaskAt(h, "archive")
    /\ forms' = Archived(task[h].formIds)
    /\ task' = [task EXCEPT ![h].pc = "remove",
                            ![h].todo = Of(workspaces, task[h].user)]
    /\ UNCHANGED <<workspaces, tasks, aborted>>

removeFormIdsFromAllWorkspaces(h) ==
    /\ TaskAt(h, "remove")
    /\ \/ \E w \in task[h].todo :
             /\ task' = [task EXCEPT ![h].todo = @ \ {w}]
             /\ workspaces' =
                   IF Stored(workspaces, w)
                   THEN [workspaces EXCEPT
                           ![w] = Written(@, @.formIds \ task[h].formIds)]
                   ELSE workspaces
       \/ task[h].todo = {} /\ EndTask(h) /\ UNCHANGED workspaces
    /\ UNCHANGED <<forms, tasks, aborted>>

\* transferOwner and transferAllFormsToNewOwner: the request has read the
\* form before, and it may have been archived or handed over since.
transferOwner(f, u) ==
    /\ f \in Created
    /\ \E read \in replicas[f] : read.owner \notin {u, NoUser}
    /\ tasks < MaxTasks
    /\ tasks' = tasks + 1
    /\ forms' = [forms EXCEPT ![f] = SavedForm(u, @.archived, @)]
    /\ UNCHANGED <<workspaces, task, aborted>>

-----------------------------------------------------------------------------
(* Transactions.                                                            *)

\* withTransaction: the first read, which fixes the snapshot.
BeginTransaction(h) ==
    /\ TaskAt(h, "begin")
    /\ task' = [task EXCEPT
          ![h].pc = IF task[h].op = "deleteWithForms" THEN "find" ELSE "commit",
          ![h].view = [workspaces |-> workspaces, forms |-> forms]]
    /\ UNCHANGED <<workspaces, forms, tasks, aborted>>

InWorkspace(h) ==
    {f \in Form : \E w \in task[h].todo :
        f \in task[h].view.workspaces[w].formIds}

CanBeArchived(h, read) ==
    {f \in InWorkspace(h) : read[f].owner = task[h].user}

\* What the nodes may return of the forms.
Returned ==
    {read \in [Form -> UNION {replicas[f] : f \in Form}] :
        \A f \in Form : read[f] \in replicas[f]}

\* archiveForms retrieves the forms of the workspace that belong to the user;
\* the query does not belong to the transaction, and is sent to the nearest
\* node.
FindForms(h) ==
    /\ TaskAt(h, "find")
    /\ \E read \in Returned :
          task' = [task EXCEPT ![h].pc = "commit",
                               ![h].formIds = CanBeArchived(h, read)]
    /\ UNCHANGED <<workspaces, forms, tasks, aborted>>

\* Mutant of Visited: without timestamps what has no form to remove is not
\* written.
HoldsAny(h) ==
    {w \in Of(task[h].view.workspaces, task[h].user) :
        task[h].view.workspaces[w].formIds \cap task[h].formIds # {}}

Visited(h) == Of(task[h].view.workspaces, task[h].user)

Destination(h) ==
    {w \in task[h].todo : Stored(task[h].view.workspaces, w)}

\* The workspaces that the transaction writes.
Writes(h) ==
    Destination(h) \cup IF task[h].op = "move" THEN Visited(h) ELSE {}

\* Either alone is a mutant of WriteConflict: the other documents are written
\* without the session of the transaction.
WorkspaceConflict(h) ==
    \E w \in Writes(h) : workspaces[w] # task[h].view.workspaces[w]

FormConflict(h) ==
    /\ task[h].op = "deleteWithForms"
    /\ \E f \in task[h].formIds : forms[f] # task[h].view.forms[f]

WriteConflict(h) == WorkspaceConflict(h) \/ FormConflict(h)

RetryTransaction(h) ==
    /\ TaskAt(h, "commit")
    /\ WriteConflict(h)
    /\ TaskNext(h, "begin")
    /\ UNCHANGED <<workspaces, forms, tasks, aborted>>

Commits(h, op) ==
    TaskAt(h, "commit") /\ task[h].op = op /\ ~WriteConflict(h) /\ EndTask(h)

\* What is at the destination after the forms have been pulled and added.
Moved(h, w) ==
    LET kept == IF w \in Visited(h)
                THEN workspaces[w].formIds \ task[h].formIds
                ELSE workspaces[w].formIds
    IN  IF w \in Destination(h) THEN kept \cup task[h].formIds ELSE kept

\* removeFormIdsFromAllWorkspaces and addFormIdsToWorkspace: the latter may
\* find no workspace any more, and the transaction is committed all the same.
moveForms(h) ==
    /\ Commits(h, "move")
    /\ workspaces' = [w \in Workspace |->
          IF w \in Writes(h) THEN Written(workspaces[w], Moved(h, w))
          ELSE workspaces[w]]
    /\ UNCHANGED <<forms, tasks, aborted>>

createFormInWorkspace(h) ==
    /\ Commits(h, "create")
    /\ forms' = [f \in Form |->
          IF f \in task[h].formIds
          THEN SavedForm(task[h].user, FALSE, NoForm)
          ELSE forms[f]]
    /\ workspaces' = [w \in Workspace |->
          IF w \in Writes(h)
          THEN Written(workspaces[w], workspaces[w].formIds \cup task[h].formIds)
          ELSE workspaces[w]]
    /\ UNCHANGED <<tasks, aborted>>

\* When there is no workspace to delete, no form is archived either.
deleteWorkspace(h) ==
    /\ Commits(h, "delete") \/ Commits(h, "deleteWithForms")
    /\ workspaces' = [w \in Workspace |->
          IF w \in Writes(h)
          THEN [Written(workspaces[w], {}) EXCEPT !.stored = "deleted"]
          ELSE workspaces[w]]
    /\ forms' = Archived(task[h].formIds)
    /\ UNCHANGED <<tasks, aborted>>

\* The database fails, the time of a transaction is up, or the server stops.
TaskFails(h) ==
    /\ ~TaskAt(h, "idle")
    /\ aborted < MaxAborts
    /\ aborted' = aborted + 1
    /\ EndTask(h)
    /\ UNCHANGED <<workspaces, forms, tasks>>

-----------------------------------------------------------------------------

ReceiveTask(h) ==
    \E u \in User : \/ BeginOnWorkspace(h, u)
                    \/ BeginCreate(h, u)
                    \/ BeginArchive(h, u)
                    \/ BeginRemove(h, u)

Work(h) ==
    \/ ReceiveTask(h)
    \/ updateWorkspaceTitle(h)
    \/ archiveForm(h)
    \/ removeFormIdsFromAllWorkspaces(h)
    \/ BeginTransaction(h)
    \/ FindForms(h)
    \/ RetryTransaction(h)
    \/ moveForms(h)
    \/ createFormInWorkspace(h)
    \/ deleteWorkspace(h)
    \/ TaskFails(h)

WorkspaceNext ==
    /\ \/ \E w \in Workspace : createWorkspace(w)
       \/ \E f \in Form, u \in User : transferOwner(f, u)
       \/ \E h \in TaskHandler : Work(h)
    /\ replicas' = [f \in Form |-> replicas[f] \cup {forms'[f]}]

WorkspaceSpec == WorkspaceInit /\ [][WorkspaceNext]_workspaceVars

-----------------------------------------------------------------------------

\* Every variable has its type, and a workspace that is not stored is empty.
WorkspaceTypeOK ==
    /\ workspaces \in [Workspace -> WorkspaceDocument]
    /\ \A w \in Workspace : ~Stored(workspaces, w) => workspaces[w].formIds = {}
    /\ forms \in [Form -> FormDocument]
    /\ replicas \in [Form -> SUBSET FormDocument]
    /\ \A f \in Form : forms[f] \in replicas[f]
    /\ task \in [TaskHandler ->
          [pc : {"idle", "title", "archive", "remove", "begin", "find", "commit"},
           op : Operation, user : User \cup {NoUser}, todo : SUBSET Workspace,
           formIds : SUBSET Form, view : View]]
    /\ tasks \in 0 .. MaxTasks
    /\ aborted \in 0 .. MaxAborts

\* However many requests move, create and remove forms and workspaces at the
\* same time, a form is in one workspace of a user at most.
OneWorkspace == Apart(workspaces)

Filed(u, f) ==
    \E w \in Workspace : AdminOf[w] = u /\ f \in workspaces[w].formIds

\* Request h is to take form f out of the workspaces: it names it, or its
\* workspace, with the form, is deleted as the transaction has seen it. A form
\* that is moved is taken out if the destination had been deleted by then.
TakesOut(h, f) ==
    \/ task[h].op \in {"archive", "remove"} /\ f \in task[h].formIds
    \/ /\ task[h].op \in {"delete", "deleteWithForms"}
       /\ f \in InWorkspace(h)
    \/ /\ task[h].op = "move" /\ f \in task[h].formIds
       /\ \A w \in task[h].todo : ~Stored(task[h].view.workspaces, w)

\* However moves, deletions and removals overlap, a form does not fall out of
\* the workspaces of a user but by a request that takes it out: not while it is
\* moved, and not with a workspace that it has come to while that is deleted.
FormsStayFiled ==
    [][\A u \in User, f \in Form :
          Filed(u, f) /\ ~Filed(u, f)'
              => \E h \in TaskHandler : task'[h] # task[h] /\ TakesOut(h, f)
      ]_workspaceVars

\* The deletion of a workspace archives no form that its user has not owned,
\* and none that is handed over while the deletion is under way. (One that was
\* handed over before goes along when the node that is asked lags behind.)
OwnFormsArchived ==
    [][\A h \in TaskHandler :
          (/\ TaskAt(h, "commit") /\ task[h].op = "deleteWithForms"
           /\ task'[h] = NoTask)
              => \A f \in Form : forms'[f] # forms[f] =>
                    /\ forms[f].owner = task[h].view.forms[f].owner
                    /\ \E read \in replicas[f] :
                          /\ read.owner = task[h].user
                          /\ read.updates <= task[h].view.forms[f].updates
      ]_workspaceVars

=============================================================================

------------------------------- MODULE MCForms -------------------------------
(***************************************************************************)
(* FormEditing, Submissions, Bounces and Workspaces for TLC. What they     *)
(* share of a form is its status, which each of them changes as            *)
(* FormEditing says; here they are checked side by side: a behaviour is    *)
(* one of one of them.                                                     *)
(***************************************************************************)
EXTENDS FormEditing, Submissions, Bounces, Workspaces, TLC

CONSTANTS u1, u2, w1, w2, w3

\* One user has two workspaces, the other one.
MCAdminOf == w1 :> u1 @@ w2 :> u1 @@ w3 :> u2

VARIABLE component

FormsInit ==
    /\ component \in {"editing", "submissions", "bounces", "workspaces"}
    /\ Init /\ SubmissionInit /\ BounceInit /\ WorkspaceInit
    /\ form.status = "PUBLIC"
    /\ component # "submissions" => mode = "email"
    /\ component # "bounces" => documents = <<>>
    /\ component # "workspaces" =>
          workspaces = NoView.workspaces /\ forms = NoView.forms

FormsNext ==
    \/ /\ component = "editing"
       /\ Next
       /\ UNCHANGED <<component, submissionVars, bounceVars, workspaceVars>>
    \/ /\ component = "submissions"
       /\ SubmissionNext
       /\ UNCHANGED <<component, editingVars, bounceVars, workspaceVars>>
    \/ /\ component = "bounces"
       /\ BounceNext
       /\ UNCHANGED <<component, editingVars, submissionVars, workspaceVars>>
    \/ /\ component = "workspaces"
       /\ WorkspaceNext
       /\ UNCHANGED <<component, editingVars, submissionVars, bounceVars>>

FormsSpec ==
    FormsInit
        /\ [][FormsNext]_<<component, editingVars, submissionVars, bounceVars,
                           workspaceVars>>

\* The configuration has the same handlers serve whichever component it is.
Symmetry == Permutations(Recipient) \cup Permutations(Handler)

\* Every variable of the four modules has its type.
FormsTypeOK ==
    CASE component = "editing" -> TypeOK
      [] component = "submissions" -> SubmissionTypeOK
      [] component = "bounces" -> BounceTypeOK
      [] component = "workspaces" -> WorkspaceTypeOK

=============================================================================

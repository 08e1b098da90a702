-------------------------------- MODULE MCOtp --------------------------------
(***************************************************************************)
(* FieldVerification and OtpToken for TLC. They share no state: each       *)
(* behaviour is one of the first or one of the second.                     *)
(***************************************************************************)
EXTENDS FieldVerification, OtpToken, TLC

VARIABLE component

OtpInit ==
    /\ component \in {"field", "admin"}
    /\ Init /\ TokenInit
    /\ component = "field" => flow = "login"
    /\ component = "admin" => fieldType = "email"

OtpNext ==
    \/ /\ component = "field"
       /\ Next
       /\ UNCHANGED <<component, tokenVars>>
    \/ /\ component = "admin"
       /\ TokenNext
       /\ UNCHANGED <<component, verificationVars>>

OtpSpec == OtpInit /\ [][OtpNext]_<<component, verificationVars, tokenVars>>

\* The configuration has the same handlers serve either component.
Symmetry == Permutations(Handler)

\* Every variable of both modules has its type.
OtpTypeOK == TypeOK /\ TokenTypeOK

=============================================================================

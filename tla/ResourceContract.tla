-------------------------- MODULE ResourceContract --------------------------
(***************************************************************************)
(* What a custom resource of this operator looks like to somebody who only *)
(* watches the stored object: the stages it may go through, when a remote  *)
(* identifier is recorded, and how the object ends.  No cache, worker,     *)
(* retry or remote service appears here.  ResourceLifecycle, the detailed  *)
(* model of the reconciler, is shown to implement this module.             *)
(***************************************************************************)
EXTENDS Naturals

VARIABLES
    live,       \* the object is stored
    deleting,   \* its deletion has been requested
    phase,      \* status.phase
    id          \* status.resourceID, 0 while none is recorded

contractVars == <<live, deleting, phase, id>>

ContractInit == live = TRUE /\ deleting = FALSE /\ phase = "" /\ id = 0

\* Deletion is requested; an object nobody has touched yet goes at once.
RequestDeletion ==
    /\ live /\ ~deleting
    /\ deleting' = TRUE
    /\ live' = FALSE => phase = ""
    /\ live' \in BOOLEAN
    /\ UNCHANGED <<phase, id>>

Begin ==
    /\ live /\ phase = "" /\ phase' = "Creating"
    /\ UNCHANGED <<live, deleting, id>>

\* The identifier of the remote resource is recorded once, together with the
\* phase that needs it.
RecordRemote ==
    /\ live /\ phase = "Creating" /\ id = 0
    /\ phase' \in {"Provisioning", "Created"}
    /\ id' \in Nat \ {0}
    /\ UNCHANGED <<live, deleting>>

Advance ==
    /\ live
    /\ <<phase, phase'>> \in { <<"Provisioning", "Created">>,
                               <<"Created", "Updating">>,
                               <<"Updating", "Created">> }
    /\ UNCHANGED <<live, deleting, id>>

\* Only a phase that is under way can fail: "Created" is stable.
Fail ==
    /\ live
    /\ phase \in {"Creating", "Provisioning", "Updating", "Deleting"}
    /\ phase' = "Failed"
    /\ UNCHANGED <<live, deleting, id>>

BeginDeletion ==
    /\ live /\ deleting
    /\ phase \notin {"Deleting", "Failed"}
    /\ phase' = "Deleting"
    /\ UNCHANGED <<live, deleting, id>>

\* An object that has been reconciled goes only from phase "Deleting".
Vanish ==
    /\ live /\ deleting /\ phase = "Deleting"
    /\ live' = FALSE
    /\ UNCHANGED <<deleting, phase, id>>

ContractNext ==
    \/ RequestDeletion \/ Begin \/ RecordRemote \/ Advance
    \/ Fail \/ BeginDeletion \/ Vanish

ContractSpec == ContractInit /\ [][ContractNext]_contractVars
=============================================================================

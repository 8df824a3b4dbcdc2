--------------------------- MODULE RemoteContract ---------------------------
(***************************************************************************)
(* What the operator does to the account of its user, as somebody sees it  *)
(* who watches the remote resources and, of the object, only what the user *)
(* asks for and which resource is on record.  Neither phases nor passes,   *)
(* caches or faults appear here.  ResourceLifecycle implements it: the     *)
(* operator may create more than once, but it never touches any resource   *)
(* but the one on record, never sends an older spec than before, never     *)
(* deletes without a request and never touches what it has deleted.        *)
(* The account may come to have a mix of an older and a newer spec, as an  *)
(* update sends only some of the fields, and may keep a resource whose     *)
(* deletion was denied.                                                    *)
(***************************************************************************)
EXTENDS Naturals, Sequences

VARIABLES
    account,    \* the resources created: state, generation of the fields updates
                \* send, generation of the others, and whether a DELETE was denied
    wanted,     \* the generation of the spec the user wants
    requested,  \* the user has requested the deletion
    recorded    \* the resource on record, 0 while there is none

remoteVars == <<account, wanted, requested, recorded>>

RemoteInit ==
    account = <<>> /\ wanted = 1 /\ requested = FALSE /\ recorded = 0

\* The user.
Want ==
    /\ wanted' = wanted + 1
    /\ UNCHANGED <<account, requested, recorded>>

RequestDeletion ==
    /\ requested' = TRUE
    /\ UNCHANGED <<account, wanted, recorded>>

\* The specs that are wanted now or were, and that no call has gone beyond.
Current == { g \in 1..wanted : \A r \in DOMAIN account : account[r].gen <= g }

\* The operator.
Create ==
    /\ \E s \in {"InCreation", "Active", "Failed"}, g \in Current :
         account' = Append(account, [state |-> s, gen |-> g, made |-> g, denied |-> FALSE])
    /\ UNCHANGED <<wanted, requested, recorded>>

\* What goes on record is the resource created last, and it stays there.
Record ==
    /\ recorded = 0 /\ account # <<>>
    /\ recorded' = Len(account)
    /\ UNCHANGED <<account, wanted, requested>>

\* An update changes the fields it sends and leaves the others as created.
Update ==
    /\ recorded # 0 /\ account[recorded].state # "Deleted"
    /\ \E g \in Current : account' = [account EXCEPT ![recorded].gen = g]
    /\ UNCHANGED <<wanted, requested, recorded>>

Delete ==
    /\ recorded # 0 /\ requested
    /\ account' = [account EXCEPT ![recorded].state = "Deleted"]
    /\ UNCHANGED <<wanted, requested, recorded>>

\* A DELETE of a resource that is there, answered by 404 or 405.
Deny ==
    /\ recorded # 0 /\ requested /\ account[recorded].state # "Deleted"
    /\ account' = [account EXCEPT ![recorded].denied = TRUE]
    /\ UNCHANGED <<wanted, requested, recorded>>

\* The remote side finishes a creation.
Finish ==
    /\ \E r \in DOMAIN account, s \in {"Active", "Failed"} :
         /\ account[r].state = "InCreation"
         /\ account' = [account EXCEPT ![r].state = s]
    /\ UNCHANGED <<wanted, requested, recorded>>

RemoteNext ==
    \/ Want \/ RequestDeletion
    \/ Create \/ Record \/ Update \/ Delete \/ Deny \/ Finish

RemoteSpec == RemoteInit /\ [][RemoteNext]_remoteVars
=============================================================================

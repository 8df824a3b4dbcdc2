------------------------ MODULE ResourceExpectations ------------------------
(***************************************************************************)
(* What comments and test plans of the repository say of a custom resource *)
(* and ResourceLifecycle, which follows the code, does not do.  Each of    *)
(* these statements is refuted by a run of its own.                        *)
(***************************************************************************)
EXTENDS ResourceLifecycle

\* "resource is up to date" (reconciler.go:518) is what CheckForUpdates concludes
\* from an observed generation.
UpToDate == api.live /\ api.phase = "Created" /\ api.obs = api.gen

\* "Modifica spec e verifica propagazione" (TEST_DESIGN.md:246): the remote resource
\* of an object that is up to date has the stored spec.  Said of the fields that
\* updates send, and of the others once these are right, and no more than that one of
\* the two is always so: a behaviour that refutes it refutes each.
SentFieldsArePropagated == UpToDate => remote[api.id].gen = api.gen
OtherFieldsArePropagated ==
    UpToDate /\ remote[api.id].gen = api.gen => remote[api.id].made = api.gen
EditsArePropagated == []SentFieldsArePropagated \/ []OtherFieldsArePropagated

\* "Finalizer blocca deletion fino a cleanup" (TEST_DESIGN.md:309): when the object
\* is gone, so is the resource it has on record, and so is any other that was created
\* for it.  No more than one of the two is stated, so that a state that refutes it
\* refutes each.
GoneLeavesNothingBehind ==
    ~api.live =>
        \/ api.id # 0 => remote[api.id].state = "Deleted"
        \/ \A r \in DOMAIN remote \ {api.id} : remote[r].state = "Deleted"

\* "Resource is in failed state, nothing to do unless spec changes"
\* (reconciler.go:166): a changed spec gets a failed object going again.  "Delete e wait
\* fino a scomparsa da K8s" (TEST_DESIGN.md:248): so does its deletion, which ends
\* with the object gone.  At least the two together get an object out of phase Failed.
FailedCanBeLeft ==
    (api.live /\ api.phase = "Failed" /\ api.obs # api.gen /\ api.deleting)
        ~> (~api.live \/ api.phase # "Failed")
=============================================================================

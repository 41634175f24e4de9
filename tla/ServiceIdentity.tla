-------------------------- MODULE ServiceIdentity --------------------------
(***************************************************************************)
(* Enrollment, opening and export of a service identity                    *)
(* (src/src/service_identity.rs): processes that share the file of the     *)
(* private store and the file of the trust anchor.  A call is the sequence *)
(* of its file operations; between two of them other processes run and the *)
(* process may be killed.  An identity stands for its whole private entry: *)
(* key pair, binding, time and nonce are drawn together, and are compared  *)
(* together.                                                               *)
(***************************************************************************)
EXTENDS Naturals

CONSTANTS
    Processes,   \* processes that enroll, open and export
    Identities,  \* what key generation may draw
    Absent,      \* no file
    Partial,     \* a file whose content does not decode
    Faults       \* what may go wrong: "kill", "io_error"

ASSUME IdentityAssumption ==
    /\ Absent # Partial
    /\ {Absent, Partial} \cap Identities = {}
    /\ Faults \subseteq {"kill", "io_error"}

VARIABLES
    store,      \* the private store: Absent, Partial or an identity
    anchor,     \* the trust anchor's file: Absent or an identity
    stage,      \* where each process is in its call
    drawn,      \* the identity each process is enrolling, Absent if none
    signer,     \* the signer each process holds, Absent if none
    used,       \* history: identities drawn
    issued,     \* history: identities a signer was returned for
    withdrawn,  \* history: identities whose enrollment failed and removed the store
    exported    \* history: identities whose export succeeded

identityVars == <<store, anchor, stage, drawn, signer, used, issued, withdrawn, exported>>

Stages == {"idle", "checked", "created", "written", "failed", "synced", "hardened", "exporting"}

InitIdentity ==
    /\ store = Absent
    /\ anchor = Absent
    /\ stage = [p \in Processes |-> "idle"]
    /\ drawn = [p \in Processes |-> Absent]
    /\ signer = [p \in Processes |-> Absent]
    /\ used = {}
    /\ issued = {}
    /\ withdrawn = {}
    /\ exported = {}

-----------------------------------------------------------------------------
(* Enrollment.                                                             *)

Goes(p, from, to) ==
    /\ stage[p] = from
    /\ stage' = [stage EXCEPT ![p] = to]

\* The call returns an error.
Fails(p, from) ==
    /\ Goes(p, from, "idle")
    /\ drawn' = [drawn EXCEPT ![p] = Absent]

\* enroll_service_identity_at up to the creation of the store: there is no
\* file at the path, and a fresh key pair is drawn.
BeginEnroll(p) ==
    /\ store = Absent
    /\ Goes(p, "idle", "checked")
    /\ \E i \in Identities \ used :
          /\ drawn' = [drawn EXCEPT ![p] = i]
          /\ used' = used \cup {i}
    /\ UNCHANGED <<store, anchor, signer, issued, withdrawn, exported>>

\* Without create_new: what another process has written meanwhile is lost.
CreateNew_Mutant(p) ==
    /\ Goes(p, "checked", "created")
    /\ store' = Partial
    /\ UNCHANGED <<anchor, drawn, signer, used, issued, withdrawn, exported>>

\* create_new: fails when another process has made the file since the check.
CreateNew(p) ==
    /\ \/ /\ store = Absent
          /\ store' = Partial
          /\ Goes(p, "checked", "created")
          /\ UNCHANGED drawn
       \/ /\ store # Absent
          /\ Fails(p, "checked")
          /\ UNCHANGED store
    /\ UNCHANGED <<anchor, signer, used, issued, withdrawn, exported>>

\* write_all puts the envelope into the file, or fails inside it.
WriteAll(p) ==
    /\ \/ /\ Goes(p, "created", "written")
          /\ store' = drawn[p]
       \/ /\ "io_error" \in Faults
          /\ Goes(p, "created", "failed")
          /\ UNCHANGED store
    /\ UNCHANGED <<anchor, drawn, signer, used, issued, withdrawn, exported>>

\* sync_all may fail although others can read the whole file by now.
SyncAll(p) ==
    /\ \/ Goes(p, "written", "synced")
       \/ "io_error" \in Faults /\ Goes(p, "written", "failed")
    /\ UNCHANGED <<store, anchor, drawn, signer, used, issued, withdrawn, exported>>

\* Removing the file after a failed write or sync; that this fails too is
\* ignored.
RemoveFile(p) ==
    /\ Fails(p, "failed")
    /\ \/ /\ store' = Absent
          /\ withdrawn' = withdrawn \cup {drawn[p]}
       \/ UNCHANGED <<store, withdrawn>>
    /\ UNCHANGED <<anchor, signer, used, issued, exported>>

\* harden_store_permissions; when it fails enrollment fails and the store stays.
Harden(p) ==
    /\ \/ Goes(p, "synced", "hardened") /\ UNCHANGED drawn
       \/ "io_error" \in Faults /\ Fails(p, "synced")
    /\ UNCHANGED <<store, anchor, signer, used, issued, withdrawn, exported>>

-----------------------------------------------------------------------------
(* Opening and export.                                                     *)

\* Takes whatever is in the file for an identity.
Open_Mutant(p) ==
    /\ stage[p] \in {"idle", "hardened"}
    /\ store # Absent
    /\ stage' = [stage EXCEPT ![p] = "idle"]
    /\ drawn' = [drawn EXCEPT ![p] = Absent]
    /\ signer' = [signer EXCEPT ![p] = store]
    /\ issued' = issued \cup {store}
    /\ UNCHANGED <<store, anchor, used, withdrawn, exported>>

\* open_service_identity_at, on its own or at the end of an enrollment:
\* whatever the path holds by now.  A store that does not decode is an error.
Open(p) ==
    /\ stage[p] \in {"idle", "hardened"}
    /\ store \in Identities
    /\ stage' = [stage EXCEPT ![p] = "idle"]
    /\ drawn' = [drawn EXCEPT ![p] = Absent]
    /\ signer' = [signer EXCEPT ![p] = store]
    /\ issued' = issued \cup {store}
    /\ UNCHANGED <<store, anchor, used, withdrawn, exported>>

\* Writes whatever the file holds.
ReadAnchor_Mutant(p) ==
    /\ signer[p] # Absent
    /\ Goes(p, "idle", "exporting")
    /\ UNCHANGED <<store, anchor, drawn, signer, used, issued, withdrawn, exported>>

\* export_service_identity_trust_anchor up to the push: nothing there is
\* written, the same anchor is accepted, any other is an error.
ReadAnchor(p) ==
    /\ signer[p] # Absent
    /\ \/ /\ anchor = Absent
          /\ Goes(p, "idle", "exporting")
          /\ UNCHANGED exported
       \/ /\ anchor = signer[p]
          /\ stage[p] = "idle"
          /\ exported' = exported \cup {signer[p]}
          /\ UNCHANGED stage
    /\ UNCHANGED <<store, anchor, drawn, signer, used, issued, withdrawn>>

\* The push replaces what the file holds under the anchor's key, whether or
\* not it is still what was read.
PushAnchor(p) ==
    /\ Goes(p, "exporting", "idle")
    /\ anchor' = signer[p]
    /\ exported' = exported \cup {signer[p]}
    /\ UNCHANGED <<store, drawn, signer, used, issued, withdrawn>>

-----------------------------------------------------------------------------
(* Signatures: profile and purpose are types in the code and fixed here.   *)

\* ServiceIdentitySigner::sign.
Signature(i, payload) == [by |-> i, of |-> payload]

\* verify_service_identity_signature: the identity that is named is the
\* anchor's, and the signature is its signature of this payload.
Verifies(a, payload, named, s) == named = a /\ s = Signature(a, payload)

-----------------------------------------------------------------------------

\* The process ends between two operations; another takes its place.
Kill(p) ==
    /\ "kill" \in Faults
    /\ stage' = [stage EXCEPT ![p] = "idle"]
    /\ drawn' = [drawn EXCEPT ![p] = Absent]
    /\ signer' = [signer EXCEPT ![p] = Absent]
    /\ UNCHANGED <<store, anchor, used, issued, withdrawn, exported>>

IdentityStep ==
    \E p \in Processes :
        \/ BeginEnroll(p)
        \/ CreateNew(p)
        \/ WriteAll(p)
        \/ SyncAll(p)
        \/ RemoveFile(p)
        \/ Harden(p)
        \/ Open(p)
        \/ ReadAnchor(p)
        \/ PushAnchor(p)
        \/ Kill(p)

-----------------------------------------------------------------------------
(* Properties.                                                             *)

IdentityTypeOK ==
    /\ store \in Identities \cup {Absent, Partial}
    /\ anchor \in Identities \cup {Absent}
    /\ stage \in [Processes -> Stages]
    /\ drawn \in [Processes -> Identities \cup {Absent}]
    /\ signer \in [Processes -> Identities \cup {Absent}]
    /\ used \subseteq Identities
    /\ issued \subseteq Identities
    /\ withdrawn \subseteq Identities
    /\ exported \subseteq Identities

\* Enrollment is a one-shot transition: every signer ever handed out is of
\* the identity that is in the store, through concurrent enrollments, kills
\* and failed writes - except the signers of an identity whose enrollment
\* failed after others had opened it.
IssuedIsStored == \A i \in issued \ withdrawn : store = i

\* The anchor's file holds the anchor of i, and no export that found the file
\* empty is still to write it.
Settled(i) ==
    /\ anchor = i
    /\ \A p \in Processes : stage[p] # "exporting"

\* From then on the anchor is that of i for ever, and every export that still
\* succeeds is of i: also when the enrollment of i is withdrawn, another
\* identity takes its place, and both have signers that are exported.
AnchorSettled ==
    [][\A i \in Identities :
          Settled(i) => Settled(i)' /\ exported' \subseteq exported \cup {i}]_identityVars
=============================================================================

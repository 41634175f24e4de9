-------------------------- MODULE DeploymentBrake --------------------------
(***************************************************************************)
(* The deployment brake (src/src/idunn_deployment_brake.rs) over an        *)
(* operator's identity (ServiceIdentity): the operator engages the brake   *)
(* or releases it for one attempt under a signature, the record lies in a  *)
(* store where it may be damaged or altered, and Idunn evaluates it with   *)
(* the clock and the exported anchor.                                      *)
(*                                                                         *)
(* An Option is a set of at most one value.  A signature is the identity   *)
(* that made it and what it was made of.  Why a brake denies is not        *)
(* modelled: no caller in the repository tells the denials apart.          *)
(***************************************************************************)
EXTENDS ServiceIdentity, FiniteSets

CONSTANTS
    Runtime, OtherRuntime,  \* Idunn's runtime, and one of somebody else
    Releases, Deployments,  \* identifiers of releases and of attempts
    MaxLifetime,            \* IDUNN_DEPLOYMENT_RELEASE_MAX_LIFETIME_MILLIS, in ticks
    MaxTime,                \* where the clock stops
    MaxSigned               \* how many releases are signed

ASSUME BrakeAssumption ==
    /\ Runtime # OtherRuntime
    /\ MaxLifetime \in Nat
    /\ MaxTime \in Nat
    /\ MaxSigned \in Nat

VARIABLES
    now,      \* the clock that the operator and Idunn read
    brake,    \* the stored record, or Unreadable
    signed,   \* history: what operators signed
    granted   \* history: the latest evaluation that permitted a deployment

brakeVars == <<now, brake, signed, granted>>
vars == <<identityVars, brakeVars>>

\* The observations Missing and Corrupt, which are denied alike.
Unreadable == [legible |-> FALSE]

Option(S) == {{}} \cup {{x} : x \in S}

-----------------------------------------------------------------------------
(* A record and its evaluation.                                            *)

\* legible stands for the fields whose own form is checked: the schema, the
\* identifiers, privacy, purpose, algorithm, the signature's length, and that
\* an authorization has all of its fields or none.
Validate(r) ==
    /\ r.legible
    /\ r.status \in {"engaged", "released"}
    /\ r.observed # 0
    /\ \A t \in r.until : t > r.observed
    /\ r.status = "engaged" => r.grant = {} /\ r.signature = {}
    /\ r.status = "released" =>
          /\ r.grant # {} /\ r.signature # {}
          /\ \A g \in r.grant :
                /\ g.issued >= r.observed
                /\ g.expires > g.issued
                /\ g.expires - g.issued <= MaxLifetime
                /\ \A t \in r.until : g.expires <= t

Live(r, t) ==
    /\ \A u \in r.until : t < u
    /\ \A g \in r.grant : g.issued <= t /\ t < g.expires

\* classify_idunn_deployment_brake gives Ok.
Classified(r, release, deployment, t) ==
    /\ Validate(r)
    /\ r.ours
    /\ r.runtime = Runtime
    /\ r.scope \in {"all", "deployment"}
    /\ r.status # "engaged"
    /\ Live(r, t)
    /\ \A g \in r.grant : g.release = release /\ g.deployment = deployment

Unsigned(r) == [r EXCEPT !.signature = {}]

\* Checks who signed and not what.
Verified_Mutant(r, a) ==
    \A g \in r.grant : \A s \in r.signature : g.by = a /\ s.by = a

\* verify_idunn_deployment_brake_authorization: the signature is of the whole
\* record without its signature.
Verified(r, a) ==
    \A g \in r.grant : \A s \in r.signature : Verifies(a, Unsigned(r), g.by, s)

\* evaluate_idunn_deployment_brake gives Ok.
Permits(r, a, release, deployment, t) ==
    /\ Classified(r, release, deployment, t)
    /\ Verified(r, a)

-----------------------------------------------------------------------------

EngagedRecord ==
    [legible |-> TRUE, ours |-> TRUE, runtime |-> Runtime, scope |-> "deployment",
     status |-> "engaged", observed |-> now, until |-> {}, grant |-> {}, signature |-> {}]

Init ==
    /\ InitIdentity
    /\ now = 0
    /\ brake = Unreadable
    /\ signed = {}
    /\ granted = {}

\* The operator's program stops deployments.
Engage ==
    /\ brake' = EngagedRecord
    /\ UNCHANGED <<identityVars, now, signed, granted>>

\* The operator's program signs a release and stores it; nothing in the
\* repository keeps it from signing one that will not be accepted.
Release(p) ==
    /\ signer[p] # Absent
    /\ Cardinality(signed) < MaxSigned
    /\ \E runtime \in {Runtime, OtherRuntime}, until \in Option({now + 1}),
          release \in Releases, deployment \in Deployments,
          issued_at \in {now, now + 1}, expires_at \in {now + 1, now + 2} :
          LET r == [EngagedRecord EXCEPT
                       !.runtime = runtime,
                       !.status = "released",
                       !.until = until,
                       !.grant = {[release |-> release, deployment |-> deployment,
                                   by |-> signer[p], issued |-> issued_at,
                                   expires |-> expires_at]}]
          IN  /\ brake' = [r EXCEPT !.signature = {Signature(signer[p], r)}]
              /\ signed' = signed \cup {Signature(signer[p], r)}
    /\ UNCHANGED <<identityVars, now, granted>>

\* One field of a stored release changes after it was signed.
Altered(r) ==
    {Unreadable, [r EXCEPT !.ours = FALSE], [r EXCEPT !.runtime = Runtime],
     [r EXCEPT !.scope = "all"], [r EXCEPT !.until = {}]}
       \cup UNION {{[r EXCEPT !.grant = {[g EXCEPT !.release = x]}] : x \in Releases}
                   \cup {[r EXCEPT !.grant = {[g EXCEPT !.expires = t]}] : t \in 1 .. MaxTime + 2}
                     : g \in r.grant}

Alter ==
    /\ brake.legible
    /\ \E s \in signed : brake = [s.of EXCEPT !.signature = {s}]
    /\ brake' \in Altered(brake) \ {brake}
    /\ UNCHANGED <<identityVars, now, signed, granted>>

\* Idunn evaluates the stored observation for an attempt.
Evaluate ==
    \E release \in Releases, deployment \in Deployments :
        /\ anchor # Absent
        /\ Permits(brake, anchor, release, deployment, now)
        /\ granted' = {[release |-> release, deployment |-> deployment, at |-> now,
                        under |-> anchor, scope |-> brake.scope]}
        /\ UNCHANGED <<identityVars, now, brake, signed>>

Tick ==
    /\ now < MaxTime
    /\ now' = now + 1
    /\ UNCHANGED <<identityVars, brake, signed, granted>>

Next ==
    \/ IdentityStep /\ UNCHANGED brakeVars
    \/ Engage
    \/ \E p \in Processes : Release(p)
    \/ Alter
    \/ Evaluate
    \/ Tick

Spec == Init /\ [][Next]_vars

-----------------------------------------------------------------------------
(* Properties.                                                             *)

\* A deployment is permitted only while a grant is live that an operator
\* signed for exactly this attempt of Idunn's own runtime, in the scope Idunn
\* read, for no longer than the maximum, under the anchor Idunn used, whatever
\* became of the stored record meanwhile.
GrantAuthorized ==
    \A d \in granted : \E s \in signed :
        /\ s.by = d.under
        /\ s.of.runtime = Runtime /\ s.of.scope = d.scope
        /\ \A g \in s.of.grant :
              /\ <<g.release, g.deployment>> = <<d.release, d.deployment>>
              /\ g.issued <= d.at /\ d.at < g.expires
              /\ g.expires - g.issued <= MaxLifetime
        /\ \A t \in s.of.until : d.at < t

\* The identity whose signature permitted a deployment is the one in the
\* operator's store, unless its enrollment failed after it had been used.
GrantUnderStore == \A d \in granted : d.under \in withdrawn \/ d.under = store
=============================================================================

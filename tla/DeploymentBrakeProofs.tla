------------------------ MODULE DeploymentBrakeProofs ------------------------
(***************************************************************************)
(* Proofs about DeploymentBrake, for any numbers of processes, identities, *)
(* releases and deployments, any clock and any faults: the one identity of *)
(* a store, and what a permitted deployment rests on.                      *)
(***************************************************************************)
EXTENDS DeploymentBrake, TLAPS

\* The stages from the creation of the store to the end of the enrollment.
Owning == {"created", "written", "failed", "synced", "hardened"}

\* One process at a time is between the creation of the store and the end of
\* its enrollment, and it knows what the store holds.  Who exports has a signer.
OneOwner ==
    /\ \A p, q \in Processes : stage[p] \in Owning /\ stage[q] \in Owning => p = q
    /\ \A p \in Processes :
          /\ stage[p] # "idle" /\ stage[p] # "exporting" => drawn[p] \in Identities
          /\ stage[p] = "created" => store = Partial
          /\ stage[p] = "failed" => store \in {Partial, drawn[p]}
          /\ stage[p] \in {"written", "synced", "hardened"} => store = drawn[p]
          /\ stage[p] = "exporting" => signer[p] \in Identities

StoreInv == IdentityTypeOK /\ OneOwner /\ IssuedIsStored

-----------------------------------------------------------------------------

LEMMA StoreInvInit == ASSUME InitIdentity PROVE StoreInv
BY DEF InitIdentity, StoreInv, IdentityTypeOK, OneOwner, Owning, IssuedIsStored, Stages

\* Before the store is created: nothing owns it.
LEMMA BeginEnrollKeeps ==
    ASSUME StoreInv, NEW p \in Processes, BeginEnroll(p) PROVE StoreInv'
BY DEF StoreInv, BeginEnroll, Goes, IdentityTypeOK, OneOwner, Owning, IssuedIsStored, Stages

\* create_new succeeds only where there is no file, hence no owner and no
\* identity that was handed out and kept.
LEMMA CreateNewKeeps ==
    ASSUME StoreInv, NEW p \in Processes, CreateNew(p) PROVE StoreInv'
<1>1. CASE /\ store = Absent /\ store' = Partial
           /\ Goes(p, "checked", "created") /\ UNCHANGED drawn
    BY <1>1, IdentityAssumption
    DEF StoreInv, CreateNew, Goes, IdentityTypeOK, OneOwner, Owning, IssuedIsStored, Stages
<1>2. CASE /\ store # Absent /\ Fails(p, "checked") /\ UNCHANGED store
    BY <1>2
    DEF StoreInv, CreateNew, Goes, Fails, IdentityTypeOK, OneOwner, Owning, IssuedIsStored,
        Stages
<1>3. QED
    BY <1>1, <1>2 DEF CreateNew

\* Writing, syncing, removing and hardening are done by the owner.
LEMMA WriteAllKeeps ==
    ASSUME StoreInv, NEW p \in Processes, WriteAll(p) PROVE StoreInv'
BY IdentityAssumption
DEF StoreInv, WriteAll, Goes, IdentityTypeOK, OneOwner, Owning, IssuedIsStored, Stages

LEMMA SyncAllKeeps ==
    ASSUME StoreInv, NEW p \in Processes, SyncAll(p) PROVE StoreInv'
BY DEF StoreInv, SyncAll, Goes, IdentityTypeOK, OneOwner, Owning, IssuedIsStored, Stages

LEMMA RemoveFileKeeps ==
    ASSUME StoreInv, NEW p \in Processes, RemoveFile(p) PROVE StoreInv'
<1>1. IdentityTypeOK'
    BY DEF StoreInv, RemoveFile, Goes, Fails, IdentityTypeOK, OneOwner, Stages
<1>2. OneOwner'
    BY DEF StoreInv, RemoveFile, Goes, Fails, IdentityTypeOK, OneOwner, Owning, Stages
<1>3. IssuedIsStored'
    BY IdentityAssumption
    DEF StoreInv, RemoveFile, Goes, Fails, IdentityTypeOK, OneOwner, IssuedIsStored
<1>4. QED
    BY <1>1, <1>2, <1>3 DEF StoreInv

LEMMA HardenKeeps ==
    ASSUME StoreInv, NEW p \in Processes, Harden(p) PROVE StoreInv'
BY DEF StoreInv, Harden, Goes, Fails, IdentityTypeOK, OneOwner, Owning, IssuedIsStored, Stages

\* Opening hands out what the store holds.
LEMMA OpenKeeps ==
    ASSUME StoreInv, NEW p \in Processes, Open(p) PROVE StoreInv'
BY DEF StoreInv, Open, IdentityTypeOK, OneOwner, Owning, IssuedIsStored, Stages

\* Export touches neither the store nor an enrollment.
LEMMA ExportKeeps ==
    ASSUME StoreInv, NEW p \in Processes, ReadAnchor(p) \/ PushAnchor(p) PROVE StoreInv'
BY DEF StoreInv, ReadAnchor, PushAnchor, Goes, IdentityTypeOK, OneOwner, Owning,
       IssuedIsStored, Stages

LEMMA KillKeeps ==
    ASSUME StoreInv, NEW p \in Processes, Kill(p) PROVE StoreInv'
BY DEF StoreInv, Kill, IdentityTypeOK, OneOwner, Owning, IssuedIsStored, Stages

LEMMA StoreInvStep == ASSUME StoreInv, IdentityStep PROVE StoreInv'
BY BeginEnrollKeeps, CreateNewKeeps, WriteAllKeeps, SyncAllKeeps, RemoveFileKeeps,
   HardenKeeps, OpenKeeps, ExportKeeps, KillKeeps
DEF IdentityStep

LEMMA StoreInvStutter == ASSUME StoreInv, UNCHANGED identityVars PROVE StoreInv'
BY DEF StoreInv, identityVars, IdentityTypeOK, OneOwner, Owning, IssuedIsStored

\* What the brake does leaves the identity alone.
LEMMA NextCases == [Next]_vars => IdentityStep \/ UNCHANGED identityVars
BY DEF Next, vars, Engage, Release, Alter, Evaluate, Tick

\* The inductive invariant of the store, under every step of the system.
THEOREM StoreInvariant == Spec => []StoreInv
<1>1. Init => StoreInv
    BY StoreInvInit DEF Init
<1>2. StoreInv /\ [Next]_vars => StoreInv'
    BY NextCases, StoreInvStep, StoreInvStutter
<1>3. QED
    BY <1>1, <1>2, PTL DEF Spec

\* Every signer handed out is of the identity in the store, unless the
\* enrollment of that identity failed and removed it: whatever processes
\* enroll at once, are killed, or fail to write.
THEOREM OneIdentity == Spec => []IssuedIsStored
<1>1. StoreInv => IssuedIsStored
    BY DEF StoreInv
<1>2. QED
    BY <1>1, StoreInvariant, PTL

-----------------------------------------------------------------------------
(* What a permitted deployment rests on.                                   *)

\* A signer, an anchor and the anchor of a grant were handed out before.
OnlyIssued ==
    /\ \A p \in Processes : signer[p] \in issued \cup {Absent}
    /\ anchor \in issued \cup {Absent}
    /\ \A d \in granted : d.under \in issued

LEMMA OnlyIssuedStep ==
    ASSUME StoreInv, OnlyIssued, [Next]_vars PROVE OnlyIssued'
<1>1. CASE IdentityStep /\ UNCHANGED brakeVars
    <2>1. PICK p \in Processes :
              \/ BeginEnroll(p) \/ CreateNew(p) \/ WriteAll(p) \/ SyncAll(p) \/ RemoveFile(p)
              \/ Harden(p) \/ Open(p) \/ ReadAnchor(p) \/ PushAnchor(p) \/ Kill(p)
        BY <1>1 DEF IdentityStep
    <2>2. CASE BeginEnroll(p) \/ CreateNew(p) \/ WriteAll(p) \/ SyncAll(p) \/ RemoveFile(p)
               \/ Harden(p) \/ ReadAnchor(p)
        BY <1>1, <2>2
        DEF OnlyIssued, brakeVars, BeginEnroll, CreateNew, WriteAll, SyncAll, RemoveFile,
            Harden, ReadAnchor
    <2>3. CASE Open(p)
        BY <1>1, <2>3 DEF OnlyIssued, brakeVars, Open, StoreInv, IdentityTypeOK
    <2>4. CASE PushAnchor(p)
        BY <1>1, <2>4 DEF OnlyIssued, brakeVars, PushAnchor
    <2>5. CASE Kill(p)
        BY <1>1, <2>5 DEF OnlyIssued, brakeVars, Kill, StoreInv, IdentityTypeOK
    <2>6. QED
        BY <2>1, <2>2, <2>3, <2>4, <2>5
<1>2. CASE Evaluate
    <2>1. anchor \in issued /\ UNCHANGED <<signer, anchor, issued>>
        BY <1>2 DEF OnlyIssued, Evaluate, identityVars
    <2>2. \A d \in granted' : d.under = anchor
        <3>1. PICK release, deployment :
                 granted' = {[release |-> release, deployment |-> deployment, at |-> now,
                              under |-> anchor, scope |-> brake.scope]}
            BY <1>2, ZenonT(40) DEF Evaluate
        <3>2. QED
            BY <3>1
    <2>3. QED
        BY <2>1, <2>2 DEF OnlyIssued
<1>3. CASE Engage \/ Alter \/ Tick \/ \E p \in Processes : Release(p)
    BY <1>3 DEF OnlyIssued, Engage, Alter, Tick, Release, identityVars
<1>4. CASE UNCHANGED vars
    BY <1>4 DEF OnlyIssued, vars, identityVars, brakeVars
<1>5. QED
    BY <1>1, <1>2, <1>3, <1>4 DEF Next

\* A permitted deployment rests on the identity of the operator's store, or
\* on one whose enrollment failed after it had been handed out.
THEOREM GrantsUnderStore == Spec => []GrantUnderStore
<1>1. Init => OnlyIssued
    BY DEF Init, InitIdentity, OnlyIssued
<1>2. StoreInv /\ OnlyIssued /\ [Next]_vars => OnlyIssued'
    BY OnlyIssuedStep
<1>3. StoreInv /\ OnlyIssued => GrantUnderStore
    BY DEF StoreInv, OnlyIssued, IssuedIsStored, GrantUnderStore
<1>4. QED
    BY <1>1, <1>2, <1>3, StoreInvariant, PTL DEF Spec

Grants == [release: Releases, deployment: Deployments, by: Identities, issued: Nat, expires: Nat]

\* The records a store may hold, whatever happened to them: every signature
\* in one was made by a signer.
Records ==
    [legible: BOOLEAN, ours: BOOLEAN, runtime: {Runtime, OtherRuntime}, scope: {"all", "deployment"},
     status: {"engaged", "released"}, observed: Nat, until: SUBSET Nat,
     grant: SUBSET Grants, signature: SUBSET signed]

BrakeInv ==
    /\ now \in Nat
    /\ brake \in Records \cup {Unreadable}
    /\ GrantAuthorized

LEMMA EngagedIsRecord == ASSUME now \in Nat PROVE EngagedRecord \in Records
BY DEF EngagedRecord, Records

\* A change of one field keeps the signature that was there.
LEMMA AlteredAreRecords ==
    ASSUME NEW r \in Records PROVE Altered(r) \subseteq Records \cup {Unreadable}
<1>1. /\ [r EXCEPT !.ours = FALSE] \in Records
      /\ [r EXCEPT !.runtime = Runtime] \in Records
      /\ [r EXCEPT !.scope = "all"] \in Records
      /\ [r EXCEPT !.until = {}] \in Records
    BY DEF Records
<1>2. ASSUME NEW g \in r.grant, NEW x \in Releases
      PROVE  [r EXCEPT !.grant = {[g EXCEPT !.release = x]}] \in Records
    <2>1. g \in Grants
        BY DEF Records
    <2>2. [g EXCEPT !.release = x] \in Grants
        BY <2>1 DEF Grants
    <2>3. QED
        BY <2>2 DEF Records
<1>3. ASSUME NEW g \in r.grant, NEW t \in 1 .. MaxTime + 2
      PROVE  [r EXCEPT !.grant = {[g EXCEPT !.expires = t]}] \in Records
    <2>1. g \in Grants
        BY DEF Records
    <2>2. t \in Nat
        BY BrakeAssumption
    <2>3. [g EXCEPT !.expires = t] \in Grants
        BY <2>1, <2>2 DEF Grants
    <2>4. QED
        BY <2>3 DEF Records
<1>4. SUFFICES ASSUME NEW x \in Altered(r) PROVE x \in Records \cup {Unreadable}
    OBVIOUS
<1>5. \/ x \in {Unreadable, [r EXCEPT !.ours = FALSE], [r EXCEPT !.runtime = Runtime],
               [r EXCEPT !.scope = "all"], [r EXCEPT !.until = {}]}
      \/ \E g \in r.grant :
            x \in {[r EXCEPT !.grant = {[g EXCEPT !.release = y]}] : y \in Releases}
                   \cup {[r EXCEPT !.grant = {[g EXCEPT !.expires = t]}] : t \in 1 .. MaxTime + 2}
    BY Zenon DEF Altered
<1>6. CASE x \in {Unreadable, [r EXCEPT !.ours = FALSE], [r EXCEPT !.runtime = Runtime],
                  [r EXCEPT !.scope = "all"], [r EXCEPT !.until = {}]}
    BY <1>1, <1>6, Zenon
<1>7. ASSUME NEW g \in r.grant,
             x \in {[r EXCEPT !.grant = {[g EXCEPT !.release = y]}] : y \in Releases}
                    \cup {[r EXCEPT !.grant = {[g EXCEPT !.expires = t]}] : t \in 1 .. MaxTime + 2}
      PROVE  x \in Records
    BY <1>2, <1>3, <1>7, Zenon
<1>8. QED
    BY <1>5, <1>6, <1>7, Zenon

\* Where the evaluation permits, what was signed is what is granted.
LEMMA PermittedIsAuthorized ==
    ASSUME BrakeInv, NEW a, NEW release, NEW deployment, NEW t \in Nat,
           Permits(brake, a, release, deployment, t)
    PROVE  \E s \in signed :
              /\ s.by = a
              /\ s.of.runtime = Runtime /\ s.of.scope = brake.scope
              /\ \A g \in s.of.grant :
                    /\ <<g.release, g.deployment>> = <<release, deployment>>
                    /\ g.issued <= t /\ t < g.expires
                    /\ g.expires - g.issued <= MaxLifetime
              /\ \A u \in s.of.until : t < u
<1>1. brake \in Records
    BY DEF BrakeInv, Permits, Classified, Validate, Unreadable
<1>2. /\ brake.grant # {} /\ brake.signature # {}
      /\ \A g \in brake.grant : g.expires - g.issued <= MaxLifetime
    BY DEF Permits, Classified, Validate
<1>3. PICK g \in brake.grant, s \in brake.signature : TRUE
    BY <1>2
<1>4. s \in signed
    BY <1>1 DEF Records
<1>5. s = [by |-> a, of |-> Unsigned(brake)]
    BY <1>3 DEF Permits, Verified, Verifies, Signature
<1>6. /\ Unsigned(brake).grant = brake.grant /\ Unsigned(brake).until = brake.until
      /\ Unsigned(brake).runtime = brake.runtime /\ Unsigned(brake).scope = brake.scope
    BY <1>1 DEF Unsigned, Records
<1>7. /\ \A h \in brake.grant : /\ <<h.release, h.deployment>> = <<release, deployment>>
                                 /\ h.issued <= t /\ t < h.expires
      /\ \A u \in brake.until : t < u
      /\ brake.runtime = Runtime
    BY DEF Permits, Classified, Live
<1>8. QED
    BY <1>2, <1>4, <1>5, <1>6, <1>7

LEMMA BrakeInvStep == ASSUME StoreInv, BrakeInv, [Next]_vars PROVE BrakeInv'
<1>1. CASE (IdentityStep /\ UNCHANGED brakeVars) \/ UNCHANGED vars
    BY <1>1 DEF BrakeInv, brakeVars, vars, Records, GrantAuthorized
<1>2. CASE Engage
    BY <1>2, EngagedIsRecord DEF BrakeInv, Engage, Records, GrantAuthorized
<1>3. ASSUME NEW p \in Processes, Release(p) PROVE BrakeInv'
    <2>1. PICK runtime \in {Runtime, OtherRuntime}, until \in Option({now + 1}) :
            \E release \in Releases, deployment \in Deployments,
               issued_at \in {now, now + 1}, expires_at \in {now + 1, now + 2} :
              LET r == [EngagedRecord EXCEPT
                           !.runtime = runtime,
                           !.status = "released",
                           !.until = until,
                           !.grant = {[release |-> release, deployment |-> deployment,
                                       by |-> signer[p], issued |-> issued_at,
                                       expires |-> expires_at]}]
              IN  /\ brake' = [r EXCEPT !.signature = {Signature(signer[p], r)}]
                  /\ signed' = signed \cup {Signature(signer[p], r)}
        BY <1>3 DEF Release
    <2>2. PICK release \in Releases, deployment \in Deployments,
               issued_at \in {now, now + 1}, expires_at \in {now + 1, now + 2} :
              LET r == [EngagedRecord EXCEPT
                           !.runtime = runtime,
                           !.status = "released",
                           !.until = until,
                           !.grant = {[release |-> release, deployment |-> deployment,
                                       by |-> signer[p], issued |-> issued_at,
                                       expires |-> expires_at]}]
              IN  /\ brake' = [r EXCEPT !.signature = {Signature(signer[p], r)}]
                  /\ signed' = signed \cup {Signature(signer[p], r)}
        BY <2>1
    <2> DEFINE grant == [release |-> release, deployment |-> deployment, by |-> signer[p],
                         issued |-> issued_at, expires |-> expires_at]
               r == [EngagedRecord EXCEPT !.runtime = runtime, !.status = "released",
                                          !.until = until, !.grant = {grant}]
    <2>3. brake' = [r EXCEPT !.signature = {Signature(signer[p], r)}]
          /\ signed' = signed \cup {Signature(signer[p], r)}
        BY <2>2
    <2>4. signer[p] \in Identities
        BY <1>3 DEF Release, StoreInv, IdentityTypeOK
    <2>5. grant \in Grants
        BY <2>4 DEF BrakeInv, Grants
    <2>6. until \in SUBSET Nat
        BY DEF BrakeInv, Option
    <2>7. r \in Records
        <3> HIDE DEF grant
        <3>1. EngagedRecord \in Records
            BY EngagedIsRecord DEF BrakeInv
        <3>2. QED
            BY <2>5, <2>6, <3>1 DEF Records
    <2>8. brake' \in Records'
        <3> HIDE DEF r
        <3>1. QED
            BY <2>3, <2>7 DEF Records
    <2>9. now' = now /\ granted' = granted
        BY <1>3 DEF Release
    <2>10. QED
        <3> HIDE DEF r
        <3>1. QED
            BY <2>3, <2>8, <2>9 DEF BrakeInv, GrantAuthorized
<1>4. CASE Alter
    <2>1. brake' \in Altered(brake) /\ now' = now /\ signed' = signed /\ granted' = granted
        BY <1>4 DEF Alter
    <2>2. brake \in Records
        BY <1>4 DEF Alter, BrakeInv, Unreadable
    <2>3. QED
        BY <2>1, <2>2, AlteredAreRecords DEF BrakeInv, Records, GrantAuthorized
<1>5. CASE Evaluate
    <2>1. PICK release \in Releases, deployment \in Deployments :
            /\ Permits(brake, anchor, release, deployment, now)
            /\ granted' = {[release |-> release, deployment |-> deployment, at |-> now,
                            under |-> anchor, scope |-> brake.scope]}
            /\ UNCHANGED <<identityVars, now, brake, signed>>
        BY <1>5 DEF Evaluate
    <2>2. GrantAuthorized'
        BY <2>1, PermittedIsAuthorized DEF GrantAuthorized, BrakeInv
    <2>3. QED
        BY <2>1, <2>2 DEF BrakeInv, Records
<1>6. CASE Tick
    BY <1>6 DEF BrakeInv, Tick, Records, GrantAuthorized
<1>7. QED
    BY <1>1, <1>2, <1>3, <1>4, <1>5, <1>6 DEF Next

\* A deployment is permitted only within what an operator signed for it.
THEOREM GrantsAuthorized == Spec => []GrantAuthorized
<1>1. Init => BrakeInv
    BY DEF Init, BrakeInv, GrantAuthorized
<1>2. StoreInv /\ BrakeInv /\ [Next]_vars => BrakeInv'
    BY BrakeInvStep
<1>3. BrakeInv => GrantAuthorized
    BY DEF BrakeInv
<1>4. QED
    BY <1>1, <1>2, <1>3, StoreInvariant, PTL DEF Spec

-----------------------------------------------------------------------------
(* The trust anchor.                                                       *)

\* A settled anchor stays settled, and nobody else's export succeeds: exports
\* read it and find theirs or refuse, and nothing else writes the file.
LEMMA SettledStep ==
    ASSUME StoreInv, NEW i \in Identities, Settled(i), [Next]_vars
    PROVE  Settled(i)' /\ exported' \subseteq exported \cup {i}
<1>1. i # Absent
    BY IdentityAssumption
<1>2. CASE IdentityStep
    <2>1. PICK p \in Processes :
              \/ BeginEnroll(p) \/ CreateNew(p) \/ WriteAll(p) \/ SyncAll(p) \/ RemoveFile(p)
              \/ Harden(p) \/ Open(p) \/ ReadAnchor(p) \/ PushAnchor(p) \/ Kill(p)
        BY <1>2 DEF IdentityStep
    <2>2. CASE BeginEnroll(p) \/ CreateNew(p) \/ WriteAll(p) \/ SyncAll(p) \/ RemoveFile(p)
               \/ Harden(p)
        <3>1. anchor' = anchor /\ exported' = exported
            BY <2>2 DEF BeginEnroll, CreateNew, WriteAll, SyncAll, RemoveFile, Harden
        <3>2. \E to \in Stages \ {"exporting"} : stage' = [stage EXCEPT ![p] = to]
            BY <2>2
            DEF BeginEnroll, CreateNew, WriteAll, SyncAll, RemoveFile, Harden, Goes, Fails, Stages
        <3>3. QED
            BY <3>1, <3>2 DEF Settled
    <2>3. CASE Open(p) \/ Kill(p)
        BY <2>3 DEF Open, Kill, Settled, StoreInv, IdentityTypeOK
    <2>4. CASE ReadAnchor(p)
        \* Its export is of i already: the file is not empty.
        BY <1>1, <2>4 DEF ReadAnchor, Settled
    <2>5. CASE PushAnchor(p)
        BY <2>5 DEF PushAnchor, Goes, Settled
    <2>6. QED
        BY <2>1, <2>2, <2>3, <2>4, <2>5
<1>3. CASE UNCHANGED identityVars
    BY <1>3 DEF Settled, identityVars
<1>4. QED
    BY <1>2, <1>3, NextCases

\* Once an anchor is in its file, and no export that found the file empty is
\* still to write, it stays there for ever and is all that exports return,
\* whichever identities are enrolled, withdrawn and handed out after it.
THEOREM AnchorStays == Spec => AnchorSettled
<1>1. StoreInv /\ [Next]_vars =>
          [\A i \in Identities :
              Settled(i) => Settled(i)' /\ exported' \subseteq exported \cup {i}]_identityVars
    BY SettledStep
<1>2. QED
    BY <1>1, StoreInvariant, PTL DEF Spec, AnchorSettled

\* The state of the store and of its processes is always of its type.
THEOREM IdentityTypeCorrect == Spec => []IdentityTypeOK
<1>1. StoreInv => IdentityTypeOK
    BY DEF StoreInv
<1>2. QED
    BY <1>1, StoreInvariant, PTL
=============================================================================

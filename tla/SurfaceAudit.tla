----------------------------- MODULE SurfaceAudit -----------------------------
(***************************************************************************)
(* DeploymentManifest (surface.py): the operator declares every effect     *)
(* surface of a deployment, and the manifest audits itself.  audit walks   *)
(* the surfaces in order and collects findings; assert_complete refuses    *)
(* the deployment when one of them is CRITICAL or HIGH.  A duplicate is    *)
(* only a MEDIUM finding, and is audited like any other surface: the same  *)
(* channel may be declared twice, well and badly.                          *)
(***************************************************************************)
EXTENDS Integers, Sequences, FiniteSets

CONSTANTS
    Names, Channels,
    Boundaries,         \* enforcement_boundary texts
    Blank,              \* those that strip() leaves empty
    MaxSurfaces         \* bound: the length of a manifest

ASSUME SurfaceAssumption == Blank \subseteq Boundaries /\ MaxSurfaces \in Nat

Surfaces ==
    [name : Names, channel : Channels, externally_effective : BOOLEAN,
     sink_mediated : BOOLEAN, enforcement_boundary : Boundaries, privileged : BOOLEAN]

Findings ==
    [severity : {"CRITICAL", "HIGH", "MEDIUM"}, surface : Names,
     reason : {"duplicate_surface_definition", "unguarded_external_effect_path",
               "sink_boundary_not_privileged", "missing_enforcement_boundary"}]

VARIABLES
    surfaces,           \* the manifest
    at,                 \* idle, audit, or the verdict of assert_complete
    pos,                \* the loop's next surface
    seen,               \* the names and channels met so far
    findings

auditVars == <<surfaces, at, pos, seen, findings>>

AuditInit ==
    /\ surfaces = <<>>
    /\ at = "idle"
    /\ pos = 1 /\ seen = {} /\ findings = <<>>

(* A manifest is built anew from the old one's surfaces and one more. *)
Declare(s) ==
    /\ at # "audit"
    /\ Len(surfaces) < MaxSurfaces
    /\ surfaces' = Append(surfaces, s)
    /\ at' = "idle"
    /\ UNCHANGED <<pos, seen, findings>>

(* The fault: positions are counted from zero. *)
BeginAtZero ==
    /\ at # "audit"
    /\ at' = "audit"
    /\ pos' = 0 /\ seen' = {} /\ findings' = <<>>
    /\ UNCHANGED surfaces

BeginAudit ==
    /\ at # "audit"
    /\ at' = "audit"
    /\ pos' = 1 /\ seen' = {} /\ findings' = <<>>
    /\ UNCHANGED surfaces

SurfaceKey(s) == <<s.name, s.channel>>

Finding(s, severity, reason) == [severity |-> severity, surface |-> s.name, reason |-> reason]

Duplicates(s) ==
    IF SurfaceKey(s) \in seen THEN <<Finding(s, "MEDIUM", "duplicate_surface_definition")>> ELSE <<>>

Exposures(s) ==
    IF ~s.externally_effective THEN <<>>
    ELSE (IF s.sink_mediated THEN <<>>
          ELSE <<Finding(s, "CRITICAL", "unguarded_external_effect_path")>>)
         \o (IF s.privileged THEN <<>>
             ELSE <<Finding(s, "HIGH", "sink_boundary_not_privileged")>>)
         \o (IF s.enforcement_boundary \notin Blank THEN <<>>
             ELSE <<Finding(s, "HIGH", "missing_enforcement_boundary")>>)

(* The fault: what is a duplicate is not looked at again. *)
SkipDuplicate ==
    /\ at = "audit" /\ pos <= Len(surfaces)
    /\ LET s == surfaces[pos]
       IN  /\ findings' = findings \o Duplicates(s)
                          \o (IF SurfaceKey(s) \in seen THEN <<>> ELSE Exposures(s))
           /\ seen' = seen \cup {SurfaceKey(s)}
    /\ pos' = pos + 1
    /\ UNCHANGED <<surfaces, at>>

(* The fault: a surface without external effect is passed over at once. *)
SkipInternal ==
    /\ at = "audit" /\ pos <= Len(surfaces)
    /\ LET s == surfaces[pos]
       IN  IF s.externally_effective
           THEN /\ findings' = findings \o Duplicates(s) \o Exposures(s)
                /\ seen' = seen \cup {SurfaceKey(s)}
           ELSE UNCHANGED <<findings, seen>>
    /\ pos' = pos + 1
    /\ UNCHANGED <<surfaces, at>>

AuditSurface ==
    /\ at = "audit" /\ pos <= Len(surfaces)
    /\ LET s == surfaces[pos]
       IN  /\ findings' = findings \o Duplicates(s) \o Exposures(s)
           /\ seen' = seen \cup {SurfaceKey(s)}
    /\ pos' = pos + 1
    /\ UNCHANGED <<surfaces, at>>

Blocking(f) == f.severity \in {"CRITICAL", "HIGH"}

(* The end of assert_complete. *)
Conclude ==
    /\ at = "audit" /\ pos > Len(surfaces)
    /\ at' = IF \E i \in DOMAIN findings : Blocking(findings[i]) THEN "incomplete" ELSE "complete"
    /\ UNCHANGED <<surfaces, pos, seen, findings>>

AuditNext ==
    \/ \E s \in Surfaces : Declare(s)
    \/ BeginAudit \/ AuditSurface \/ Conclude

AuditSpec == AuditInit /\ [][AuditNext]_auditVars

-----------------------------------------------------------------------------
AuditTypeOK ==
    /\ surfaces \in Seq(Surfaces)
    /\ at \in {"idle", "audit", "complete", "incomplete"}
    /\ pos \in 1 .. Len(surfaces) + 1
    /\ seen \subseteq Names \X Channels
    /\ findings \in Seq(Findings)

Guarded(s) ==
    s.externally_effective =>
        s.sink_mediated /\ s.privileged /\ s.enforcement_boundary \notin Blank

(* The verdict is about every declaration: a deployment passes exactly     *)
(* when each external path is mediated by a sink at a privileged, named    *)
(* boundary, also the second time it is declared (surface.py:36-56).       *)
VerdictRight ==
    /\ at = "complete" => \A i \in DOMAIN surfaces : Guarded(surfaces[i])
    /\ at = "incomplete" => \E i \in DOMAIN surfaces : ~Guarded(surfaces[i])

(* No declaration is silently dropped: besides its exposures the audit     *)
(* reports as many duplicates as there are declarations beyond the first   *)
(* of their name and channel, internal ones included (surface.py:37-43).   *)
DuplicatesReported ==
    at \in {"complete", "incomplete"} =>
        Cardinality({i \in DOMAIN findings : findings[i].severity = "MEDIUM"})
            = Len(surfaces) - Cardinality({SurfaceKey(surfaces[i]) : i \in DOMAIN surfaces})
=============================================================================

-------------------------- MODULE SurfaceAuditProofs --------------------------
(***************************************************************************)
(* For manifests of any length over any names, channels and boundaries:    *)
(* the audit is well typed, and its verdict is right.                      *)
(***************************************************************************)
EXTENDS SurfaceAudit, SequenceTheorems, FiniteSetTheorems, TLAPS

LEMMA FindingTyped ==
    ASSUME NEW s \in Surfaces
    PROVE  /\ Duplicates(s) \in Seq(Findings)
           /\ Exposures(s) \in Seq(Findings)
  <1> DEFINE f == Finding(s, "CRITICAL", "unguarded_external_effect_path")
             g == Finding(s, "HIGH", "sink_boundary_not_privileged")
             h == Finding(s, "HIGH", "missing_enforcement_boundary")
             d == Finding(s, "MEDIUM", "duplicate_surface_definition")
             F == IF s.sink_mediated THEN <<>> ELSE <<f>>
             G == IF s.privileged THEN <<>> ELSE <<g>>
             H == IF s.enforcement_boundary \notin Blank THEN <<>> ELSE <<h>>
  <1>1. s.name \in Names
    BY DEF Surfaces
  <1>2. f \in Findings /\ g \in Findings /\ h \in Findings /\ d \in Findings
    BY <1>1 DEF Finding, Findings
  <1> HIDE DEF f, g, h, d
  <1>3. /\ F \in Seq(Findings) /\ G \in Seq(Findings) /\ H \in Seq(Findings)
        /\ <<d>> \in Seq(Findings) /\ <<>> \in Seq(Findings)
    BY <1>2
  <1>4. Duplicates(s) = IF SurfaceKey(s) \in seen THEN <<d>> ELSE <<>>
    BY DEF Duplicates, d
  <1>5. Exposures(s) = IF ~s.externally_effective THEN <<>> ELSE F \o G \o H
    BY DEF Exposures, f, g, h
  <1> HIDE DEF F, G, H
  <1> QED
    BY <1>3, <1>4, <1>5

LEMMA InitTyped == AuditInit => AuditTypeOK
  BY DEF AuditInit, AuditTypeOK

LEMMA AuditSurfaceTyped ==
    ASSUME AuditTypeOK, AuditSurface
    PROVE  AuditTypeOK'
  <1> DEFINE s == surfaces[pos]
  <1>1. s \in Surfaces
    BY DEF AuditTypeOK, AuditSurface
  <1>2. findings \o Duplicates(s) \o Exposures(s) \in Seq(Findings)
    BY <1>1, FindingTyped DEF AuditTypeOK
  <1>3. SurfaceKey(s) \in Names \X Channels
    BY <1>1 DEF SurfaceKey, Surfaces
  <1> QED
    BY <1>2, <1>3 DEF AuditTypeOK, AuditSurface

LEMMA NextTyped == AuditTypeOK /\ [AuditNext]_auditVars => AuditTypeOK'
  <1> SUFFICES ASSUME AuditTypeOK, [AuditNext]_auditVars PROVE AuditTypeOK'
    OBVIOUS
  <1>1. ASSUME NEW s \in Surfaces, Declare(s) PROVE AuditTypeOK'
    BY <1>1 DEF AuditTypeOK, Declare
  <1>2. CASE BeginAudit
    BY <1>2 DEF AuditTypeOK, BeginAudit
  <1>3. CASE AuditSurface
    BY <1>3, AuditSurfaceTyped
  <1>4. CASE Conclude
    BY <1>4 DEF AuditTypeOK, Conclude
  <1>5. CASE UNCHANGED auditVars
    BY <1>5 DEF AuditTypeOK, auditVars
  <1> QED
    BY <1>1, <1>2, <1>3, <1>4, <1>5 DEF AuditNext

(* Every reachable state of an audit is well typed. *)
THEOREM AuditTypeCorrect == AuditSpec => []AuditTypeOK
  BY InitTyped, NextTyped, PTL DEF AuditSpec

-----------------------------------------------------------------------------
(* What the loop has found so far is what the surfaces it has passed have  *)
(* wrong with them.                                                        *)
SomeBlocking(fs) == \E i \in DOMAIN fs : Blocking(fs[i])

LoopInvariant ==
    /\ at = "audit" =>
          (SomeBlocking(findings) <=> \E i \in 1 .. pos - 1 : ~Guarded(surfaces[i]))
    /\ VerdictRight

LEMMA SomeBlockingConcat ==
    ASSUME NEW fs \in Seq(Findings), NEW gs \in Seq(Findings)
    PROVE  SomeBlocking(fs \o gs) <=> SomeBlocking(fs) \/ SomeBlocking(gs)
  <1>1. ASSUME NEW i \in DOMAIN (fs \o gs), Blocking((fs \o gs)[i])
        PROVE  SomeBlocking(fs) \/ SomeBlocking(gs)
    <2>1. CASE i <= Len(fs)
      BY <1>1, <2>1 DEF SomeBlocking
    <2>2. CASE i > Len(fs)
      <3>1. i - Len(fs) \in DOMAIN gs /\ gs[i - Len(fs)] = (fs \o gs)[i]
        BY <1>1, <2>2
      <3> QED
        BY <1>1, <3>1 DEF SomeBlocking
    <2> QED
      BY <1>1, <2>1, <2>2
  <1>2. ASSUME NEW i \in DOMAIN fs, Blocking(fs[i])
        PROVE  SomeBlocking(fs \o gs)
    <2>1. i \in DOMAIN (fs \o gs) /\ (fs \o gs)[i] = fs[i]
      BY <1>2
    <2> QED
      BY <1>2, <2>1 DEF SomeBlocking
  <1>3. ASSUME NEW i \in DOMAIN gs, Blocking(gs[i])
        PROVE  SomeBlocking(fs \o gs)
    <2>1. /\ i + Len(fs) \in DOMAIN (fs \o gs)
          /\ (fs \o gs)[i + Len(fs)] = gs[i]
      BY <1>3
    <2> QED
      BY <1>3, <2>1 DEF SomeBlocking
  <1> QED
    BY <1>1, <1>2, <1>3 DEF SomeBlocking

(* One surface adds a blocking finding exactly when it is not guarded.     *)
LEMMA ExposuresRight ==
    ASSUME NEW s \in Surfaces
    PROVE  SomeBlocking(Duplicates(s) \o Exposures(s)) <=> ~Guarded(s)
  <1>1. ~SomeBlocking(Duplicates(s))
    BY DEF SomeBlocking, Duplicates, Finding, Blocking
  <1>2. SomeBlocking(Exposures(s)) <=> ~Guarded(s)
    <2> DEFINE f == Finding(s, "CRITICAL", "unguarded_external_effect_path")
               g == Finding(s, "HIGH", "sink_boundary_not_privileged")
               h == Finding(s, "HIGH", "missing_enforcement_boundary")
               F == IF s.sink_mediated THEN <<>> ELSE <<f>>
               G == IF s.privileged THEN <<>> ELSE <<g>>
               H == IF s.enforcement_boundary \notin Blank THEN <<>> ELSE <<h>>
    <2>1. s.name \in Names
      BY DEF Surfaces
    <2>2. f \in Findings /\ g \in Findings /\ h \in Findings
      BY <2>1 DEF Finding, Findings
    <2>3. Blocking(f) /\ Blocking(g) /\ Blocking(h)
      BY DEF Finding, Blocking
    <2>4. \A x : Blocking(x) => SomeBlocking(<<x>>)
      BY DEF SomeBlocking
    <2>5. ~SomeBlocking(<<>>)
      BY DEF SomeBlocking
    <2>6. F \in Seq(Findings) /\ G \in Seq(Findings) /\ H \in Seq(Findings)
      BY <2>2
    <2>7. /\ SomeBlocking(F) <=> ~s.sink_mediated
          /\ SomeBlocking(G) <=> ~s.privileged
          /\ SomeBlocking(H) <=> s.enforcement_boundary \in Blank
      BY <2>3, <2>4, <2>5 DEF Surfaces
    <2>8. Exposures(s) = IF ~s.externally_effective THEN <<>> ELSE F \o G \o H
      BY DEF Exposures
    <2> HIDE DEF F, G, H
    <2>9. SomeBlocking(F \o G \o H)
             <=> SomeBlocking(F) \/ SomeBlocking(G) \/ SomeBlocking(H)
      <3>1. F \o G \in Seq(Findings)
        BY <2>6
      <3> QED
        BY <2>6, <3>1, SomeBlockingConcat
    <2> QED
      BY <2>5, <2>7, <2>8, <2>9 DEF Guarded, Surfaces
  <1> QED
    BY <1>1, <1>2, FindingTyped, SomeBlockingConcat

LEMMA AuditSurfaceKeepsLoop ==
    ASSUME AuditTypeOK, LoopInvariant, AuditSurface
    PROVE  LoopInvariant'
  <1> DEFINE s == surfaces[pos]
             new == Duplicates(s) \o Exposures(s)
  <1>1. s \in Surfaces /\ pos \in Nat /\ UNCHANGED <<surfaces, at>> /\ at = "audit"
        /\ pos' = pos + 1
    BY DEF AuditTypeOK, AuditSurface
  <1>2. Duplicates(s) \in Seq(Findings) /\ Exposures(s) \in Seq(Findings)
    BY <1>1, FindingTyped
  <1>3. findings' = findings \o new /\ new \in Seq(Findings) /\ findings \in Seq(Findings)
    <2>1. new \in Seq(Findings)
      BY <1>2
    <2>2. findings \in Seq(Findings)
      BY DEF AuditTypeOK
    <2>3. findings' = (findings \o Duplicates(s)) \o Exposures(s)
      BY DEF AuditSurface
    <2>4. findings' = findings \o new
      BY <1>2, <2>2, <2>3, ConcatAssociative
    <2> QED
      BY <2>1, <2>2, <2>4
  <1>4. SomeBlocking(new) <=> ~Guarded(s)
    BY <1>1, ExposuresRight
  <1> HIDE DEF new
  <1>5. SomeBlocking(findings') <=> SomeBlocking(findings) \/ ~Guarded(s)
    BY <1>3, <1>4, SomeBlockingConcat
  <1>6. 1 .. pos' - 1 = (1 .. pos - 1) \cup {pos}
    BY <1>1 DEF AuditTypeOK
  <1> QED
    BY <1>1, <1>5, <1>6 DEF LoopInvariant, VerdictRight, SomeBlocking, Guarded

LEMMA NextKeepsLoop ==
    AuditTypeOK /\ LoopInvariant /\ [AuditNext]_auditVars => LoopInvariant'
  <1> SUFFICES ASSUME AuditTypeOK, LoopInvariant, [AuditNext]_auditVars PROVE LoopInvariant'
    OBVIOUS
  <1>1. ASSUME NEW s \in Surfaces, Declare(s) PROVE LoopInvariant'
    BY <1>1 DEF LoopInvariant, VerdictRight, Declare
  <1>2. CASE BeginAudit
    BY <1>2 DEF LoopInvariant, VerdictRight, BeginAudit, SomeBlocking
  <1>3. CASE AuditSurface
    BY <1>3, AuditSurfaceKeepsLoop
  <1>4. CASE Conclude
    <2>1. 1 .. pos - 1 = DOMAIN surfaces
      BY <1>4 DEF AuditTypeOK, Conclude
    <2> QED
      BY <1>4, <2>1 DEF LoopInvariant, VerdictRight, Conclude, SomeBlocking
  <1>5. CASE UNCHANGED auditVars
    BY <1>5 DEF LoopInvariant, VerdictRight, auditVars, SomeBlocking
  <1> QED
    BY <1>1, <1>2, <1>3, <1>4, <1>5 DEF AuditNext

(* assert_complete lets a manifest pass exactly when every external path   *)
(* in it is mediated, privileged and at a named boundary, however long the *)
(* manifest and whatever its order and duplicates (surface.py:34-56).      *)
THEOREM VerdictRightCorrect == AuditSpec => []VerdictRight
  <1>1. AuditInit => AuditTypeOK /\ LoopInvariant
    BY InitTyped DEF AuditInit, LoopInvariant, VerdictRight
  <1>2. AuditTypeOK /\ LoopInvariant /\ [AuditNext]_auditVars => (AuditTypeOK /\ LoopInvariant)'
    BY NextTyped, NextKeepsLoop
  <1>3. LoopInvariant => VerdictRight
    BY DEF LoopInvariant
  <1> QED
    BY <1>1, <1>2, <1>3, PTL DEF AuditSpec
-----------------------------------------------------------------------------
(* The duplicates: as many MEDIUM findings so far as surfaces passed       *)
(* beyond the first of their key.                                          *)
Mediums(fs) == {i \in DOMAIN fs : fs[i].severity = "MEDIUM"}

Keys(ss, n) == {SurfaceKey(ss[i]) : i \in 1 .. n}

DuplicatesCounted ==
    /\ at = "audit" =>
          /\ seen = Keys(surfaces, pos - 1)
          /\ IsFiniteSet(seen)
          /\ Cardinality(Mediums(findings)) + Cardinality(seen) = pos - 1
    /\ DuplicatesReported

LEMMA NoMoreMediums ==
    ASSUME NEW fs \in Seq(Findings), NEW gs \in Seq(Findings), Mediums(gs) = {}
    PROVE  Mediums(fs \o gs) = Mediums(fs)
  <1>1. ASSUME NEW i \in Mediums(fs \o gs)
        PROVE  i \in Mediums(fs)
    <2>1. i \in DOMAIN (fs \o gs) /\ (fs \o gs)[i].severity = "MEDIUM"
      BY DEF Mediums
    <2>2. CASE i <= Len(fs)
      BY <2>1, <2>2 DEF Mediums
    <2>3. CASE i > Len(fs)
      <3>1. i - Len(fs) \in DOMAIN gs /\ gs[i - Len(fs)] = (fs \o gs)[i]
        BY <2>1, <2>3
      <3> QED
        BY <2>1, <3>1 DEF Mediums
    <2> QED
      BY <2>1, <2>2, <2>3
  <1>2. ASSUME NEW i \in Mediums(fs)
        PROVE  i \in Mediums(fs \o gs)
    <2>1. i \in DOMAIN fs /\ fs[i].severity = "MEDIUM"
      BY DEF Mediums
    <2>2. i \in DOMAIN (fs \o gs) /\ (fs \o gs)[i] = fs[i]
      BY <2>1
    <2> QED
      BY <2>1, <2>2 DEF Mediums
  <1> QED
    BY <1>1, <1>2

LEMMA OneMoreMedium ==
    ASSUME NEW fs \in Seq(Findings), NEW d \in Findings, d.severity = "MEDIUM"
    PROVE  /\ Mediums(fs \o <<d>>) = Mediums(fs) \cup {Len(fs) + 1}
           /\ Len(fs) + 1 \notin Mediums(fs)
  <1> DEFINE gs == fs \o <<d>>
  <1>1. /\ DOMAIN gs = 1 .. Len(fs) + 1 /\ DOMAIN fs = 1 .. Len(fs) /\ Len(fs) \in Nat
        /\ gs[Len(fs) + 1] = d
        /\ \A i \in 1 .. Len(fs) : gs[i] = fs[i]
    OBVIOUS
  <1> HIDE DEF gs
  <1>2. Mediums(gs) = Mediums(fs) \cup {Len(fs) + 1}
    BY <1>1 DEF Mediums
  <1> QED
    BY <1>1, <1>2 DEF Mediums, gs

LEMMA MediumsFinite ==
    ASSUME NEW fs \in Seq(Findings)
    PROVE  IsFiniteSet(Mediums(fs)) /\ Cardinality(Mediums(fs)) \in Nat
  <1>1. Len(fs) \in Nat /\ DOMAIN fs = 1 .. Len(fs)
    OBVIOUS
  <1>2. IsFiniteSet(1 .. Len(fs))
    BY <1>1, FS_Interval
  <1>3. Mediums(fs) \subseteq 1 .. Len(fs)
    BY <1>1 DEF Mediums
  <1> QED
    BY <1>2, <1>3, FS_Subset, FS_CardinalityType

LEMMA ExposuresNotMedium ==
    ASSUME NEW s \in Surfaces
    PROVE  Mediums(Exposures(s)) = {}
  <1> DEFINE f == Finding(s, "CRITICAL", "unguarded_external_effect_path")
             g == Finding(s, "HIGH", "sink_boundary_not_privileged")
             h == Finding(s, "HIGH", "missing_enforcement_boundary")
             F == IF s.sink_mediated THEN <<>> ELSE <<f>>
             G == IF s.privileged THEN <<>> ELSE <<g>>
             H == IF s.enforcement_boundary \notin Blank THEN <<>> ELSE <<h>>
  <1>1. s.name \in Names
    BY DEF Surfaces
  <1>2. /\ f \in Findings /\ g \in Findings /\ h \in Findings
        /\ f.severity # "MEDIUM" /\ g.severity # "MEDIUM" /\ h.severity # "MEDIUM"
    BY <1>1 DEF Finding, Findings
  <1> HIDE DEF f, g, h
  <1>3. Mediums(<<>>) = {} /\ \A x : x.severity # "MEDIUM" => Mediums(<<x>>) = {}
    BY DEF Mediums
  <1>4. /\ F \in Seq(Findings) /\ G \in Seq(Findings) /\ H \in Seq(Findings)
        /\ Mediums(F) = {} /\ Mediums(G) = {} /\ Mediums(H) = {}
    BY <1>2, <1>3
  <1>5. Exposures(s) = IF ~s.externally_effective THEN <<>> ELSE F \o G \o H
    BY DEF Exposures, f, g, h
  <1> HIDE DEF F, G, H
  <1>6. F \o G \in Seq(Findings) /\ Mediums(F \o G) = {}
    BY <1>4, NoMoreMediums
  <1>7. Mediums(F \o G \o H) = {}
    BY <1>4, <1>6, NoMoreMediums
  <1> QED
    BY <1>3, <1>5, <1>7

LEMMA AuditSurfaceCounts ==
    ASSUME AuditTypeOK, DuplicatesCounted, AuditSurface
    PROVE  DuplicatesCounted'
  <1> DEFINE s == surfaces[pos]
             d == Finding(s, "MEDIUM", "duplicate_surface_definition")
  <1>1. /\ s \in Surfaces /\ pos \in Nat \ {0} /\ pos' = pos + 1
        /\ at = "audit" /\ at' = "audit" /\ surfaces' = surfaces
        /\ seen' = seen \cup {SurfaceKey(s)}
        /\ findings \in Seq(Findings)
    BY DEF AuditTypeOK, AuditSurface
  <1>2. /\ Duplicates(s) \in Seq(Findings) /\ Exposures(s) \in Seq(Findings)
        /\ Mediums(Exposures(s)) = {}
    BY <1>1, FindingTyped, ExposuresNotMedium
  <1>3. /\ findings' = (findings \o Duplicates(s)) \o Exposures(s)
        /\ findings \o Duplicates(s) \in Seq(Findings)
    BY <1>1, <1>2 DEF AuditSurface
  <1>4. Mediums(findings') = Mediums(findings \o Duplicates(s))
    BY <1>2, <1>3, NoMoreMediums
  <1>5. /\ IsFiniteSet(seen) /\ Cardinality(seen) \in Nat
        /\ IsFiniteSet(Mediums(findings)) /\ Cardinality(Mediums(findings)) \in Nat
        /\ Cardinality(Mediums(findings)) + Cardinality(seen) = pos - 1
        /\ pos \in Int
    BY <1>1, MediumsFinite, FS_CardinalityType DEF DuplicatesCounted
  <1>6. /\ IsFiniteSet(seen')
        /\ Cardinality(Mediums(findings')) + Cardinality(seen') = pos
    <2>1. CASE SurfaceKey(s) \in seen
      <3>1. Duplicates(s) = <<d>> /\ d \in Findings /\ d.severity = "MEDIUM"
        BY <1>1, <2>1 DEF Duplicates, Finding, Findings, Surfaces
      <3> HIDE DEF d
      <3>2. /\ Mediums(findings') = Mediums(findings) \cup {Len(findings) + 1}
            /\ Len(findings) + 1 \notin Mediums(findings)
        BY <1>1, <1>4, <3>1, OneMoreMedium
      <3>3. Cardinality(Mediums(findings) \cup {Len(findings) + 1})
              = Cardinality(Mediums(findings)) + 1
        BY <1>5, <3>2, FS_AddElement
      <3>4. seen' = seen
        BY <1>1, <2>1
      <3> QED
        BY <1>5, <3>2, <3>3, <3>4
    <2>2. CASE SurfaceKey(s) \notin seen
      <3>1. Mediums(findings') = Mediums(findings)
        BY <1>1, <1>4, <2>2 DEF Duplicates
      <3> DEFINE more == seen \cup {SurfaceKey(s)}
      <3>2. IsFiniteSet(more) /\ Cardinality(more) = Cardinality(seen) + 1
        BY <1>5, <2>2, FS_AddElement
      <3>3. seen' = more
        BY <1>1
      <3> HIDE DEF more
      <3> QED
        BY <1>5, <3>1, <3>2, <3>3
    <2> QED
      BY <2>1, <2>2
  <1>7. seen' = Keys(surfaces', pos' - 1)
    <2>1. 1 .. pos' - 1 = (1 .. pos - 1) \cup {pos}
      BY <1>1
    <2>2. seen = Keys(surfaces, pos - 1)
      BY <1>1 DEF DuplicatesCounted
    <2> QED
      BY <1>1, <2>1, <2>2 DEF Keys
  <1>8. pos' - 1 = pos
    BY <1>1
  <1>9. DuplicatesReported'
    BY <1>1 DEF DuplicatesReported
  <1> QED
    BY <1>6, <1>7, <1>8, <1>9 DEF DuplicatesCounted

LEMMA NextCounts ==
    AuditTypeOK /\ DuplicatesCounted /\ [AuditNext]_auditVars => DuplicatesCounted'
  <1> SUFFICES ASSUME AuditTypeOK, DuplicatesCounted, [AuditNext]_auditVars
               PROVE  DuplicatesCounted'
    OBVIOUS
  <1>1. ASSUME NEW s \in Surfaces, Declare(s) PROVE DuplicatesCounted'
    BY <1>1 DEF DuplicatesCounted, DuplicatesReported, Declare
  <1>2. CASE BeginAudit
    <2>1. /\ at' = "audit" /\ seen' = {} /\ pos' = 1 /\ findings' = <<>>
      BY <1>2 DEF BeginAudit
    <2>2. Mediums(findings') = {}
      BY <2>1 DEF Mediums
    <2>3. Keys(surfaces', pos' - 1) = {}
      BY <2>1 DEF Keys
    <2> QED
      BY <2>1, <2>2, <2>3, FS_EmptySet DEF DuplicatesCounted, DuplicatesReported
  <1>3. CASE AuditSurface
    BY <1>3, AuditSurfaceCounts
  <1>4. CASE Conclude
    <2>1. /\ at = "audit" /\ at' \in {"complete", "incomplete"}
          /\ UNCHANGED <<surfaces, pos, seen, findings>>
          /\ pos - 1 = Len(surfaces) /\ 1 .. pos - 1 = DOMAIN surfaces /\ Len(surfaces) \in Nat
          /\ findings \in Seq(Findings)
      BY <1>4 DEF AuditTypeOK, Conclude
    <2>2. /\ Cardinality(Mediums(findings)) \in Nat /\ Cardinality(seen) \in Nat
          /\ Cardinality(Mediums(findings)) + Cardinality(seen) = Len(surfaces)
      BY <2>1, MediumsFinite, FS_CardinalityType DEF DuplicatesCounted
    <2>3. seen = {SurfaceKey(surfaces[i]) : i \in DOMAIN surfaces}
      BY <2>1 DEF DuplicatesCounted, Keys
    <2>4. DuplicatesReported'
      BY <2>1, <2>2, <2>3 DEF DuplicatesReported, Mediums, SurfaceKey
    <2> QED
      BY <2>1, <2>4 DEF DuplicatesCounted
  <1>5. CASE UNCHANGED auditVars
    BY <1>5 DEF DuplicatesCounted, DuplicatesReported, Mediums, Keys, SurfaceKey, auditVars
  <1> QED
    BY <1>1, <1>2, <1>3, <1>4, <1>5 DEF AuditNext

(* No declaration is silently dropped: for a manifest of any length the    *)
(* audit reports exactly the declarations beyond the first of their name   *)
(* and channel (surface.py:37-43).                                         *)
THEOREM DuplicatesReportedCorrect == AuditSpec => []DuplicatesReported
  <1>1. AuditInit => DuplicatesCounted
    BY DEF AuditInit, DuplicatesCounted, DuplicatesReported
  <1>2. DuplicatesCounted => DuplicatesReported
    BY DEF DuplicatesCounted
  <1> QED
    BY <1>1, <1>2, NextCounts, AuditTypeCorrect, PTL DEF AuditSpec
=============================================================================

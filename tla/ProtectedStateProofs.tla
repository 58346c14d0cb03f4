------------------------ MODULE ProtectedStateProofs ------------------------
(***************************************************************************)
(* For any candidates, nonces, sources, quotas, budgets and costs: the     *)
(* protected state is well typed, spends a nonce once, conserves quota and *)
(* budget and keeps the transitions of a source in one chain.              *)
(***************************************************************************)
EXTENDS ProtectedState, FiniteSetTheorems, TLAPS

(* One grant, spelled out: what the guard gives and what each variable     *)
(* becomes.                                                                *)
LEMMA GrantFacts ==
    ASSUME StateTypeOK,
           NEW c \in Candidates, NEW cost \in Costs, NEW d \in Digests,
           TransitionForAuthorization(c, cost, d)
    PROVE  LET t == TransitionCore(c, cost, d)
           IN  /\ t \in TransitionIds
               /\ nonces[t.nonce] = Absent
               /\ t.before_version = sources[t.source].version
               /\ t.quota_after = sources[t.source].quota - 1
               /\ sources' = [sources EXCEPT ![t.source] = After(t)]
               /\ After(t) \in SourceStates
               /\ nonces' = [nonces EXCEPT ![t.nonce] = t]
               /\ transitions' = transitions \cup {t}
               /\ granted' = [granted EXCEPT ![t.source] = @ \cup {t}]
               /\ configured' = configured
  <1> DEFINE t == TransitionCore(c, cost, d)
  <1>1. /\ Act[c].source \in Sources
        /\ Act[c].nonce \in Nonces
        /\ cost \in Int
    BY ActAssumption, QuotaAssumption
  <1>2. sources[Act[c].source] \in SourceStates
    BY <1>1 DEF StateTypeOK
  <1>3. t \in TransitionIds /\ After(t) \in SourceStates
    BY <1>1, <1>2 DEF TransitionCore, TransitionIds, SourceStates, After
  <1> QED
    BY <1>3 DEF TransitionForAuthorization, CanReserve, TransitionCore

(* StateTypeOK is inductive. *)
LEMMA StateTypeInit == StateInit => StateTypeOK
  BY QuotaAssumption DEF StateInit, StateTypeOK, NewSources, NewConfigured, Fresh, SourceStates

LEMMA GrantKeepsType ==
    ASSUME StateTypeOK,
           NEW c \in Candidates, NEW cost \in Costs, NEW d \in Digests,
           TransitionForAuthorization(c, cost, d)
    PROVE  StateTypeOK'
  BY GrantFacts DEF StateTypeOK

LEMMA ConfigureKeepsType ==
    ASSUME StateTypeOK, NEW s \in Sources, NEW q \in Configurations, ConfigureSource(s, q)
    PROVE  StateTypeOK'
  <1>1. q \in [quota : Int, budget : Int]
    BY QuotaAssumption
  <1>2. Fresh(q.quota, q.budget) \in SourceStates
    BY <1>1 DEF Fresh, SourceStates
  <1> QED
    BY <1>1, <1>2 DEF ConfigureSource, StateTypeOK

(* Every state the protected state can reach is well typed.   *)
THEOREM StateTypeCorrect == StateSpec => []StateTypeOK
  <1>1. StateTypeOK /\ [StateNext]_stateVars => StateTypeOK'
    <2> SUFFICES ASSUME StateTypeOK, [StateNext]_stateVars PROVE StateTypeOK'
      OBVIOUS
    <2>1. ASSUME NEW c \in Candidates, NEW cost \in Costs, NEW p \in Payloads,
                 TransitionForAuthorization(c, cost, Digest(c, p))
          PROVE  StateTypeOK'
      <3>1. Digest(c, p) \in Digests
        BY DEF Digests
      <3> QED
        BY <2>1, <3>1, GrantKeepsType
    <2>2. ASSUME NEW s \in Sources, NEW q \in Configurations, ConfigureSource(s, q)
          PROVE  StateTypeOK'
      BY <2>2, ConfigureKeepsType
    <2>3. CASE UNCHANGED stateVars
      BY <2>3 DEF stateVars, StateTypeOK
    <2> QED
      BY <2>1, <2>2, <2>3 DEF StateNext
  <1> QED
    BY <1>1, StateTypeInit, PTL DEF StateSpec

-----------------------------------------------------------------------------
(* The nonce map and the transitions agree: the inductive form is already  *)
(* NonceSpentOnce, given the types.                                        *)
LEMMA GrantKeepsNonces ==
    ASSUME StateTypeOK, NonceSpentOnce,
           NEW c \in Candidates, NEW cost \in Costs, NEW d \in Digests,
           TransitionForAuthorization(c, cost, d)
    PROVE  NonceSpentOnce'
  <1> DEFINE t == TransitionCore(c, cost, d)
  <1>1. /\ t \in TransitionIds /\ nonces[t.nonce] = Absent
        /\ nonces' = [nonces EXCEPT ![t.nonce] = t]
        /\ transitions' = transitions \cup {t}
    BY GrantFacts
  <1>2. t.nonce \in Nonces /\ t # Absent
    BY <1>1, AbsentAssumption DEF TransitionIds
  <1> HIDE DEF t
  <1> SUFFICES ASSUME NEW n \in Nonces
               PROVE  {u \in transitions' : u.nonce = n} = {nonces'[n]} \ {Absent}
    BY DEF NonceSpentOnce
  <1>3. {u \in transitions : u.nonce = n} = {nonces[n]} \ {Absent}
    BY DEF NonceSpentOnce
  <1>4. CASE n = t.nonce
    BY <1>1, <1>2, <1>3, <1>4 DEF StateTypeOK
  <1>5. CASE n # t.nonce
    BY <1>1, <1>2, <1>3, <1>5 DEF StateTypeOK
  <1> QED
    BY <1>4, <1>5

(* A nonce is spent at most once, whatever the constants. *)
THEOREM NonceSpentOnceCorrect == StateSpec => []NonceSpentOnce
  <1>1. StateInit => NonceSpentOnce
    BY DEF StateInit, NonceSpentOnce
  <1>2. StateTypeOK /\ NonceSpentOnce /\ [StateNext]_stateVars => NonceSpentOnce'
    <2> SUFFICES ASSUME StateTypeOK, NonceSpentOnce, [StateNext]_stateVars
                 PROVE  NonceSpentOnce'
      OBVIOUS
    <2>1. ASSUME NEW c \in Candidates, NEW cost \in Costs, NEW p \in Payloads,
                 TransitionForAuthorization(c, cost, Digest(c, p))
          PROVE  NonceSpentOnce'
      <3>1. Digest(c, p) \in Digests
        BY DEF Digests
      <3> QED
        BY <2>1, <3>1, GrantKeepsNonces
    <2>2. ASSUME NEW s \in Sources, NEW q \in Configurations, ConfigureSource(s, q)
          PROVE  NonceSpentOnce'
      BY <2>2 DEF ConfigureSource, NonceSpentOnce
    <2>3. CASE UNCHANGED stateVars
      BY <2>3 DEF stateVars, NonceSpentOnce
    <2> QED
      BY <2>1, <2>2, <2>3 DEF StateNext
  <1> QED
    BY <1>1, <1>2, StateTypeCorrect, PTL DEF StateSpec

-----------------------------------------------------------------------------
(* QuotaConserved alone is not inductive: that a new transition is not     *)
(* already among the granted ones follows from the chain of versions.      *)
Ledger ==
    \A s \in Sources :
        /\ IsFiniteSet(granted[s])
        /\ Cardinality(granted[s]) = sources[s].version
        /\ {t.before_version : t \in granted[s]} = 0 .. (sources[s].version - 1)
        /\ sources[s].quota + Cardinality(granted[s]) = configured[s].quota

LEMMA LedgerInit == StateInit => Ledger
  BY FS_EmptySet, QuotaAssumption
  DEF StateInit, Ledger, NewSources, NewConfigured, Fresh

LEMMA GrantKeepsLedger ==
    ASSUME StateTypeOK, Ledger,
           NEW c \in Candidates, NEW cost \in Costs, NEW d \in Digests,
           TransitionForAuthorization(c, cost, d)
    PROVE  Ledger'
  <1> DEFINE t == TransitionCore(c, cost, d)
  <1>1. /\ t \in TransitionIds
        /\ t.before_version = sources[t.source].version
        /\ t.quota_after = sources[t.source].quota - 1
        /\ sources' = [sources EXCEPT ![t.source] = After(t)]
        /\ granted' = [granted EXCEPT ![t.source] = @ \cup {t}]
        /\ configured' = configured
    BY GrantFacts
  <1>2. After(t).version = t.before_version + 1 /\ After(t).quota = t.quota_after
    BY DEF After, TransitionCore
  <1> HIDE DEF t
  <1> SUFFICES ASSUME NEW s \in Sources
               PROVE  /\ IsFiniteSet(granted'[s])
                      /\ Cardinality(granted'[s]) = sources'[s].version
                      /\ {u.before_version : u \in granted'[s]} = 0 .. (sources'[s].version - 1)
                      /\ sources'[s].quota + Cardinality(granted'[s]) = configured'[s].quota
    BY DEF Ledger
  <1>3. /\ IsFiniteSet(granted[s])
        /\ Cardinality(granted[s]) = sources[s].version
        /\ {u.before_version : u \in granted[s]} = 0 .. (sources[s].version - 1)
        /\ sources[s].quota + Cardinality(granted[s]) = configured[s].quota
    BY DEF Ledger
  <1>4. CASE s # t.source
    <2>1. granted'[s] = granted[s] /\ sources'[s] = sources[s] /\ configured'[s] = configured[s]
      BY <1>1, <1>4 DEF StateTypeOK
    <2> QED
      BY <2>1, <1>3
  <1>5. CASE s = t.source
    <2>1. /\ granted'[s] = granted[s] \cup {t}
          /\ sources'[s].version = sources[s].version + 1
          /\ sources'[s].quota = sources[s].quota - 1
          /\ configured'[s] = configured[s]
      BY <1>1, <1>2, <1>5 DEF StateTypeOK
    <2>2. /\ sources[s].version \in Nat /\ sources[s].quota \in Int
          /\ configured[s].quota \in Int
      BY DEF StateTypeOK, SourceStates
    <2>3. t \notin granted[s]
      <3>1. t.before_version \notin 0 .. (sources[s].version - 1)
        BY <1>1, <1>5, <2>2
      <3> QED
        BY <3>1, <1>3
    <2>4. /\ IsFiniteSet(granted'[s])
          /\ Cardinality(granted'[s]) = Cardinality(granted[s]) + 1
      <3>1. IsFiniteSet(granted[s])
        BY <1>3
      <3>2. /\ IsFiniteSet(granted[s] \cup {t})
            /\ Cardinality(granted[s] \cup {t}) = Cardinality(granted[s]) + 1
        BY <3>1, <2>3, FS_AddElement, Zenon
      <3> QED
        BY <3>2, <2>1
    <2>5. {u.before_version : u \in granted'[s]} = 0 .. sources[s].version
      <3>1. {u.before_version : u \in granted'[s]}
              = {u.before_version : u \in granted[s]} \cup {sources[s].version}
        BY <2>1, <1>1, <1>5
      <3>2. 0 .. sources[s].version = 0 .. (sources[s].version - 1) \cup {sources[s].version}
        BY <2>2
      <3> QED
        BY <3>1, <3>2, <1>3
    <2> QED
      BY <2>1, <2>2, <2>4, <2>5, <1>3
  <1> QED
    BY <1>4, <1>5

LEMMA ConfigureKeepsLedger ==
    ASSUME StateTypeOK, Ledger,
           NEW s \in Sources, NEW q \in Configurations, ConfigureSource(s, q)
    PROVE  Ledger'
  <1>1. q.quota \in Int
    BY QuotaAssumption
  <1> SUFFICES ASSUME NEW r \in Sources
               PROVE  /\ IsFiniteSet(granted'[r])
                      /\ Cardinality(granted'[r]) = sources'[r].version
                      /\ {u.before_version : u \in granted'[r]} = 0 .. (sources'[r].version - 1)
                      /\ sources'[r].quota + Cardinality(granted'[r]) = configured'[r].quota
    BY DEF Ledger
  <1>2. CASE r = s
    <2>1. granted'[r] = {} /\ sources'[r] = Fresh(q.quota, q.budget) /\ configured'[r] = q
      BY <1>2 DEF ConfigureSource, StateTypeOK
    <2> QED
      BY <2>1, <1>1, FS_EmptySet DEF Fresh
  <1>3. CASE r # s
    <2>1. granted'[r] = granted[r] /\ sources'[r] = sources[r] /\ configured'[r] = configured[r]
      BY <1>3 DEF ConfigureSource, StateTypeOK
    <2> QED
      BY <2>1 DEF Ledger
  <1> QED
    BY <1>2, <1>3

LEMMA LedgerCorrect == StateSpec => []Ledger
  <1>1. StateTypeOK /\ Ledger /\ [StateNext]_stateVars => Ledger'
    <2> SUFFICES ASSUME StateTypeOK, Ledger, [StateNext]_stateVars PROVE Ledger'
      OBVIOUS
    <2>1. ASSUME NEW c \in Candidates, NEW cost \in Costs, NEW p \in Payloads,
                 TransitionForAuthorization(c, cost, Digest(c, p))
          PROVE  Ledger'
      <3>1. Digest(c, p) \in Digests
        BY DEF Digests
      <3> QED
        BY <2>1, <3>1, GrantKeepsLedger
    <2>2. ASSUME NEW s \in Sources, NEW q \in Configurations, ConfigureSource(s, q)
          PROVE  Ledger'
      BY <2>2, ConfigureKeepsLedger
    <2>3. CASE UNCHANGED stateVars
      BY <2>3 DEF stateVars, Ledger
    <2> QED
      BY <2>1, <2>2, <2>3 DEF StateNext
  <1> QED
    BY <1>1, LedgerInit, StateTypeCorrect, PTL DEF StateSpec

(* No grant is free and none is charged twice, for any quotas and any      *)
(* number of nonces.                                                       *)
THEOREM QuotaConservedCorrect == StateSpec => []QuotaConserved
  <1>1. Ledger => QuotaConserved
    BY DEF Ledger, QuotaConserved
  <1> QED
    BY <1>1, LedgerCorrect, PTL

(* The transitions granted to a source form one gapless chain of versions. *)
THEOREM VersionChainCorrect == StateSpec => []VersionChain
  <1>1. Ledger => VersionChain
    BY DEF Ledger, VersionChain
  <1> QED
    BY <1>1, LedgerCorrect, PTL

-----------------------------------------------------------------------------
(* Grants never overdraw a source: the last grant found at least one unit  *)
(* of quota and its whole cost of budget.                                  *)
LEMMA GrantKeepsPositive ==
    ASSUME StateTypeOK, NoOverdraft,
           NEW c \in Candidates, NEW cost \in Costs, NEW d \in Digests,
           TransitionForAuthorization(c, cost, d)
    PROVE  NoOverdraft'
  <1> DEFINE t == TransitionCore(c, cost, d)
  <1>1. /\ t.source \in Sources
        /\ sources' = [sources EXCEPT ![t.source] = After(t)]
        /\ granted' = [granted EXCEPT ![t.source] = @ \cup {t}]
    BY GrantFacts DEF TransitionIds
  <1>2. After(t).quota >= 0 /\ After(t).budget >= 0
    <2>1. Act[c].source \in Sources /\ cost \in Int
      BY ActAssumption, QuotaAssumption
    <2>2. sources[Act[c].source] \in SourceStates
      BY <2>1 DEF StateTypeOK
    <2>3. sources[Act[c].source].quota >= 1 /\ sources[Act[c].source].budget >= cost
      BY DEF TransitionForAuthorization, CanReserve
    <2>4. /\ After(t).quota = sources[Act[c].source].quota - 1
          /\ After(t).budget = sources[Act[c].source].budget - cost
      BY DEF TransitionCore, After
    <2> HIDE DEF t
    <2> QED
      BY <2>1, <2>2, <2>3, <2>4 DEF SourceStates
  <1> HIDE DEF t
  <1> SUFFICES ASSUME NEW s \in Sources, granted'[s] # {}
               PROVE  sources'[s].quota >= 0 /\ sources'[s].budget >= 0
    BY DEF NoOverdraft
  <1>3. CASE s = t.source
    BY <1>1, <1>2, <1>3 DEF StateTypeOK
  <1>4. CASE s # t.source
    BY <1>1, <1>4 DEF StateTypeOK, NoOverdraft
  <1> QED
    BY <1>3, <1>4

(* A source is below zero only if it was configured there. *)
THEOREM NoOverdraftCorrect == StateSpec => []NoOverdraft
  <1>1. StateInit => NoOverdraft
    BY DEF StateInit, NoOverdraft
  <1>2. StateTypeOK /\ NoOverdraft /\ [StateNext]_stateVars => NoOverdraft'
    <2> SUFFICES ASSUME StateTypeOK, NoOverdraft, [StateNext]_stateVars PROVE NoOverdraft'
      OBVIOUS
    <2>1. ASSUME NEW c \in Candidates, NEW cost \in Costs, NEW p \in Payloads,
                 TransitionForAuthorization(c, cost, Digest(c, p))
          PROVE  NoOverdraft'
      <3>1. Digest(c, p) \in Digests
        BY DEF Digests
      <3> QED
        BY <2>1, <3>1, GrantKeepsPositive
    <2>2. ASSUME NEW s \in Sources, NEW q \in Configurations, ConfigureSource(s, q)
          PROVE  NoOverdraft'
      BY <2>2 DEF ConfigureSource, NoOverdraft, StateTypeOK
    <2>3. CASE UNCHANGED stateVars
      BY <2>3 DEF stateVars, NoOverdraft
    <2> QED
      BY <2>1, <2>2, <2>3 DEF StateNext
  <1> QED
    BY <1>1, <1>2, StateTypeCorrect, PTL DEF StateSpec
-----------------------------------------------------------------------------
(* Sums over finite sets.  FoldFunction sums by choosing an element, then  *)
(* the rest: Total is that sum written out, IsSum the equation it solves   *)
(* on every subset at once.  What a sum is does not depend on the choices. *)
AnyOf(u) == CHOOSE x \in u : TRUE

IsSum(h, f, D) ==
    h = [u \in SUBSET D |-> IF u = {} THEN 0 ELSE f[AnyOf(u)] + h[u \ {AnyOf(u)}]]

Total(f, D) == (CHOOSE h : IsSum(h, f, D))[D]

LEMMA FoldIsTotal ==
    ASSUME NEW f
    PROVE  FoldFunction(LAMBDA a, b : a + b, 0, f) = Total(f, DOMAIN f)
  BY Zenon DEF FoldFunction, FoldFunctionOnSet, MapThenFoldSet, Total, IsSum, AnyOf

(* Induction on finite sets, in the form of a smallest counterexample. *)
LEMMA SmallestSubset ==
    ASSUME NEW D, IsFiniteSet(D), NEW T \in SUBSET (SUBSET D), T # {}
    PROVE  \E u \in T : \A v \in T : v \subseteq u => v = u
  <1>1. T \subseteq FiniteSubsetsOf(D)
    BY FS_FiniteSubsetsOfFinite
  <1>2. \E u \in T : \A v \in T : ~ (<<v, u>> \in StrictSubsetOrdering(D))
    BY <1>1, FS_StrictSubsetOrderingWellFounded, WFMin
  <1> QED
    BY <1>2 DEF StrictSubsetOrdering

LEMMA AnyOfIsOne == \A u : u # {} => AnyOf(u) \in u
  BY DEF AnyOf

SumEquation(h, f, u) ==
    h[u] = IF u = {} THEN 0 ELSE f[AnyOf(u)] + h[u \ {AnyOf(u)}]

LEMMA SumAt ==
    ASSUME NEW D, NEW f, NEW h, IsSum(h, f, D)
    PROVE  \A u \in SUBSET D : SumEquation(h, f, u)
  BY DEF IsSum, SumEquation

AgreeOn(f, e, D) == \A x \in D : f[x] = e[x]

(* Two sums agree wherever both are defined. *)
LEMMA SumsAgree ==
    ASSUME NEW D, NEW E, IsFiniteSet(D), D \subseteq E,
           NEW f, NEW e, AgreeOn(f, e, D),
           NEW h, IsSum(h, f, D), NEW g, IsSum(g, e, E)
    PROVE  \A u \in SUBSET D : h[u] = g[u]
  <1> DEFINE T == {u \in SUBSET D : h[u] # g[u]}
  <1> SUFFICES ASSUME T # {} PROVE FALSE
    OBVIOUS
  <1>1. PICK u \in T : \A v \in T : v \subseteq u => v = u
    <2>1. T \in SUBSET (SUBSET D)
      OBVIOUS
    <2> HIDE DEF T
    <2> QED
      BY <2>1, SmallestSubset
  <1>2. u \in SUBSET D /\ u \in SUBSET E
    OBVIOUS
  <1>3. /\ h[u] = IF u = {} THEN 0 ELSE f[AnyOf(u)] + h[u \ {AnyOf(u)}]
        /\ g[u] = IF u = {} THEN 0 ELSE e[AnyOf(u)] + g[u \ {AnyOf(u)}]
    <2>1. SumEquation(h, f, u) /\ SumEquation(g, e, u)
      BY <1>2, SumAt
    <2> QED
      BY <2>1 DEF SumEquation
  <1>4. u # {}
    BY <1>3
  <1>5. AnyOf(u) \in u
    BY <1>4, AnyOfIsOne
  <1>6. h[u \ {AnyOf(u)}] = g[u \ {AnyOf(u)}]
    BY <1>1, <1>2, <1>5
  <1>7. h[u] = g[u]
    BY <1>2, <1>3, <1>4, <1>5, <1>6 DEF AgreeOn
  <1> QED
    BY <1>7

LEMMA SumExists ==
    ASSUME NEW D, IsFiniteSet(D), NEW f
    PROVE  \E h : IsSum(h, f, D)
  <1> DEFINE T == {u \in SUBSET D : \A h : ~IsSum(h, f, u)}
             G(u) == CHOOSE h : IsSum(h, f, u)
  <1> SUFFICES ASSUME T # {} PROVE FALSE
    OBVIOUS
  <1>1. PICK u \in T : \A v \in T : v \subseteq u => v = u
    <2>1. T \in SUBSET (SUBSET D)
      OBVIOUS
    <2> HIDE DEF T
    <2> QED
      BY <2>1, SmallestSubset
  <1>2. \A v \in SUBSET u : v # u => IsSum(G(v), f, v)
    BY <1>1
  <1> HIDE DEF G
  <1> DEFINE Top == IF u = {} THEN 0
                    ELSE f[AnyOf(u)] + G(u \ {AnyOf(u)})[u \ {AnyOf(u)}]
             h == [v \in SUBSET u |-> IF v = u THEN Top ELSE G(v)[v]]
  <1>3. ASSUME NEW v \in SUBSET u
        PROVE  h[v] = IF v = {} THEN 0 ELSE f[AnyOf(v)] + h[v \ {AnyOf(v)}]
    <2> DEFINE w == v \ {AnyOf(v)}
    <2>1. CASE v = {}
      <3>1. v # u => G(v)[v] = 0
        BY <1>2, <2>1, SumAt DEF SumEquation
      <3> QED
        BY <2>1, <3>1
    <2>2. CASE v # {}
      <3>1. AnyOf(v) \in v /\ w \in SUBSET u /\ w # u /\ w \subseteq v /\ w # v
        BY <2>2, AnyOfIsOne
      <3>2. h[w] = G(w)[w]
        BY <3>1
      <3>3. CASE v = u
        BY <2>2, <3>2, <3>3
      <3>4. CASE v # u
        <4>1. IsSum(G(v), f, v) /\ IsSum(G(w), f, w)
          BY <1>2, <3>1, <3>4
        <4>2. IsFiniteSet(w)
          BY <3>1, FS_Subset
        <4>3. G(w)[w] = G(v)[w]
          <5>1. w \subseteq v /\ AgreeOn(f, f, w)
            BY <3>1 DEF AgreeOn
          <5> HIDE DEF w, h
          <5>2. \A y \in SUBSET w : G(w)[y] = G(v)[y]
            BY <4>1, <4>2, <5>1, SumsAgree
          <5> QED
            BY <5>2
        <4>4. G(v)[v] = f[AnyOf(v)] + G(v)[w]
          BY <2>2, <4>1, SumAt DEF SumEquation
        <4> QED
          BY <2>2, <3>2, <3>4, <4>3, <4>4
      <3> QED
        BY <3>3, <3>4
    <2> QED
      BY <2>1, <2>2
  <1>4. h = [v \in SUBSET u |-> h[v]]
    OBVIOUS
  <1> HIDE DEF h
  <1>5. IsSum(h, f, u)
    BY <1>3, <1>4 DEF IsSum
  <1> QED
    BY <1>1, <1>5

LEMMA TotalIsSum ==
    ASSUME NEW D, IsFiniteSet(D), NEW f
    PROVE  \E h : IsSum(h, f, D) /\ Total(f, D) = h[D]
  BY SumExists DEF Total

LEMMA SumTyped ==
    ASSUME NEW D, IsFiniteSet(D), NEW f, \A x \in D : f[x] \in Int, NEW h, IsSum(h, f, D)
    PROVE  \A u \in SUBSET D : h[u] \in Int
  <1> DEFINE T == {u \in SUBSET D : h[u] \notin Int}
  <1> SUFFICES ASSUME T # {} PROVE FALSE
    OBVIOUS
  <1>1. PICK u \in T : \A v \in T : v \subseteq u => v = u
    <2>1. T \in SUBSET (SUBSET D)
      OBVIOUS
    <2> HIDE DEF T
    <2> QED
      BY <2>1, SmallestSubset
  <1>2. h[u] = IF u = {} THEN 0 ELSE f[AnyOf(u)] + h[u \ {AnyOf(u)}]
    <2>1. SumEquation(h, f, u)
      BY SumAt
    <2> QED
      BY <2>1 DEF SumEquation
  <1>3. u # {}
    BY <1>2
  <1>4. AnyOf(u) \in u
    BY <1>3, AnyOfIsOne
  <1>5. h[u \ {AnyOf(u)}] \in Int /\ f[AnyOf(u)] \in Int
    BY <1>1, <1>4
  <1> QED
    BY <1>2, <1>3, <1>5

(* Any element may be taken out first. *)
LEMMA SumWithout ==
    ASSUME NEW D, IsFiniteSet(D), NEW f, \A x \in D : f[x] \in Int, NEW h, IsSum(h, f, D)
    PROVE  \A u \in SUBSET D : \A t \in u : h[u] = f[t] + h[u \ {t}]
  <1> DEFINE T == {u \in SUBSET D : \E t \in u : h[u] # f[t] + h[u \ {t}]}
  <1> SUFFICES ASSUME T # {} PROVE FALSE
    OBVIOUS
  <1>1. PICK u \in T : \A v \in T : v \subseteq u => v = u
    <2>1. T \in SUBSET (SUBSET D)
      OBVIOUS
    <2> HIDE DEF T
    <2> QED
      BY <2>1, SmallestSubset
  <1>2. PICK t \in u : h[u] # f[t] + h[u \ {t}]
    BY <1>1
  <1> DEFINE x == AnyOf(u)
  <1>3. x \in u /\ h[u] = f[x] + h[u \ {x}]
    <2>1. SumEquation(h, f, u) /\ u # {}
      BY <1>2, SumAt
    <2> QED
      BY <2>1, AnyOfIsOne DEF SumEquation
  <1> HIDE DEF x
  <1>4. t # x
    BY <1>2, <1>3
  <1>5. u \ {x} \notin T /\ u \ {t} \notin T
    BY <1>1, <1>2, <1>3
  <1>6. h[u \ {x}] = f[t] + h[(u \ {x}) \ {t}]
    BY <1>3, <1>4, <1>5
  <1>7. h[u \ {t}] = f[x] + h[(u \ {t}) \ {x}]
    BY <1>3, <1>4, <1>5
  <1> DEFINE rest == h[(u \ {x}) \ {t}]
  <1>8. h[(u \ {t}) \ {x}] = rest
    <2>1. (u \ {x}) \ {t} = (u \ {t}) \ {x}
      OBVIOUS
    <2> QED
      BY <2>1
  <1>9. rest \in Int /\ f[x] \in Int /\ f[t] \in Int
    BY <1>2, <1>3, SumTyped
  <1> HIDE DEF rest
  <1>10. h[u] = f[x] + (f[t] + rest) /\ h[u \ {t}] = f[x] + rest
    BY <1>3, <1>6, <1>7, <1>8 DEF rest
  <1>11. h[u] = f[t] + h[u \ {t}]
    BY <1>9, <1>10
  <1> QED
    BY <1>2, <1>11

LEMMA TotalOfNone == \A f : Total(f, {}) = 0
  <1> SUFFICES ASSUME NEW f PROVE Total(f, {}) = 0
    OBVIOUS
  <1>1. PICK h : IsSum(h, f, {}) /\ Total(f, {}) = h[{}]
    BY FS_EmptySet, TotalIsSum
  <1> QED
    BY <1>1, SumAt DEF SumEquation

LEMMA TotalTyped ==
    ASSUME NEW D, IsFiniteSet(D), NEW f, \A x \in D : f[x] \in Int
    PROVE  Total(f, D) \in Int
  <1>1. PICK h : IsSum(h, f, D) /\ Total(f, D) = h[D]
    BY TotalIsSum
  <1> QED
    BY <1>1, SumTyped

LEMMA TotalsAgree ==
    ASSUME NEW D, IsFiniteSet(D), NEW E, IsFiniteSet(E), D \subseteq E,
           NEW f, NEW e, AgreeOn(e, f, D), NEW h, IsSum(h, f, E)
    PROVE  Total(e, D) = h[D]
  <1>1. PICK g : IsSum(g, e, D) /\ Total(e, D) = g[D]
    BY TotalIsSum
  <1>2. \A u \in SUBSET D : g[u] = h[u]
    BY ONLY IsFiniteSet(D), D \subseteq E, AgreeOn(e, f, D), IsSum(h, f, E), <1>1, SumsAgree
  <1> QED
    BY <1>1, <1>2

LEMMA TotalOfMore ==
    ASSUME NEW D, IsFiniteSet(D), NEW t, t \notin D,
           NEW f, \A x \in D \cup {t} : f[x] \in Int,
           NEW e, AgreeOn(e, f, D)
    PROVE  Total(f, D \cup {t}) = f[t] + Total(e, D)
  <1> DEFINE more == D \cup {t}
  <1>1. IsFiniteSet(more) /\ D \subseteq more /\ t \in more /\ more \ {t} = D
    BY FS_AddElement
  <1>2. \A x \in more : f[x] \in Int
    OBVIOUS
  <1> HIDE DEF more
  <1>3. PICK h : IsSum(h, f, more) /\ Total(f, more) = h[more]
    BY <1>1, TotalIsSum
  <1>4. h[more] = f[t] + h[more \ {t}]
    BY <1>1, <1>2, <1>3, SumWithout
  <1>5. Total(e, D) = h[D]
    BY ONLY IsFiniteSet(D), AgreeOn(e, f, D), <1>1, <1>3, TotalsAgree
  <1> QED
    BY <1>1, <1>3, <1>4, <1>5 DEF more

LEMMA TotalOfOneMore ==
    ASSUME NEW D, IsFiniteSet(D), NEW t, t \notin D,
           NEW f, \A x \in D \cup {t} : f[x] \in Int
    PROVE  Total(f, D \cup {t}) = f[t] + Total(f, D)
  <1> DEFINE more == D \cup {t}
  <1>1. /\ IsFiniteSet(more) /\ D \subseteq more /\ t \in more /\ more \ {t} = D
        /\ AgreeOn(f, f, D)
    BY FS_AddElement DEF AgreeOn
  <1>2. \A x \in more : f[x] \in Int
    OBVIOUS
  <1> HIDE DEF more
  <1>3. PICK h : IsSum(h, f, more) /\ Total(f, more) = h[more]
    BY <1>1, TotalIsSum
  <1>4. h[more] = f[t] + h[more \ {t}]
    BY <1>1, <1>2, <1>3, SumWithout
  <1>5. Total(f, D) = h[D]
    BY ONLY IsFiniteSet(D), <1>1, <1>3, TotalsAgree
  <1> QED
    BY <1>1, <1>3, <1>4, <1>5 DEF more

(* A sum of natural numbers grows with its set. *)
LEMMA TotalGrows ==
    ASSUME NEW D, IsFiniteSet(D), NEW f, \A x \in D : f[x] \in Nat, NEW U \in SUBSET D
    PROVE  Total(f, U) <= Total(f, D)
  <1> DEFINE T == {v \in SUBSET D : U \subseteq v /\ ~(Total(f, U) <= Total(f, v))}
  <1> SUFFICES ASSUME T # {} PROVE FALSE
    OBVIOUS
  <1>1. PICK u \in T : \A v \in T : v \subseteq u => v = u
    <2>1. T \in SUBSET (SUBSET D)
      OBVIOUS
    <2> HIDE DEF T
    <2> QED
      BY <2>1, SmallestSubset
  <1>2. \A v \in SUBSET D : IsFiniteSet(v) /\ Total(f, v) \in Int
    <2> SUFFICES ASSUME NEW v \in SUBSET D PROVE IsFiniteSet(v) /\ Total(f, v) \in Int
      OBVIOUS
    <2>1. IsFiniteSet(v) /\ \A x \in v : f[x] \in Int
      BY FS_Subset
    <2> QED
      BY <2>1, TotalTyped
  <1>3. PICK t : t \in u \ U
    BY <1>2
  <1> DEFINE v == u \ {t}
  <1>4. /\ v \in SUBSET D /\ v # u /\ v \subseteq u /\ U \subseteq v
        /\ u = v \cup {t} /\ t \notin v /\ f[t] \in Nat
    BY <1>3
  <1>5. v \notin T
    BY <1>1, <1>4
  <1> HIDE DEF v
  <1>6. Total(f, U) <= Total(f, v)
    BY <1>4, <1>5
  <1>7. Total(f, u) = f[t] + Total(f, v)
    <2>1. IsFiniteSet(v) /\ \A x \in v \cup {t} : f[x] \in Int
      BY <1>2, <1>4
    <2>2. Total(f, v \cup {t}) = f[t] + Total(f, v)
      BY <1>4, <2>1, TotalOfOneMore
    <2> QED
      BY <1>4, <2>2
  <1>8. /\ Total(f, v) \in Int /\ Total(f, U) \in Int
        /\ ~(Total(f, U) <= Total(f, u))
    BY <1>2, <1>4
  <1> QED
    BY <1>4, <1>6, <1>7, <1>8

(* Summed under other names, each once, it is the same sum. *)
LEMMA TotalRenamed ==
    ASSUME NEW M, IsFiniteSet(M), NEW D, IsFiniteSet(D), NEW g \in Injection(M, D),
           NEW e, NEW f, \A x \in D : f[x] \in Int, \A m \in M : e[m] = f[g[m]]
    PROVE  Total(e, M) = Total(f, {g[m] : m \in M})
  <1> DEFINE Im(u) == {g[m] : m \in u}
             T == {u \in SUBSET M : Total(e, u) # Total(f, Im(u))}
  <1> SUFFICES ASSUME T # {} PROVE FALSE
    OBVIOUS
  <1>1. PICK u \in T : \A v \in T : v \subseteq u => v = u
    <2>1. T \in SUBSET (SUBSET M)
      OBVIOUS
    <2> HIDE DEF T
    <2> QED
      BY <2>1, SmallestSubset
  <1>2. u # {}
    <2>1. Im({}) = {}
      OBVIOUS
    <2> HIDE DEF Im
    <2> QED
      BY <1>1, <2>1, TotalOfNone
  <1>3. PICK m : m \in u
    BY <1>2
  <1> DEFINE v == u \ {m}
  <1>4. /\ v \in SUBSET M /\ v # u /\ v \subseteq u
        /\ u = v \cup {m} /\ m \notin v /\ m \in M
    BY <1>3
  <1>5. v \notin T
    BY <1>1, <1>4
  <1>6. Total(e, v) = Total(f, Im(v))
    BY <1>4, <1>5
  <1>7. /\ Im(u) = Im(v) \cup {g[m]} /\ g[m] \notin Im(v)
        /\ Im(v) \subseteq D /\ g[m] \in D
    BY <1>4 DEF Injection, IsInjective
  <1>8. Total(e, u) # Total(f, Im(u))
    BY <1>1
  <1> HIDE DEF v, Im, T
  <1>9. /\ IsFiniteSet(v) /\ IsFiniteSet(Im(v))
        /\ \A x \in v \cup {m} : e[x] \in Int
        /\ \A x \in Im(v) \cup {g[m]} : f[x] \in Int
    <2>1. IsFiniteSet(v) /\ IsFiniteSet(Im(v))
      BY <1>4, <1>7, FS_Subset
    <2>2. \A x \in M : g[x] \in D
      BY DEF Injection
    <2> QED
      BY <1>4, <1>7, <2>1, <2>2
  <1>10. Total(e, v \cup {m}) = e[m] + Total(e, v)
    BY <1>4, <1>9, TotalOfOneMore
  <1>11. Total(f, Im(v) \cup {g[m]}) = f[g[m]] + Total(f, Im(v))
    <2> DEFINE image == Im(v)
               y == g[m]
    <2>1. /\ IsFiniteSet(image) /\ y \notin image
          /\ \A x \in image \cup {y} : f[x] \in Int
      BY <1>7, <1>9
    <2> HIDE DEF image, y
    <2>2. Total(f, image \cup {y}) = f[y] + Total(f, image)
      BY ONLY <2>1, TotalOfOneMore
    <2> QED
      BY <2>2 DEF image, y
  <1> QED
    BY <1>4, <1>6, <1>7, <1>8, <1>10, <1>11

-----------------------------------------------------------------------------
(* What is left of the budget of a source, plus what its grants were       *)
(* charged, is what it was configured with.                                *)
Charge(D) == [t \in D |-> t.budget_before - t.budget_after]

Accounted ==
    \A s \in Sources :
        sources[s].budget + Total(Charge(granted[s]), granted[s]) = configured[s].budget

LEMMA SpentIsTotal == \A s \in Sources : Spent(s) = Total(Charge(granted[s]), granted[s])
  <1> SUFFICES ASSUME NEW s \in Sources
               PROVE  Spent(s) = Total(Charge(granted[s]), granted[s])
    OBVIOUS
  <1>1. DOMAIN Charge(granted[s]) = granted[s]
    BY DEF Charge
  <1>2. FoldFunction(LAMBDA a, b : a + b, 0, Charge(granted[s]))
          = Total(Charge(granted[s]), DOMAIN Charge(granted[s]))
    BY FoldIsTotal
  <1>3. Spent(s) = FoldFunction(LAMBDA a, b : a + b, 0, Charge(granted[s]))
    BY DEF Spent, Charge
  <1> QED
    BY <1>1, <1>2, <1>3

(* Charging a set of transitions and one more. *)
LEMMA OneMoreCharge ==
    ASSUME NEW D \in SUBSET TransitionIds, IsFiniteSet(D), NEW t \in TransitionIds, t \notin D
    PROVE  /\ Total(Charge(D), D) \in Int
           /\ Total(Charge(D \cup {t}), D \cup {t})
                = (t.budget_before - t.budget_after) + Total(Charge(D), D)
  <1> DEFINE f == Charge(D \cup {t})
             e == Charge(D)
  <1>1. /\ \A x \in D \cup {t} : f[x] \in Int
        /\ \A x \in D : e[x] \in Int /\ e[x] = f[x]
        /\ f[t] = t.budget_before - t.budget_after
    BY DEF Charge, TransitionIds
  <1> HIDE DEF f, e
  <1>2. Total(e, D) \in Int
    BY <1>1, TotalTyped
  <1>3. /\ \A x \in D \cup {t} : f[x] \in Int
        /\ AgreeOn(e, f, D)
    BY <1>1 DEF AgreeOn
  <1>4. Total(f, D \cup {t}) = f[t] + Total(e, D)
    BY ONLY IsFiniteSet(D), t \notin D, <1>3, TotalOfMore
  <1> QED
    BY <1>1, <1>2, <1>4 DEF f, e

LEMMA AccountedInit == StateInit => Accounted
  <1> SUFFICES ASSUME StateInit PROVE Accounted
    OBVIOUS
  <1>1. \A s \in Sources : /\ granted[s] = {}
                           /\ sources[s].budget = DefaultBudget
                           /\ configured[s].budget = DefaultBudget
    BY DEF StateInit, NewSources, NewConfigured, Fresh
  <1> SUFFICES ASSUME NEW s \in Sources
               PROVE  sources[s].budget + Total(Charge(granted[s]), granted[s])
                        = configured[s].budget
    BY DEF Accounted
  <1>2. Total(Charge(granted[s]), granted[s]) = 0
    BY <1>1, TotalOfNone
  <1> QED
    BY <1>1, <1>2, QuotaAssumption

LEMMA GrantKeepsBalance ==
    ASSUME StateTypeOK, Ledger, Accounted,
           NEW c \in Candidates, NEW cost \in Costs, NEW d \in Digests,
           TransitionForAuthorization(c, cost, d)
    PROVE  Accounted'
  <1> DEFINE t == TransitionCore(c, cost, d)
  <1>1. /\ t \in TransitionIds
        /\ t.before_version = sources[t.source].version
        /\ sources' = [sources EXCEPT ![t.source] = After(t)]
        /\ granted' = [granted EXCEPT ![t.source] = @ \cup {t}]
        /\ configured' = configured
    BY GrantFacts
  <1>2. After(t).budget = t.budget_after /\ t.budget_before = sources[t.source].budget
    BY DEF After, TransitionCore
  <1> HIDE DEF t
  <1> SUFFICES ASSUME NEW s \in Sources
               PROVE  sources'[s].budget + Total(Charge(granted'[s]), granted'[s])
                        = configured'[s].budget
    BY DEF Accounted
  <1>3. sources[s].budget + Total(Charge(granted[s]), granted[s]) = configured[s].budget
    BY DEF Accounted
  <1>4. CASE s # t.source
    <2>1. granted'[s] = granted[s] /\ sources'[s] = sources[s] /\ configured'[s] = configured[s]
      BY <1>1, <1>4 DEF StateTypeOK
    <2> QED
      BY <2>1, <1>3
  <1>5. CASE s = t.source
    <2>1. /\ granted'[s] = granted[s] \cup {t}
          /\ sources'[s].budget = t.budget_after
          /\ sources[s].budget = t.budget_before
          /\ configured'[s] = configured[s]
      BY <1>1, <1>2, <1>5 DEF StateTypeOK
    <2>2. t.budget_before \in Int /\ t.budget_after \in Int
      BY <1>1 DEF TransitionIds
    <2>3. t \notin granted[s]
      <3>1. sources[s].version \in Nat
        BY DEF StateTypeOK, SourceStates
      <3>2. t.before_version \notin 0 .. (sources[s].version - 1)
        BY <1>1, <1>5, <3>1
      <3> QED
        BY <3>2 DEF Ledger
    <2>4. IsFiniteSet(granted[s]) /\ granted[s] \in SUBSET TransitionIds
      BY DEF Ledger, StateTypeOK
    <2>5. /\ Total(Charge(granted[s]), granted[s]) \in Int
          /\ Total(Charge(granted[s] \cup {t}), granted[s] \cup {t})
               = (t.budget_before - t.budget_after) + Total(Charge(granted[s]), granted[s])
      BY <1>1, <2>3, <2>4, OneMoreCharge
    <2> QED
      BY <1>3, <2>1, <2>2, <2>5
  <1> QED
    BY <1>4, <1>5

LEMMA ConfigureKeepsBalance ==
    ASSUME StateTypeOK, Accounted,
           NEW s \in Sources, NEW q \in Configurations, ConfigureSource(s, q)
    PROVE  Accounted'
  <1>1. q.budget \in Int
    BY QuotaAssumption
  <1> SUFFICES ASSUME NEW r \in Sources
               PROVE  sources'[r].budget + Total(Charge(granted'[r]), granted'[r])
                        = configured'[r].budget
    BY DEF Accounted
  <1>2. CASE r = s
    <2>1. granted'[r] = {} /\ sources'[r].budget = q.budget /\ configured'[r] = q
      BY <1>2 DEF ConfigureSource, StateTypeOK, Fresh
    <2> QED
      BY <2>1, <1>1, TotalOfNone
  <1>3. CASE r # s
    <2>1. granted'[r] = granted[r] /\ sources'[r] = sources[r] /\ configured'[r] = configured[r]
      BY <1>3 DEF ConfigureSource, StateTypeOK
    <2> QED
      BY <2>1 DEF Accounted
  <1> QED
    BY <1>2, <1>3

LEMMA AccountedCorrect == StateSpec => []Accounted
  <1>1. StateTypeOK /\ Ledger /\ Accounted /\ [StateNext]_stateVars => Accounted'
    <2> SUFFICES ASSUME StateTypeOK, Ledger, Accounted, [StateNext]_stateVars PROVE Accounted'
      OBVIOUS
    <2>1. ASSUME NEW c \in Candidates, NEW cost \in Costs, NEW p \in Payloads,
                 TransitionForAuthorization(c, cost, Digest(c, p))
          PROVE  Accounted'
      <3>1. Digest(c, p) \in Digests
        BY DEF Digests
      <3> QED
        BY <2>1, <3>1, GrantKeepsBalance
    <2>2. ASSUME NEW s \in Sources, NEW q \in Configurations, ConfigureSource(s, q)
          PROVE  Accounted'
      BY <2>2, ConfigureKeepsBalance
    <2>3. CASE UNCHANGED stateVars
      BY <2>3 DEF stateVars, Accounted
    <2> QED
      BY <2>1, <2>2, <2>3 DEF StateNext
  <1> QED
    BY <1>1, AccountedInit, StateTypeCorrect, LedgerCorrect, PTL DEF StateSpec

(* Every grant is charged what its transition says and nothing else, for   *)
(* any budgets and costs (state.py:59-62, 88).                             *)
THEOREM BudgetConservedCorrect == StateSpec => []BudgetConserved
  <1>1. Accounted => BudgetConserved
    BY SpentIsTotal DEF Accounted, BudgetConserved
  <1> QED
    BY <1>1, AccountedCorrect, PTL
=============================================================================

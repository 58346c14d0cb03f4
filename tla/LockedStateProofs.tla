--------------------------- MODULE LockedStateProofs ---------------------------
(***************************************************************************)
(* For any number of threads, suspended between any two statements: the    *)
(* lock keeps them apart, a snapshot is never torn, a lookup answers for   *)
(* the state it returns into, and what the threads do to the protected     *)
(* state is what its one-step methods do.                                  *)
(***************************************************************************)
EXTENDS LockedState, ProtectedStateProofs

(* A thread between acquire and release, and the lock. *)
Inside(t) == pc[t] \notin {"idle", "wait"}

MutualExclusion == \A t \in Threads : Inside(t) => lock = t

(* Whatever a thread can have been called for, whenever that was. *)
AllRequests == Requests \cup Lookups(TransitionIds \cup {Absent})

(* The method a thread runs is the one it was called for. *)
RequestRuns(t) ==
    /\ pc[t] # "idle" => request[t] \in AllRequests
    /\ pc[t] \in {"authorize", "read", "write", "charge", "reserve", "record"} =>
          request[t].op = "authorize"
    /\ pc[t] = "configure" => request[t].op = "configure"
    /\ pc[t] \in {"snapshot", "copy"} => request[t].op = "snapshot"
    /\ pc[t] \in {"verify", "judge"} => request[t].op = "verify"
    /\ pc[t] = "get" => request[t].op = "get"

(* What the check found is still so at the first write, and the transition *)
(* is what the source says.                                                *)
GrantHolds(t) ==
    /\ pc[t] \in {"read", "write"} => CanReserve(request[t].cand, request[t].cost)
    /\ pc[t] = "write" =>
          local[t] = TransitionCore(request[t].cand, request[t].cost, request[t].digest)

(* How far an accepted grant has been written. *)
GrantWritten(t) ==
    LET g == local[t]
    IN  pc[t] \in {"charge", "reserve", "record"} =>
          /\ g \in TransitionIds
          /\ pc[t] = "charge" => /\ sources[g.source].version = g.after_version
                                 /\ sources[g.source].quota = g.quota_after + 1
          /\ pc[t] # "charge" => sources[g.source] = After(g)
          /\ pc[t] = "record" => nonces[g.nonce] = g

(* What a snapshot has copied so far. *)
CopyCurrent(t) ==
    pc[t] = "copy" => /\ local[t] \in SourceStates
                      /\ local[t].version = sources[request[t].source].version

CopyWhole(t) ==
    pc[t] = "release" /\ request[t].op = "snapshot" =>
        local[t].quota + local[t].version = configured[request[t].source].quota

(* What a lookup has found, and what it answers. *)
FoundCurrent(t) ==
    pc[t] = "judge" =>
        local[t] = IF request[t].transition_id \in transitions
                   THEN request[t].transition_id ELSE Absent

AnswerCurrent(t) ==
    pc[t] = "release" /\ request[t].op \in {"verify", "get"} =>
        LET id == request[t].transition_id
        IN  /\ local[t] \in {id, Absent}
            /\ local[t] # Absent <=>
                  /\ id \in transitions
                  /\ request[t].op = "verify" => TransitionVerified(id, request[t].cand)

ThreadInvariant(t) ==
    /\ RequestRuns(t) /\ GrantHolds(t) /\ GrantWritten(t)
    /\ CopyCurrent(t) /\ CopyWhole(t)
    /\ FoundCurrent(t) /\ AnswerCurrent(t)

(* Quota and version of a source move together, except that the thread     *)
(* that has written the one still has to write the other.                  *)
Charging(s) == \E t \in Threads : pc[t] = "charge" /\ local[t].source = s

Balanced ==
    \A s \in Sources :
        sources[s].quota + sources[s].version
           = IF Charging(s) THEN configured[s].quota + 1 ELSE configured[s].quota

LockedInvariant ==
    /\ LockedTypeOK
    /\ MutualExclusion
    /\ \A t \in Threads : ThreadInvariant(t)
    /\ Balanced

-----------------------------------------------------------------------------
LEMMA RequestTypes ==
    ASSUME NEW r \in AllRequests
    PROVE  /\ r.op \in {"authorize", "configure", "snapshot", "verify", "get"}
           /\ r.op = "authorize" =>
                 /\ r.cand \in Candidates /\ r.cost \in Costs /\ r.digest \in Digests
                 /\ \E p \in Payloads : r.digest = Digest(r.cand, p)
           /\ r.op = "configure" => r.source \in Sources /\ r.config \in Configurations
           /\ r.op = "snapshot" => r.source \in Sources
           /\ r.op \in {"verify", "get"} => r.transition_id \in TransitionIds \cup {Absent}
  BY DEF AllRequests, Requests, Lookups, Digests

(* Nobody else is inside the lock with a thread that is. *)
LEMMA OthersOutside ==
    ASSUME MutualExclusion, NEW t \in Threads, Inside(t)
    PROVE  \A u \in Threads \ {t} : pc[u] \in {"idle", "wait"}
  BY DEF MutualExclusion, Inside

LEMMA TransitionTypes ==
    ASSUME StateTypeOK, NEW c \in Candidates, NEW cost \in Costs, NEW d \in Digests
    PROVE  /\ TransitionCore(c, cost, d) \in TransitionIds
           /\ TransitionCore(c, cost, d).source = Act[c].source
           /\ TransitionCore(c, cost, d).nonce = Act[c].nonce
           /\ TransitionCore(c, cost, d).after_version = sources[Act[c].source].version + 1
           /\ TransitionCore(c, cost, d).quota_after = sources[Act[c].source].quota - 1
  <1>1. Act[c].source \in Sources /\ Act[c].nonce \in Nonces /\ cost \in Int
    BY ActAssumption, QuotaAssumption
  <1>2. sources[Act[c].source] \in SourceStates
    BY <1>1 DEF StateTypeOK
  <1> QED
    BY <1>1, <1>2 DEF TransitionCore, TransitionIds, SourceStates

(* A step of a thread inside the lock moves that thread alone, so what it  *)
(* demands of that thread and of the sources is all there is to show.      *)
LEMMA InsideStep ==
    ASSUME LockedInvariant, NEW t \in Threads, Inside(t), LockedTypeOK',
           \A u \in Threads \ {t} : pc'[u] = pc[u] /\ request'[u] = request[u],
           lock' = lock \/ pc'[t] = "idle",
           ThreadInvariant(t)', Balanced'
    PROVE  LockedInvariant'
  <1>1. lock = t /\ \A u \in Threads \ {t} : pc[u] \in {"idle", "wait"}
    BY OthersOutside DEF LockedInvariant, MutualExclusion
  <1>2. MutualExclusion'
    BY <1>1 DEF MutualExclusion, Inside
  <1>3. ASSUME NEW u \in Threads
        PROVE  ThreadInvariant(u)'
    <2>1. CASE u = t
      BY <2>1
    <2>2. CASE u # t
      <3>1. pc'[u] \in {"idle", "wait"} /\ (pc'[u] # "idle" => request'[u] \in AllRequests)
        BY <1>1, <2>2 DEF LockedInvariant, ThreadInvariant, RequestRuns
      <3> QED
        BY <3>1 DEF ThreadInvariant, RequestRuns, GrantHolds, GrantWritten, CopyCurrent,
                    CopyWhole, FoundCurrent, AnswerCurrent, AllRequests, Requests
    <2> QED
      BY <2>1, <2>2
  <1> QED
    BY <1>2, <1>3 DEF LockedInvariant

(* Whether a source is being charged, when at most this thread can be      *)
(* charging one.                                                           *)
LEMMA ChargingAlone ==
    ASSUME LockedInvariant, NEW t \in Threads, Inside(t),
           \A u \in Threads \ {t} : pc'[u] = pc[u]
    PROVE  /\ \A s : Charging(s) <=> pc[t] = "charge" /\ local[t].source = s
           /\ \A s : Charging(s)' <=> pc'[t] = "charge" /\ local'[t].source = s
  <1>1. \A u \in Threads \ {t} : pc[u] \in {"idle", "wait"}
    BY OthersOutside DEF LockedInvariant
  <1> QED
    BY <1>1 DEF Charging

LEMMA BalanceKept ==
    ASSUME LockedInvariant, NEW t \in Threads, Inside(t),
           \A u \in Threads \ {t} : pc'[u] = pc[u],
           pc[t] # "charge", pc'[t] # "charge", UNCHANGED <<sources, configured>>
    PROVE  Balanced'
  <1>1. /\ \A s : Charging(s) <=> FALSE
        /\ \A s : Charging(s)' <=> FALSE
    BY ChargingAlone
  <1>2. \A s \in Sources : sources[s].quota + sources[s].version = configured[s].quota
    BY <1>1 DEF LockedInvariant, Balanced
  <1> QED
    BY <1>1, <1>2 DEF Balanced

-----------------------------------------------------------------------------
LEMMA LockedInitInvariant == LockedInit => LockedInvariant
  <1> SUFFICES ASSUME LockedInit PROVE LockedInvariant
    OBVIOUS
  <1>1. LockedTypeOK
    BY StateTypeInit DEF LockedInit, LockedTypeOK
  <1>2. \A t \in Threads : pc[t] = "idle"
    BY DEF LockedInit
  <1>3. MutualExclusion /\ \A t \in Threads : ThreadInvariant(t)
    BY <1>2 DEF MutualExclusion, Inside, ThreadInvariant, RequestRuns, GrantHolds,
                GrantWritten, CopyCurrent, CopyWhole, FoundCurrent, AnswerCurrent
  <1>4. Balanced
    BY <1>2, QuotaAssumption
    DEF LockedInit, StateInit, NewSources, NewConfigured, Fresh, Balanced, Charging
  <1> QED
    BY <1>1, <1>3, <1>4 DEF LockedInvariant

(* A lookup is about an id that is or was that of a transition, or none. *)
LEMMA CallTypes ==
    ASSUME LockedInvariant, NEW r \in Requests \cup Lookups(KnownIds)
    PROVE  r \in AllRequests
  <1>1. transitions \subseteq TransitionIds
    BY DEF LockedInvariant, LockedTypeOK, StateTypeOK
  <1>2. \A t \in InFlight : local[t] \in TransitionIds
    BY DEF InFlight, LockedInvariant, ThreadInvariant, GrantWritten
  <1>3. KnownIds \subseteq TransitionIds \cup {Absent}
    BY <1>1, <1>2 DEF KnownIds
  <1> QED
    BY <1>3 DEF AllRequests, Lookups

(* A caller enters a method, and waits. *)
LEMMA CallKeepsInvariant ==
    ASSUME LockedInvariant, NEW t \in Threads, NEW r \in AllRequests, Call(t, r)
    PROVE  LockedInvariant'
  <1>1. /\ pc[t] = "idle" /\ pc'[t] = "wait" /\ request'[t] = r
        /\ \A u \in Threads \ {t} : pc'[u] = pc[u] /\ request'[u] = request[u]
        /\ UNCHANGED <<stateVars, lock, local>>
    BY DEF Call, Goto, LockedInvariant, LockedTypeOK
  <1>2. LockedTypeOK'
    BY DEF AllRequests, Call, Goto, LockedInvariant, LockedTypeOK, StateTypeOK, stateVars
  <1>3. MutualExclusion'
    BY <1>1 DEF LockedInvariant, MutualExclusion, Inside
  <1>4. ASSUME NEW u \in Threads
        PROVE  ThreadInvariant(u)'
    <2>1. CASE u = t
      BY <1>1, <2>1 DEF ThreadInvariant, RequestRuns, GrantHolds, GrantWritten, CopyCurrent,
                        CopyWhole, FoundCurrent, AnswerCurrent
    <2>2. CASE u # t
      <3>1. /\ pc'[u] = pc[u] /\ request'[u] = request[u] /\ local'[u] = local[u]
            /\ UNCHANGED <<sources, nonces, transitions, configured>>
        BY <1>1, <2>2 DEF stateVars
      <3>2. ThreadInvariant(u)
        BY DEF LockedInvariant
      <3> QED
        BY <3>1, <3>2
        DEF ThreadInvariant, RequestRuns, GrantHolds, GrantWritten, CopyCurrent, CopyWhole,
            FoundCurrent, AnswerCurrent,
            CanReserve, TransitionCore, TransitionVerified
    <2> QED
      BY <2>1, <2>2
  <1>5. \A s : Charging(s)' <=> Charging(s)
    BY <1>1 DEF Charging
  <1>6. Balanced'
    BY <1>1, <1>5 DEF LockedInvariant, Balanced, stateVars
  <1> QED
    BY <1>2, <1>3, <1>4, <1>6 DEF LockedInvariant

(* A free lock means that no thread is inside. *)
LEMMA AcquireKeepsInvariant ==
    ASSUME LockedInvariant, NEW t \in Threads, Acquire(t)
    PROVE  LockedInvariant'
  <1>1. \A u \in Threads : pc[u] \in {"idle", "wait"}
    BY ThreadAssumption DEF Acquire, LockedInvariant, MutualExclusion, Inside
  <1>2. pc[t] = "wait" /\ request[t] \in AllRequests
    BY DEF Acquire, LockedInvariant, ThreadInvariant, RequestRuns
  <1>3. request[t].op \in {"authorize", "configure", "snapshot", "verify", "get"}
    BY <1>2, RequestTypes
  <1>4. /\ lock' = t /\ pc'[t] = request[t].op
        /\ \A u \in Threads \ {t} : pc'[u] = pc[u]
        /\ UNCHANGED <<stateVars, request, local>>
    BY DEF Acquire, Goto, LockedInvariant, LockedTypeOK
  <1>5. LockedTypeOK'
    BY <1>3 DEF Acquire, Goto, LockedInvariant, LockedTypeOK, StateTypeOK, stateVars
  <1>6. MutualExclusion'
    BY <1>1, <1>4 DEF MutualExclusion, Inside
  <1>7. ASSUME NEW u \in Threads
        PROVE  ThreadInvariant(u)'
    <2>1. CASE u = t
      BY <1>2, <1>3, <1>4, <2>1
      DEF ThreadInvariant, RequestRuns, GrantHolds, GrantWritten, CopyCurrent, CopyWhole,
          FoundCurrent, AnswerCurrent
    <2>2. CASE u # t
      <3>1. pc'[u] \in {"idle", "wait"} /\ pc'[u] = pc[u] /\ request'[u] = request[u]
        BY <1>1, <1>4, <2>2
      <3>2. pc'[u] # "idle" => request'[u] \in AllRequests
        BY <3>1 DEF LockedInvariant, ThreadInvariant, RequestRuns
      <3> QED
        BY <3>1, <3>2 DEF ThreadInvariant, RequestRuns, GrantHolds, GrantWritten, CopyCurrent,
                          CopyWhole, FoundCurrent, AnswerCurrent, AllRequests, Requests
    <2> QED
      BY <2>1, <2>2
  <1>8. Balanced'
    <2>1. /\ \A s : Charging(s) <=> FALSE
          /\ \A s : Charging(s)' <=> FALSE
      BY <1>1, <1>3, <1>4 DEF Charging
    <2> QED
      BY <1>4, <2>1 DEF LockedInvariant, Balanced, stateVars
  <1> QED
    BY <1>5, <1>6, <1>7, <1>8 DEF LockedInvariant

LEMMA ReleaseKeepsInvariant ==
    ASSUME LockedInvariant, NEW t \in Threads, Release(t)
    PROVE  LockedInvariant'
  <1>1. /\ pc[t] = "release" /\ pc'[t] = "idle"
        /\ \A u \in Threads \ {t} : pc'[u] = pc[u] /\ request'[u] = request[u]
        /\ UNCHANGED <<sources, configured>>
    BY DEF Release, Goto, LockedInvariant, LockedTypeOK, stateVars
  <1>2. LockedTypeOK'
    BY DEF Release, Goto, LockedInvariant, LockedTypeOK, StateTypeOK, stateVars
  <1>3. ThreadInvariant(t)'
    BY <1>1 DEF ThreadInvariant, RequestRuns, GrantHolds, GrantWritten, CopyCurrent, CopyWhole,
                FoundCurrent, AnswerCurrent
  <1>4. Balanced'
    BY <1>1, BalanceKept DEF Inside
  <1> QED
    BY <1>1, <1>2, <1>3, <1>4, InsideStep DEF Inside

-----------------------------------------------------------------------------
(* transition_for_authorization, statement by statement. *)
LEMMA CheckKeepsInvariant ==
    ASSUME LockedInvariant, NEW t \in Threads, Check(t)
    PROVE  LockedInvariant'
  <1>1. /\ pc[t] = "authorize"
        /\ pc'[t] = IF CanReserve(request[t].cand, request[t].cost) THEN "read" ELSE "release"
        /\ \A u \in Threads \ {t} : pc'[u] = pc[u]
        /\ UNCHANGED <<stateVars, lock, request, local>>
    BY DEF Check, Goto, LockedInvariant, LockedTypeOK
  <1>2. LockedTypeOK'
    BY DEF Check, Goto, LockedInvariant, LockedTypeOK, StateTypeOK, stateVars
  <1>3. request[t] \in AllRequests /\ request[t].op = "authorize"
    BY <1>1 DEF LockedInvariant, ThreadInvariant, RequestRuns
  <1>4. CanReserve(request[t].cand, request[t].cost)'
           <=> CanReserve(request[t].cand, request[t].cost)
    BY <1>1 DEF CanReserve, stateVars
  <1>5. ThreadInvariant(t)'
    BY <1>1, <1>3, <1>4
    DEF ThreadInvariant, RequestRuns, GrantHolds, GrantWritten, CopyCurrent, CopyWhole,
        FoundCurrent, AnswerCurrent
  <1>6. Balanced'
    BY <1>1, BalanceKept DEF Inside, stateVars
  <1> QED
    BY <1>1, <1>2, <1>5, <1>6, InsideStep DEF Inside

LEMMA ReadKeepsInvariant ==
    ASSUME LockedInvariant, NEW t \in Threads, ReadBefore(t)
    PROVE  LockedInvariant'
  <1> DEFINE r == request[t]
             g == TransitionCore(r.cand, r.cost, r.digest)
  <1>1. /\ pc[t] = "read" /\ pc'[t] = "write"
        /\ local' = [local EXCEPT ![t] = g]
        /\ \A u \in Threads \ {t} : pc'[u] = pc[u]
        /\ UNCHANGED <<stateVars, lock, request>>
    BY DEF ReadBefore, Goto, LockedInvariant, LockedTypeOK
  <1>2. /\ r \in AllRequests /\ r.op = "authorize" /\ CanReserve(r.cand, r.cost)
    BY <1>1 DEF LockedInvariant, ThreadInvariant, RequestRuns, GrantHolds
  <1>3. g \in TransitionIds
    BY <1>2, RequestTypes, TransitionTypes DEF LockedInvariant, LockedTypeOK
  <1>4. CanReserve(r.cand, r.cost)' /\ g' = g
    BY <1>1, <1>2 DEF CanReserve, TransitionCore, stateVars
  <1>5. local'[t] = g
    BY <1>1 DEF LockedInvariant, LockedTypeOK
  <1>6. LockedTypeOK'
    <2> HIDE DEF g
    <2> QED
      BY <1>1, <1>3 DEF ReadBefore, Goto, LockedInvariant, LockedTypeOK, StateTypeOK, stateVars
  <1>7. ThreadInvariant(t)'
    BY <1>1, <1>2, <1>4, <1>5
    DEF ThreadInvariant, RequestRuns, GrantHolds, GrantWritten, CopyCurrent, CopyWhole,
        FoundCurrent, AnswerCurrent
  <1>8. Balanced'
    BY <1>1, BalanceKept DEF Inside, stateVars
  <1> QED
    BY <1>1, <1>6, <1>7, <1>8, InsideStep DEF Inside

(* The first write: the version is ahead of the quota until the second. *)
LEMMA WriteVersionFacts ==
    ASSUME LockedInvariant, NEW t \in Threads, WriteVersion(t)
    PROVE  /\ pc[t] = "write" /\ pc'[t] = "charge"
           /\ request[t] \in AllRequests /\ request[t].op = "authorize"
           /\ local[t] \in TransitionIds
           /\ local[t] = TransitionCore(request[t].cand, request[t].cost, request[t].digest)
           /\ CanReserve(request[t].cand, request[t].cost)
           /\ local[t].source = Act[request[t].cand].source
           /\ local[t].nonce = Act[request[t].cand].nonce
           /\ local[t].after_version = sources[local[t].source].version + 1
           /\ local[t].quota_after = sources[local[t].source].quota - 1
           /\ \A u \in Threads \ {t} : pc'[u] = pc[u]
           /\ UNCHANGED <<nonces, transitions, configured, lock, request, local>>
  <1> DEFINE r == request[t]
  <1>1. /\ pc[t] = "write" /\ pc'[t] = "charge"
        /\ \A u \in Threads \ {t} : pc'[u] = pc[u]
        /\ UNCHANGED <<nonces, transitions, configured, lock, request, local>>
    BY DEF WriteVersion, Goto, LockedInvariant, LockedTypeOK
  <1>2. /\ r \in AllRequests /\ r.op = "authorize" /\ CanReserve(r.cand, r.cost)
        /\ local[t] = TransitionCore(r.cand, r.cost, r.digest)
    BY <1>1 DEF LockedInvariant, ThreadInvariant, RequestRuns, GrantHolds
  <1>3. /\ TransitionCore(r.cand, r.cost, r.digest) \in TransitionIds
        /\ TransitionCore(r.cand, r.cost, r.digest).source = Act[r.cand].source
        /\ TransitionCore(r.cand, r.cost, r.digest).nonce = Act[r.cand].nonce
        /\ TransitionCore(r.cand, r.cost, r.digest).after_version
             = sources[Act[r.cand].source].version + 1
        /\ TransitionCore(r.cand, r.cost, r.digest).quota_after
             = sources[Act[r.cand].source].quota - 1
    BY <1>2, RequestTypes, TransitionTypes DEF LockedInvariant, LockedTypeOK
  <1> QED
    BY <1>1, <1>2, <1>3

LEMMA WriteVersionKeepsInvariant ==
    ASSUME LockedInvariant, NEW t \in Threads, WriteVersion(t)
    PROVE  LockedInvariant'
  <1> DEFINE g == local[t]
  <1>1. /\ pc[t] = "write" /\ pc'[t] = "charge"
        /\ request[t] \in AllRequests /\ request[t].op = "authorize"
        /\ g \in TransitionIds
        /\ g.after_version = sources[g.source].version + 1
        /\ g.quota_after = sources[g.source].quota - 1
        /\ \A u \in Threads \ {t} : pc'[u] = pc[u]
        /\ UNCHANGED <<nonces, transitions, configured, lock, request, local>>
    BY WriteVersionFacts
  <1>2. /\ sources' = [sources EXCEPT ![g.source].version = g.after_version]
        /\ granted' = [granted EXCEPT ![g.source] = @ \cup {g}]
    BY DEF WriteVersion
  <1>3. /\ g.source \in Sources /\ g.after_version \in Nat /\ g.nonce \in Nonces
        /\ g.quota_after \in Int
    BY <1>1 DEF TransitionIds
  <1>4. /\ sources[g.source] \in SourceStates /\ StateTypeOK
    BY <1>3 DEF LockedInvariant, LockedTypeOK, StateTypeOK
  <1>5. /\ sources' \in [Sources -> SourceStates]
        /\ sources'[g.source].version = g.after_version
        /\ sources'[g.source].quota = sources[g.source].quota
        /\ \A s \in Sources \ {g.source} : sources'[s] = sources[s]
    BY <1>2, <1>3, <1>4 DEF StateTypeOK, SourceStates
  <1>6. LockedTypeOK'
    <2>1. StateTypeOK'
      BY <1>1, <1>2, <1>3, <1>4, <1>5 DEF StateTypeOK
    <2> QED
      BY <1>1, <2>1 DEF WriteVersion, Goto, LockedInvariant, LockedTypeOK
  <1>7. ThreadInvariant(t)'
    <2>1. sources[g.source].quota \in Int
      BY <1>4 DEF SourceStates
    <2>2. sources'[g.source].quota = g.quota_after + 1
      BY <1>1, <1>5, <2>1
    <2> QED
      BY <1>1, <1>5, <2>2
      DEF ThreadInvariant, RequestRuns, GrantHolds, GrantWritten, CopyCurrent, CopyWhole,
          FoundCurrent, AnswerCurrent
  <1>8. Balanced'
    <2>1. /\ \A s : Charging(s) <=> FALSE
          /\ \A s : Charging(s)' <=> g.source = s
      BY <1>1, ChargingAlone DEF Inside
    <2>2. \A s \in Sources : sources[s].quota + sources[s].version = configured[s].quota
      BY <2>1 DEF LockedInvariant, Balanced
    <2>3. ASSUME NEW s \in Sources
          PROVE  sources'[s].quota + sources'[s].version
                    = IF g.source = s THEN configured[s].quota + 1 ELSE configured[s].quota
      <3>1. CASE s = g.source
        <4>1. sources[s].quota \in Int /\ sources[s].version \in Nat
          BY <1>4, <3>1 DEF SourceStates
        <4>2. /\ sources'[s].quota = sources[s].quota
              /\ sources'[s].version = sources[s].version + 1
          BY <1>1, <1>5, <3>1
        <4> QED
          BY <2>2, <3>1, <4>1, <4>2
      <3>2. CASE s # g.source
        BY <1>5, <2>2, <3>2
      <3> QED
        BY <3>1, <3>2
    <2> QED
      BY <1>1, <2>1, <2>3 DEF Balanced
  <1> QED
    BY <1>1, <1>6, <1>7, <1>8, InsideStep DEF Inside

(* The second write completes the source. *)
LEMMA WriteQuotaKeepsInvariant ==
    ASSUME LockedInvariant, NEW t \in Threads, WriteQuota(t)
    PROVE  LockedInvariant' /\ sources' = [sources EXCEPT ![local[t].source] = After(local[t])]
  <1> DEFINE g == local[t]
  <1>1. /\ pc[t] = "charge" /\ pc'[t] = "reserve"
        /\ \A u \in Threads \ {t} : pc'[u] = pc[u]
        /\ sources' = [sources EXCEPT ![g.source].quota = g.quota_after,
                                      ![g.source].budget = g.budget_after]
        /\ UNCHANGED <<nonces, transitions, configured, granted, lock, request, local>>
    BY DEF WriteQuota, Goto, LockedInvariant, LockedTypeOK
  <1>2. /\ request[t] \in AllRequests /\ request[t].op = "authorize" /\ g \in TransitionIds
        /\ sources[g.source].version = g.after_version
        /\ sources[g.source].quota = g.quota_after + 1
    BY <1>1 DEF LockedInvariant, ThreadInvariant, RequestRuns, GrantWritten
  <1>3. /\ g.source \in Sources /\ g.after_version \in Nat /\ g.nonce \in Nonces
        /\ g.quota_after \in Int /\ g.budget_after \in Int
    BY <1>2 DEF TransitionIds
  <1>4. sources \in [Sources -> SourceStates] /\ sources[g.source] \in SourceStates /\ StateTypeOK
    BY <1>3 DEF LockedInvariant, LockedTypeOK, StateTypeOK
  <1>5. /\ DOMAIN sources' = Sources
        /\ \A s \in Sources \ {g.source} : sources'[s] = sources[s]
        /\ sources'[g.source]
             = [[sources[g.source] EXCEPT !.quota = g.quota_after] EXCEPT !.budget = g.budget_after]
    BY <1>1, <1>3, <1>4
  <1>6. sources'[g.source] = After(g) /\ After(g) \in SourceStates
    BY <1>2, <1>3, <1>4, <1>5 DEF After, SourceStates
  <1>7. sources' = [sources EXCEPT ![g.source] = After(g)]
    <2>1. sources' = [s \in Sources |-> sources'[s]]
      BY <1>1, <1>4
    <2> QED
      BY <1>4, <1>5, <1>6, <2>1
  <1>8. LockedTypeOK'
    <2>1. sources' \in [Sources -> SourceStates]
      BY <1>4, <1>6, <1>7
    <2>2. StateTypeOK'
      BY <1>1, <1>4, <2>1 DEF StateTypeOK
    <2> QED
      BY <1>1, <2>2 DEF WriteQuota, Goto, LockedInvariant, LockedTypeOK
  <1>9. ThreadInvariant(t)'
    BY <1>1, <1>2, <1>6
    DEF ThreadInvariant, RequestRuns, GrantHolds, GrantWritten, CopyCurrent, CopyWhole,
        FoundCurrent, AnswerCurrent, After
  <1>10. Balanced'
    <2>1. /\ \A s : Charging(s) <=> g.source = s
          /\ \A s : Charging(s)' <=> FALSE
      BY <1>1, ChargingAlone DEF Inside
    <2>2. \A s \in Sources :
             sources[s].quota + sources[s].version
               = IF g.source = s THEN configured[s].quota + 1 ELSE configured[s].quota
      BY <2>1 DEF LockedInvariant, Balanced
    <2>3. ASSUME NEW s \in Sources
          PROVE  sources'[s].quota + sources'[s].version = configured[s].quota
      <3>1. CASE s = g.source
        <4>1. sources'[s].quota = g.quota_after /\ sources'[s].version = g.after_version
          BY <1>6, <3>1 DEF After
        <4>2. g.quota_after + 1 + g.after_version = configured[s].quota + 1
          BY <1>2, <2>2, <3>1
        <4>3. configured[s].quota \in Int
          BY <1>4 DEF StateTypeOK
        <4> QED
          BY <1>3, <4>1, <4>2, <4>3
      <3>2. CASE s # g.source
        BY <1>5, <2>2, <3>2
      <3> QED
        BY <3>1, <3>2
    <2> QED
      BY <1>1, <2>1, <2>3 DEF Balanced
  <1> QED
    BY <1>1, <1>7, <1>8, <1>9, <1>10, InsideStep DEF Inside

LEMMA WriteNonceKeepsInvariant ==
    ASSUME LockedInvariant, NEW t \in Threads, WriteNonce(t)
    PROVE  LockedInvariant'
  <1> DEFINE g == local[t]
  <1>1. /\ pc[t] = "reserve" /\ pc'[t] = "record"
        /\ \A u \in Threads \ {t} : pc'[u] = pc[u]
        /\ nonces' = [nonces EXCEPT ![g.nonce] = g]
        /\ UNCHANGED <<sources, transitions, configured, granted, lock, request, local>>
    BY DEF WriteNonce, Goto, LockedInvariant, LockedTypeOK
  <1>2. /\ request[t] \in AllRequests /\ request[t].op = "authorize" /\ g \in TransitionIds
        /\ sources[g.source] = After(g)
    BY <1>1 DEF LockedInvariant, ThreadInvariant, RequestRuns, GrantWritten
  <1>3. g.nonce \in Nonces
    BY <1>2 DEF TransitionIds
  <1>4. nonces'[g.nonce] = g /\ nonces' \in [Nonces -> TransitionIds \cup {Absent}]
    BY <1>1, <1>2, <1>3 DEF LockedInvariant, LockedTypeOK, StateTypeOK
  <1>5. LockedTypeOK'
    BY <1>1, <1>4 DEF WriteNonce, Goto, LockedInvariant, LockedTypeOK, StateTypeOK
  <1>6. ThreadInvariant(t)'
    BY <1>1, <1>2, <1>4
    DEF ThreadInvariant, RequestRuns, GrantHolds, GrantWritten, CopyCurrent, CopyWhole,
        FoundCurrent, AnswerCurrent, After
  <1>7. Balanced'
    BY <1>1, BalanceKept DEF Inside
  <1> QED
    BY <1>1, <1>5, <1>6, <1>7, InsideStep DEF Inside

LEMMA WriteTransitionKeepsInvariant ==
    ASSUME LockedInvariant, NEW t \in Threads, WriteTransition(t)
    PROVE  LockedInvariant'
  <1>1. /\ pc[t] = "record" /\ pc'[t] = "release"
        /\ \A u \in Threads \ {t} : pc'[u] = pc[u]
        /\ transitions' = transitions \cup {local[t]}
        /\ UNCHANGED <<sources, nonces, configured, granted, lock, request, local>>
    BY DEF WriteTransition, Goto, LockedInvariant, LockedTypeOK
  <1>2. /\ request[t] \in AllRequests /\ request[t].op = "authorize" /\ local[t] \in TransitionIds
    BY <1>1 DEF LockedInvariant, ThreadInvariant, RequestRuns, GrantWritten
  <1>3. LockedTypeOK'
    BY <1>1, <1>2 DEF WriteTransition, Goto, LockedInvariant, LockedTypeOK, StateTypeOK
  <1>4. ThreadInvariant(t)'
    BY <1>1, <1>2
    DEF ThreadInvariant, RequestRuns, GrantHolds, GrantWritten, CopyCurrent, CopyWhole,
        FoundCurrent, AnswerCurrent
  <1>5. Balanced'
    BY <1>1, BalanceKept DEF Inside
  <1> QED
    BY <1>1, <1>3, <1>4, <1>5, InsideStep DEF Inside

(* The new SourceState starts its own balance. *)
LEMMA ConfigureKeepsInvariant ==
    ASSUME LockedInvariant, NEW t \in Threads, Configure(t)
    PROVE  LockedInvariant'
  <1> DEFINE r == request[t]
  <1>1. /\ pc[t] = "configure" /\ pc'[t] = "release"
        /\ \A u \in Threads \ {t} : pc'[u] = pc[u]
        /\ ConfigureSource(r.source, r.config)
        /\ UNCHANGED <<nonces, transitions, lock, request, local>>
    BY DEF Configure, ConfigureSource, Goto, LockedInvariant, LockedTypeOK
  <1>2. r \in AllRequests /\ r.op = "configure"
    BY <1>1 DEF LockedInvariant, ThreadInvariant, RequestRuns
  <1>3. r.source \in Sources /\ r.config \in Configurations
    BY <1>2, RequestTypes
  <1>4. StateTypeOK'
    BY <1>1, <1>3, ConfigureKeepsType DEF LockedInvariant, LockedTypeOK
  <1>5. LockedTypeOK'
    BY <1>4 DEF Configure, Goto, LockedInvariant, LockedTypeOK
  <1>6. ThreadInvariant(t)'
    BY <1>1, <1>2
    DEF ThreadInvariant, RequestRuns, GrantHolds, GrantWritten, CopyCurrent, CopyWhole,
        FoundCurrent, AnswerCurrent
  <1>7. Balanced'
    <2>1. /\ \A s : Charging(s) <=> FALSE
          /\ \A s : Charging(s)' <=> FALSE
      BY <1>1, ChargingAlone DEF Inside
    <2>2. ASSUME NEW s \in Sources
          PROVE  sources'[s].quota + sources'[s].version = configured'[s].quota
      <3>1. CASE s = r.source
        <4>1. sources'[s] = Fresh(r.config.quota, r.config.budget) /\ configured'[s] = r.config
          BY <1>1, <3>1 DEF ConfigureSource, LockedInvariant, LockedTypeOK, StateTypeOK
        <4>2. r.config.quota \in Int
          BY <1>3, QuotaAssumption
        <4> QED
          BY <4>1, <4>2 DEF Fresh
      <3>2. CASE s # r.source
        <4>1. sources'[s] = sources[s] /\ configured'[s] = configured[s]
          BY <1>1, <3>2 DEF ConfigureSource, LockedInvariant, LockedTypeOK, StateTypeOK
        <4> QED
          BY <2>1, <4>1 DEF LockedInvariant, Balanced
      <3> QED
        BY <3>1, <3>2
    <2> QED
      BY <2>1, <2>2 DEF Balanced
  <1> QED
    BY <1>1, <1>5, <1>6, <1>7, InsideStep DEF Inside

(* snapshot: no thread is charging while it copies. *)
LEMMA SnapshotVersionKeepsInvariant ==
    ASSUME LockedInvariant, NEW t \in Threads, SnapshotVersion(t)
    PROVE  LockedInvariant'
  <1> DEFINE src == sources[request[t].source]
             copy == [Fresh(0, 0) EXCEPT !.version = src.version]
  <1>1. /\ pc[t] = "snapshot" /\ pc'[t] = "copy"
        /\ \A u \in Threads \ {t} : pc'[u] = pc[u]
        /\ local' = [local EXCEPT ![t] = copy]
        /\ UNCHANGED <<stateVars, lock, request>>
    BY DEF SnapshotVersion, Goto, LockedInvariant, LockedTypeOK
  <1>2. request[t] \in AllRequests /\ request[t].op = "snapshot"
    BY <1>1 DEF LockedInvariant, ThreadInvariant, RequestRuns
  <1>3. src \in SourceStates
    BY <1>2, RequestTypes DEF LockedInvariant, LockedTypeOK, StateTypeOK
  <1>4. copy \in SourceStates /\ copy.version = src.version
    BY <1>3 DEF SourceStates, Fresh
  <1> HIDE DEF copy
  <1>5. local'[t] = copy
    BY <1>1 DEF LockedInvariant, LockedTypeOK
  <1>6. LockedTypeOK'
    <2>1. LockedTypeOK
      BY DEF LockedInvariant
    <2>2. pc' = [pc EXCEPT ![t] = "copy"]
      BY DEF SnapshotVersion, Goto
    <2>3. StateTypeOK'
      BY <1>1, <2>1 DEF LockedTypeOK, StateTypeOK, stateVars
    <2> QED
      BY <1>1, <1>4, <2>1, <2>2, <2>3 DEF LockedTypeOK
  <1>7. ThreadInvariant(t)'
    BY <1>1, <1>2, <1>4, <1>5
    DEF ThreadInvariant, RequestRuns, GrantHolds, GrantWritten, CopyCurrent, CopyWhole,
        FoundCurrent, AnswerCurrent, stateVars
  <1>8. Balanced'
    BY <1>1, BalanceKept DEF Inside, stateVars
  <1> QED
    BY <1>1, <1>6, <1>7, <1>8, InsideStep DEF Inside

LEMMA SnapshotQuotaKeepsInvariant ==
    ASSUME LockedInvariant, NEW t \in Threads, SnapshotQuota(t)
    PROVE  LockedInvariant'
  <1> DEFINE src == sources[request[t].source]
             copy == [[local[t] EXCEPT !.quota = src.quota] EXCEPT !.budget = src.budget]
  <1>1. /\ pc[t] = "copy" /\ pc'[t] = "release"
        /\ \A u \in Threads \ {t} : pc'[u] = pc[u]
        /\ local' = [local EXCEPT ![t].quota = src.quota, ![t].budget = src.budget]
        /\ UNCHANGED <<stateVars, lock, request>>
    BY DEF SnapshotQuota, Goto, LockedInvariant, LockedTypeOK
  <1>2. /\ request[t] \in AllRequests /\ request[t].op = "snapshot"
        /\ local[t] \in SourceStates /\ local[t].version = src.version
    BY <1>1 DEF LockedInvariant, ThreadInvariant, RequestRuns, CopyCurrent
  <1>3. src \in SourceStates /\ request[t].source \in Sources
    BY <1>2, RequestTypes DEF LockedInvariant, LockedTypeOK, StateTypeOK
  <1>4. copy \in SourceStates /\ copy.version = src.version /\ copy.quota = src.quota
    BY <1>2, <1>3 DEF SourceStates
  <1>5. local' = [local EXCEPT ![t] = copy]
    BY <1>1 DEF LockedInvariant, LockedTypeOK
  <1> HIDE DEF copy
  <1>6. local'[t] = copy
    BY <1>5 DEF LockedInvariant, LockedTypeOK
  <1>7. LockedTypeOK'
    <2>1. LockedTypeOK
      BY DEF LockedInvariant
    <2>2. pc' = [pc EXCEPT ![t] = "release"]
      BY DEF SnapshotQuota, Goto
    <2>3. local' \in [Threads -> TransitionIds \cup SourceStates \cup {Absent}]
      BY <1>4, <1>5, <2>1 DEF LockedTypeOK
    <2>4. StateTypeOK'
      BY <1>1, <2>1 DEF LockedTypeOK, StateTypeOK, stateVars
    <2> QED
      BY <1>1, <2>1, <2>2, <2>3, <2>4 DEF LockedTypeOK
  <1>8. src.quota + src.version = configured[request[t].source].quota
    <2>1. \A s : Charging(s) <=> FALSE
      BY <1>1, ChargingAlone DEF Inside
    <2> QED
      BY <1>3, <2>1 DEF LockedInvariant, Balanced
  <1>9. ThreadInvariant(t)'
    BY <1>1, <1>2, <1>4, <1>6, <1>8
    DEF ThreadInvariant, RequestRuns, GrantHolds, GrantWritten, CopyCurrent, CopyWhole,
        FoundCurrent, AnswerCurrent, stateVars
  <1>10. Balanced'
    BY <1>1, BalanceKept DEF Inside, stateVars
  <1> QED
    BY <1>1, <1>7, <1>9, <1>10, InsideStep DEF Inside

(* The lookups: nobody writes between their reads, and the answer is given *)
(* for the state they saw.                                                 *)
LEMMA FindKeepsInvariant ==
    ASSUME LockedInvariant, NEW t \in Threads, Find(t)
    PROVE  LockedInvariant'
  <1> DEFINE id == request[t].transition_id
             found == IF id \in transitions THEN id ELSE Absent
  <1>1. /\ pc[t] \in {"verify", "get"}
        /\ pc' = [pc EXCEPT ![t] = IF pc[t] = "verify" THEN "judge" ELSE "release"]
        /\ local' = [local EXCEPT ![t] = found]
        /\ UNCHANGED <<stateVars, lock, request>>
    BY DEF Find, Goto
  <1>2. /\ request[t] \in AllRequests /\ request[t].op = pc[t]
        /\ transitions \subseteq TransitionIds
    BY <1>1 DEF LockedInvariant, LockedTypeOK, StateTypeOK, ThreadInvariant, RequestRuns
  <1>3. found \in TransitionIds \cup {Absent} /\ (found # Absent <=> id \in transitions)
    BY <1>2, AbsentAssumption DEF TransitionIds
  <1>4. found = IF id \in transitions THEN id ELSE Absent
    OBVIOUS
  <1> HIDE DEF found
  <1>5. /\ local'[t] = found /\ pc'[t] = IF pc[t] = "verify" THEN "judge" ELSE "release"
        /\ \A u \in Threads \ {t} : pc'[u] = pc[u]
    BY <1>1 DEF LockedInvariant, LockedTypeOK
  <1>6. LockedTypeOK'
    <2>1. LockedTypeOK
      BY DEF LockedInvariant
    <2>2. StateTypeOK'
      BY <1>1, <2>1 DEF LockedTypeOK, StateTypeOK, stateVars
    <2> QED
      BY <1>1, <1>3, <2>1, <2>2 DEF LockedTypeOK
  <1>7. ThreadInvariant(t)'
    BY <1>1, <1>2, <1>3, <1>4, <1>5
    DEF ThreadInvariant, RequestRuns, GrantHolds, GrantWritten, CopyCurrent, CopyWhole,
        FoundCurrent, AnswerCurrent, stateVars
  <1>8. Balanced'
    BY <1>1, <1>5, BalanceKept DEF Inside, stateVars
  <1> QED
    BY <1>1, <1>5, <1>6, <1>7, <1>8, InsideStep DEF Inside

LEMMA JudgeKeepsInvariant ==
    ASSUME LockedInvariant, NEW t \in Threads, Judge(t)
    PROVE  LockedInvariant'
  <1> DEFINE id == request[t].transition_id
             held == local[t] # Absent /\ TransitionVerified(local[t], request[t].cand)
             answer == IF held THEN local[t] ELSE Absent
  <1>1. /\ pc[t] = "judge" /\ pc' = [pc EXCEPT ![t] = "release"]
        /\ local' = [local EXCEPT ![t] = answer]
        /\ UNCHANGED <<stateVars, lock, request>>
    BY DEF Judge, Goto
  <1>2. /\ request[t] \in AllRequests /\ request[t].op = "verify"
        /\ local[t] = IF id \in transitions THEN id ELSE Absent
        /\ transitions \subseteq TransitionIds
    BY <1>1 DEF LockedInvariant, LockedTypeOK, StateTypeOK, ThreadInvariant, RequestRuns,
                FoundCurrent
  <1>3. /\ answer \in TransitionIds \cup {Absent} /\ answer \in {id, Absent}
        /\ answer # Absent <=> id \in transitions /\ TransitionVerified(id, request[t].cand)
    <2>1. id \in transitions => id \in TransitionIds /\ id # Absent
      BY <1>2, AbsentAssumption DEF TransitionIds
    <2>2. CASE id \in transitions
      BY <1>2, <2>1, <2>2
    <2>3. CASE id \notin transitions
      BY <1>2, <2>3
    <2> QED
      BY <2>2, <2>3
  <1> HIDE DEF answer
  <1>4. /\ local'[t] = answer /\ pc'[t] = "release"
        /\ \A u \in Threads \ {t} : pc'[u] = pc[u]
    BY <1>1 DEF LockedInvariant, LockedTypeOK
  <1>5. LockedTypeOK'
    <2>1. LockedTypeOK
      BY DEF LockedInvariant
    <2>2. StateTypeOK'
      BY <1>1, <2>1 DEF LockedTypeOK, StateTypeOK, stateVars
    <2> QED
      BY <1>1, <1>3, <2>1, <2>2 DEF LockedTypeOK
  <1>6. TransitionVerified(id, request[t].cand)' <=> TransitionVerified(id, request[t].cand)
    BY <1>1 DEF TransitionVerified, stateVars
  <1>7. ThreadInvariant(t)'
    BY <1>1, <1>2, <1>3, <1>4, <1>6
    DEF ThreadInvariant, RequestRuns, GrantHolds, GrantWritten, CopyCurrent, CopyWhole,
        FoundCurrent, AnswerCurrent, stateVars
  <1>8. Balanced'
    BY <1>1, <1>4, BalanceKept DEF Inside, stateVars
  <1> QED
    BY <1>1, <1>4, <1>5, <1>7, <1>8, InsideStep DEF Inside

LEMMA LockedNextKeepsInvariant == LockedInvariant /\ [LockedNext]_lockedVars => LockedInvariant'
  <1> SUFFICES ASSUME LockedInvariant, [LockedNext]_lockedVars PROVE LockedInvariant'
    OBVIOUS
  <1>1. CASE UNCHANGED lockedVars
    <2>1. UNCHANGED <<sources, nonces, transitions, configured, granted, lock, pc, request, local>>
      BY <1>1 DEF lockedVars, stateVars
    <2>2. LockedTypeOK' /\ MutualExclusion' /\ Balanced'
      BY <2>1 DEF LockedInvariant, LockedTypeOK, StateTypeOK, MutualExclusion, Inside,
                  Balanced, Charging
    <2>3. ASSUME NEW t \in Threads
          PROVE  ThreadInvariant(t)'
      <3>1. ThreadInvariant(t)
        BY DEF LockedInvariant
      <3>2. RequestRuns(t)' /\ GrantHolds(t)'
        BY <2>1, <3>1 DEF ThreadInvariant, RequestRuns, GrantHolds, CanReserve, TransitionCore
      <3>3. GrantWritten(t)' /\ CopyCurrent(t)' /\ CopyWhole(t)'
        BY <2>1, <3>1 DEF ThreadInvariant, GrantWritten, CopyCurrent, CopyWhole
      <3>4. FoundCurrent(t)' /\ AnswerCurrent(t)'
        BY <2>1, <3>1 DEF ThreadInvariant, FoundCurrent, AnswerCurrent, TransitionVerified
      <3> QED
        BY <3>2, <3>3, <3>4 DEF ThreadInvariant
    <2> QED
      BY <2>2, <2>3 DEF LockedInvariant
  <1>2. CASE LockedNext
    BY <1>2, CallTypes, CallKeepsInvariant, AcquireKeepsInvariant, ReleaseKeepsInvariant,
       CheckKeepsInvariant, ReadKeepsInvariant, WriteVersionKeepsInvariant,
       WriteQuotaKeepsInvariant, WriteNonceKeepsInvariant, WriteTransitionKeepsInvariant,
       ConfigureKeepsInvariant, SnapshotVersionKeepsInvariant, SnapshotQuotaKeepsInvariant,
       FindKeepsInvariant, JudgeKeepsInvariant
    DEF LockedNext, Step
  <1> QED
    BY <1>1, <1>2

(* The invariant of the locked code, for any number of threads: one thread *)
(* at a time is inside, what its check found is still so when it writes,   *)
(* and quota and version of a source move together (state.py:53-91,        *)
(* 107-110).                                                               *)
THEOREM LockedInvariantCorrect == LockedSpec => []LockedInvariant
  BY LockedInitInvariant, LockedNextKeepsInvariant, PTL DEF LockedSpec

(* Every reachable state of the locked code is well typed. *)
THEOREM LockedTypeCorrect == LockedSpec => []LockedTypeOK
  <1>1. LockedInvariant => LockedTypeOK
    BY DEF LockedInvariant
  <1> QED
    BY <1>1, LockedInvariantCorrect, PTL

(* snapshot() never returns a torn copy: the version and the quota it read *)
(* belong together, whichever threads ran between the two reads            *)
(* (state.py:107-110 against 88).                                          *)
THEOREM SnapshotNotTornCorrect == LockedSpec => []SnapshotNotTorn
  <1>1. LockedInvariant => SnapshotNotTorn
    BY DEF LockedInvariant, ThreadInvariant, CopyWhole, SnapshotNotTorn
  <1> QED
    BY <1>1, LockedInvariantCorrect, PTL

(* A lookup answers for the state it returns into: what it says is         *)
(* verified or recorded is what the one-step method would say then,        *)
(* whichever threads ran between its two reads of shared state             *)
(* (state.py:93-105, 112-114 against 89-90).                               *)
THEOREM LookupsCurrentCorrect == LockedSpec => []LookupsCurrent
  <1>1. LockedInvariant => LookupsCurrent
    BY DEF LockedInvariant, ThreadInvariant, AnswerCurrent, LookupsCurrent
  <1> QED
    BY <1>1, LockedInvariantCorrect, PTL

-----------------------------------------------------------------------------
(* The refinement: what readers are taken to see when the threads of a set *)
(* are in flight with what their locals hold, for no thread and for one.   *)
SourcesSeen(flying, held, src) ==
    [s \in Sources |->
        IF \E t \in flying : held[t].source = s
        THEN After(held[CHOOSE t \in flying : held[t].source = s])
        ELSE src[s]]

NoncesSeen(flying, held, map) ==
    [n \in Nonces |->
        IF \E t \in flying : held[t].nonce = n
        THEN held[CHOOSE t \in flying : held[t].nonce = n]
        ELSE map[n]]

LEMMA SeenByNobody ==
    ASSUME NEW held, NEW src \in [Sources -> SourceStates],
           NEW map \in [Nonces -> TransitionIds \cup {Absent}]
    PROVE  SourcesSeen({}, held, src) = src /\ NoncesSeen({}, held, map) = map
  BY DEF SourcesSeen, NoncesSeen

LEMMA SeenOfOne ==
    ASSUME NEW t, NEW held, held[t] \in TransitionIds,
           NEW src \in [Sources -> SourceStates],
           NEW map \in [Nonces -> TransitionIds \cup {Absent}]
    PROVE  /\ SourcesSeen({t}, held, src) = [src EXCEPT ![held[t].source] = After(held[t])]
           /\ NoncesSeen({t}, held, map) = [map EXCEPT ![held[t].nonce] = held[t]]
  <1>1. SourcesSeen({t}, held, src)
          = [s \in Sources |-> IF held[t].source = s THEN After(held[t]) ELSE src[s]]
    <2>1. \A s : (\E u \in {t} : held[u].source = s) =>
             (CHOOSE u \in {t} : held[u].source = s) = t
      OBVIOUS
    <2> QED
      BY <2>1 DEF SourcesSeen
  <1>2. NoncesSeen({t}, held, map)
          = [n \in Nonces |-> IF held[t].nonce = n THEN held[t] ELSE map[n]]
    <2>1. \A n : (\E u \in {t} : held[u].nonce = n) =>
             (CHOOSE u \in {t} : held[u].nonce = n) = t
      OBVIOUS
    <2> QED
      BY <2>1 DEF NoncesSeen
  <1> QED
    BY <1>1, <1>2

LEMMA FlightAlone ==
    ASSUME LockedInvariant, NEW t \in Threads, Inside(t),
           \A u \in Threads \ {t} : pc'[u] = pc[u]
    PROVE  /\ InFlight = IF pc[t] \in {"charge", "reserve", "record"} THEN {t} ELSE {}
           /\ InFlight' = IF pc'[t] \in {"charge", "reserve", "record"} THEN {t} ELSE {}
  <1>1. \A u \in Threads \ {t} : pc[u] \in {"idle", "wait"}
    BY OthersOutside DEF LockedInvariant
  <1> QED
    BY <1>1 DEF InFlight

(* What readers see, before and after a step of a thread inside.           *)
Seen == <<SourcesSeen(InFlight, local, sources), NoncesSeen(InFlight, local, nonces),
          transitions \cup {local[t] : t \in InFlight}, configured, granted>>

StateStep == Atomic!StateNext \/ UNCHANGED Seen

LEMMA StateStepIsStep == StateStep => [Atomic!StateNext]_(Atomic!stateVars)
  BY DEF StateStep, Seen, SourcesSeen, NoncesSeen, Atomic!stateVars, Atomic!After, After

(* Steps that write nothing and put nothing in flight. *)
LEMMA IdleStep ==
    ASSUME LockedInvariant, LockedInvariant', InFlight = {}, InFlight' = {},
           UNCHANGED stateVars
    PROVE  StateStep
  <1>1. /\ sources \in [Sources -> SourceStates]
        /\ nonces \in [Nonces -> TransitionIds \cup {Absent}]
    BY DEF LockedInvariant, LockedTypeOK, StateTypeOK
  <1>2. /\ SourcesSeen({}, local, sources) = sources /\ NoncesSeen({}, local, nonces) = nonces
        /\ SourcesSeen({}, local', sources) = sources /\ NoncesSeen({}, local', nonces) = nonces
    BY <1>1, SeenByNobody
  <1>3. UNCHANGED <<sources, nonces, transitions, configured, granted>>
    BY DEF stateVars
  <1>4. Seen' = Seen
    BY <1>2, <1>3 DEF Seen
  <1> QED
    BY <1>4 DEF StateStep

(* The first write is the grant. *)
LEMMA WriteVersionIsGrant ==
    ASSUME LockedInvariant, LockedInvariant', NEW t \in Threads, WriteVersion(t)
    PROVE  StateStep
  <1> DEFINE r == request[t]
             g == local[t]
  <1>1. /\ pc[t] = "write" /\ pc'[t] = "charge"
        /\ r \in AllRequests /\ r.op = "authorize"
        /\ g \in TransitionIds
        /\ g = TransitionCore(r.cand, r.cost, r.digest)
        /\ CanReserve(r.cand, r.cost)
        /\ \A u \in Threads \ {t} : pc'[u] = pc[u]
        /\ UNCHANGED <<nonces, transitions, configured, lock, request, local>>
    BY WriteVersionFacts
  <1>2. /\ sources' = [sources EXCEPT ![g.source].version = g.after_version]
        /\ granted' = [granted EXCEPT ![g.source] = @ \cup {g}]
    BY DEF WriteVersion
  <1>3. InFlight = {} /\ InFlight' = {t}
    BY <1>1, FlightAlone DEF Inside
  <1>4. /\ sources \in [Sources -> SourceStates] /\ sources' \in [Sources -> SourceStates]
        /\ nonces \in [Nonces -> TransitionIds \cup {Absent}]
    BY DEF LockedInvariant, LockedTypeOK, StateTypeOK
  <1>5. /\ SourcesSeen(InFlight, local, sources) = sources
        /\ NoncesSeen(InFlight, local, nonces) = nonces
        /\ transitions \cup {local[u] : u \in InFlight} = transitions
    BY <1>3, <1>4, SeenByNobody
  <1>6. /\ SourcesSeen({t}, local, sources') = [sources' EXCEPT ![g.source] = After(g)]
        /\ NoncesSeen({t}, local, nonces) = [nonces EXCEPT ![g.nonce] = g]
    BY <1>1, <1>4, SeenOfOne
  <1>7. [sources' EXCEPT ![g.source] = After(g)] = [sources EXCEPT ![g.source] = After(g)]
    BY <1>2, <1>4
  <1>8. /\ SourcesSeen(InFlight, local, sources)'
             = [SourcesSeen(InFlight, local, sources) EXCEPT ![g.source] = After(g)]
        /\ NoncesSeen(InFlight, local, nonces)'
             = [NoncesSeen(InFlight, local, nonces) EXCEPT ![g.nonce] = g]
        /\ (transitions \cup {local[u] : u \in InFlight})'
             = (transitions \cup {local[u] : u \in InFlight}) \cup {g}
    BY <1>1, <1>3, <1>5, <1>6, <1>7
  <1>9. PICK c \in Candidates, k \in Costs, p \in Payloads :
          c = r.cand /\ k = r.cost /\ Digest(c, p) = r.digest
    BY <1>1, RequestTypes
  <1>10. Atomic!Digest(c, p) = Digest(c, p)
    BY DEF Atomic!Digest, Digest
  <1>11. Atomic!TransitionCore(c, k, Digest(c, p)) = g
    BY <1>1, <1>5, <1>9
    DEF Atomic!TransitionCore, TransitionCore, SourcesSeen, After, Atomic!After
  <1>12. Atomic!CanReserve(c, k)
    BY <1>1, <1>5, <1>9
    DEF Atomic!CanReserve, CanReserve, SourcesSeen, NoncesSeen, After, Atomic!After
  <1>13. Atomic!TransitionForAuthorization(c, k, Digest(c, p))
    BY <1>1, <1>2, <1>8, <1>11, <1>12
    DEF Atomic!TransitionForAuthorization, SourcesSeen, NoncesSeen, After, Atomic!After
  <1>14. Atomic!StateNext
    BY <1>9, <1>10, <1>13 DEF Atomic!StateNext
  <1> QED
    BY <1>14 DEF StateStep

(* The later writes complete what the readers already see. *)
LEMMA WriteQuotaUnseen ==
    ASSUME LockedInvariant, LockedInvariant', NEW t \in Threads, WriteQuota(t)
    PROVE  StateStep
  <1> DEFINE g == local[t]
  <1>1. /\ pc[t] = "charge" /\ pc'[t] = "reserve"
        /\ \A u \in Threads \ {t} : pc'[u] = pc[u]
        /\ UNCHANGED <<nonces, transitions, configured, granted, local>>
    BY DEF WriteQuota, Goto, LockedInvariant, LockedTypeOK
  <1>2. sources' = [sources EXCEPT ![g.source] = After(g)]
    BY WriteQuotaKeepsInvariant
  <1>3. InFlight = {t} /\ InFlight' = {t}
    BY <1>1, FlightAlone DEF Inside
  <1>4. /\ g \in TransitionIds
        /\ sources \in [Sources -> SourceStates] /\ sources' \in [Sources -> SourceStates]
        /\ nonces \in [Nonces -> TransitionIds \cup {Absent}]
    BY <1>1 DEF LockedInvariant, LockedTypeOK, StateTypeOK, ThreadInvariant, GrantWritten
  <1>5. /\ SourcesSeen({t}, local, sources) = [sources EXCEPT ![g.source] = After(g)]
        /\ SourcesSeen({t}, local, sources') = [sources' EXCEPT ![g.source] = After(g)]
    BY <1>4, SeenOfOne
  <1>6. SourcesSeen({t}, local, sources') = SourcesSeen({t}, local, sources)
    BY <1>2, <1>4, <1>5
  <1>7. Seen' = Seen
    BY <1>1, <1>3, <1>6 DEF Seen
  <1> QED
    BY <1>7 DEF StateStep

LEMMA WriteNonceUnseen ==
    ASSUME LockedInvariant, LockedInvariant', NEW t \in Threads, WriteNonce(t)
    PROVE  StateStep
  <1> DEFINE g == local[t]
  <1>1. /\ pc[t] = "reserve" /\ pc'[t] = "record"
        /\ \A u \in Threads \ {t} : pc'[u] = pc[u]
        /\ nonces' = [nonces EXCEPT ![g.nonce] = g]
        /\ UNCHANGED <<sources, transitions, configured, granted, local>>
    BY DEF WriteNonce, Goto, LockedInvariant, LockedTypeOK
  <1>2. InFlight = {t} /\ InFlight' = {t}
    BY <1>1, FlightAlone DEF Inside
  <1>3. /\ g \in TransitionIds
        /\ sources \in [Sources -> SourceStates]
        /\ nonces \in [Nonces -> TransitionIds \cup {Absent}]
        /\ nonces' \in [Nonces -> TransitionIds \cup {Absent}]
    BY <1>1 DEF LockedInvariant, LockedTypeOK, StateTypeOK, ThreadInvariant, GrantWritten
  <1>4. /\ NoncesSeen({t}, local, nonces) = [nonces EXCEPT ![g.nonce] = g]
        /\ NoncesSeen({t}, local, nonces') = [nonces' EXCEPT ![g.nonce] = g]
    BY <1>3, SeenOfOne
  <1>5. NoncesSeen({t}, local, nonces') = NoncesSeen({t}, local, nonces)
    BY <1>1, <1>3, <1>4
  <1>6. Seen' = Seen
    BY <1>1, <1>2, <1>5 DEF Seen
  <1> QED
    BY <1>6 DEF StateStep

LEMMA WriteTransitionUnseen ==
    ASSUME LockedInvariant, LockedInvariant', NEW t \in Threads, WriteTransition(t)
    PROVE  StateStep
  <1> DEFINE g == local[t]
  <1>1. /\ pc[t] = "record" /\ pc'[t] = "release"
        /\ \A u \in Threads \ {t} : pc'[u] = pc[u]
        /\ transitions' = transitions \cup {g}
        /\ UNCHANGED <<sources, nonces, configured, granted, local>>
    BY DEF WriteTransition, Goto, LockedInvariant, LockedTypeOK
  <1>2. InFlight = {t} /\ InFlight' = {}
    BY <1>1, FlightAlone DEF Inside
  <1>3. /\ g \in TransitionIds /\ sources[g.source] = After(g) /\ nonces[g.nonce] = g
        /\ sources \in [Sources -> SourceStates]
        /\ nonces \in [Nonces -> TransitionIds \cup {Absent}]
    BY <1>1 DEF LockedInvariant, LockedTypeOK, StateTypeOK, ThreadInvariant, GrantWritten
  <1>4. /\ SourcesSeen({t}, local, sources) = [sources EXCEPT ![g.source] = After(g)]
        /\ NoncesSeen({t}, local, nonces) = [nonces EXCEPT ![g.nonce] = g]
        /\ SourcesSeen({}, local, sources) = sources
        /\ NoncesSeen({}, local, nonces) = nonces
    BY <1>3, SeenOfOne, SeenByNobody
  <1>5. /\ [sources EXCEPT ![g.source] = After(g)] = sources
        /\ [nonces EXCEPT ![g.nonce] = g] = nonces
    BY <1>3
  <1>6. (transitions \cup {local[u] : u \in InFlight})' = transitions \cup {local[u] : u \in InFlight}
    BY <1>1, <1>2
  <1>7. Seen' = Seen
    BY <1>1, <1>2, <1>4, <1>5, <1>6 DEF Seen
  <1> QED
    BY <1>7 DEF StateStep

LEMMA ConfigureIsConfigure ==
    ASSUME LockedInvariant, LockedInvariant', NEW t \in Threads, Configure(t)
    PROVE  StateStep
  <1> DEFINE r == request[t]
  <1>1. /\ pc[t] = "configure" /\ pc'[t] = "release"
        /\ \A u \in Threads \ {t} : pc'[u] = pc[u]
        /\ ConfigureSource(r.source, r.config)
        /\ UNCHANGED <<nonces, transitions, local>>
    BY DEF Configure, ConfigureSource, Goto, LockedInvariant, LockedTypeOK
  <1>2. PICK s \in Sources, q \in Configurations : s = r.source /\ q = r.config
    BY <1>1, RequestTypes DEF LockedInvariant, ThreadInvariant, RequestRuns
  <1>3. InFlight = {} /\ InFlight' = {}
    BY <1>1, FlightAlone DEF Inside
  <1>4. /\ sources \in [Sources -> SourceStates] /\ sources' \in [Sources -> SourceStates]
        /\ nonces \in [Nonces -> TransitionIds \cup {Absent}]
    BY DEF LockedInvariant, LockedTypeOK, StateTypeOK
  <1>5. /\ SourcesSeen(InFlight, local, sources) = sources
        /\ NoncesSeen(InFlight, local, nonces) = nonces
        /\ SourcesSeen(InFlight, local, sources)' = sources'
        /\ NoncesSeen(InFlight, local, nonces)' = nonces
        /\ transitions \cup {local[u] : u \in InFlight} = transitions
        /\ (transitions \cup {local[u] : u \in InFlight})' = transitions
    BY <1>1, <1>3, <1>4, SeenByNobody
  <1>6. Atomic!ConfigureSource(s, q)
    BY <1>1, <1>2, <1>5
    DEF ConfigureSource, Atomic!ConfigureSource, Atomic!Fresh, Fresh, SourcesSeen, NoncesSeen,
        After, Atomic!After
  <1>7. Atomic!StateNext
    BY <1>2, <1>6 DEF Atomic!StateNext
  <1> QED
    BY <1>7 DEF StateStep

(* Every other step leaves all that readers see. *)
LEMMA CallUnseen ==
    ASSUME LockedInvariant, NEW t \in Threads, NEW r \in AllRequests, Call(t, r)
    PROVE  StateStep
  <1>1. /\ pc[t] = "idle" /\ pc' = [pc EXCEPT ![t] = "wait"]
        /\ pc \in [Threads -> {"idle", "wait", "authorize", "read", "write", "charge", "reserve",
                               "record", "configure", "snapshot", "copy", "verify", "get", "judge",
                               "release"}]
        /\ UNCHANGED <<sources, nonces, transitions, configured, granted, local>>
    BY DEF Call, Goto, stateVars, LockedInvariant, LockedTypeOK
  <1>2. InFlight' = InFlight
    BY <1>1 DEF InFlight
  <1>3. Seen' = Seen
    BY <1>1, <1>2 DEF Seen
  <1> QED
    BY <1>3 DEF StateStep

LEMMA AcquireUnseen ==
    ASSUME LockedInvariant, LockedInvariant', NEW t \in Threads, Acquire(t)
    PROVE  StateStep
  <1>1. /\ lock = Absent /\ pc[t] = "wait" /\ pc'[t] = request[t].op
        /\ \A u \in Threads \ {t} : pc'[u] = pc[u]
        /\ UNCHANGED stateVars
    BY DEF Acquire, Goto, LockedInvariant, LockedTypeOK
  <1>2. \A u \in Threads : pc[u] \in {"idle", "wait"}
    BY <1>1, ThreadAssumption DEF LockedInvariant, MutualExclusion, Inside
  <1>3. request[t].op \in {"authorize", "configure", "snapshot", "verify", "get"}
    BY <1>1, RequestTypes DEF LockedInvariant, ThreadInvariant, RequestRuns
  <1>4. InFlight = {} /\ InFlight' = {}
    BY <1>1, <1>2, <1>3 DEF InFlight
  <1> QED
    BY <1>1, <1>4, IdleStep

LEMMA ReadingUnseen ==
    ASSUME LockedInvariant, LockedInvariant', NEW t \in Threads,
           \/ Check(t) \/ ReadBefore(t) \/ SnapshotVersion(t) \/ SnapshotQuota(t)
           \/ Find(t) \/ Judge(t) \/ Release(t)
    PROVE  StateStep
  <1>1. /\ pc[t] \in {"authorize", "read", "snapshot", "copy", "verify", "get", "judge", "release"}
        /\ pc'[t] \in {"read", "write", "copy", "judge", "release", "idle"}
        /\ \A u \in Threads \ {t} : pc'[u] = pc[u]
        /\ UNCHANGED stateVars
    BY DEF Check, ReadBefore, SnapshotVersion, SnapshotQuota, Find, Judge, Release, Goto,
           LockedInvariant, LockedTypeOK
  <1>2. InFlight = {} /\ InFlight' = {}
    BY <1>1, FlightAlone DEF Inside
  <1> QED
    BY <1>1, <1>2, IdleStep

LEMMA LockedNextIsStep ==
    LockedInvariant /\ LockedInvariant' /\ [LockedNext]_lockedVars
      => [Atomic!StateNext]_(Atomic!stateVars)
  <1> SUFFICES ASSUME LockedInvariant, LockedInvariant', [LockedNext]_lockedVars
               PROVE  StateStep
    BY StateStepIsStep
  <1>1. CASE UNCHANGED lockedVars
    <2>1. UNCHANGED <<sources, nonces, transitions, configured, granted, local, pc>>
      BY <1>1 DEF lockedVars, stateVars
    <2> QED
      BY <2>1 DEF StateStep, Seen, InFlight
  <1>2. CASE LockedNext
    BY <1>2, CallTypes, CallUnseen, AcquireUnseen, ReadingUnseen, WriteVersionIsGrant, WriteQuotaUnseen,
       WriteNonceUnseen, WriteTransitionUnseen, ConfigureIsConfigure
    DEF LockedNext, Step
  <1> QED
    BY <1>1, <1>2

LEMMA LockedInitIsInit == LockedInit => Atomic!StateInit
  <1> SUFFICES ASSUME LockedInit PROVE Atomic!StateInit
    OBVIOUS
  <1>1. InFlight = {}
    BY DEF LockedInit, InFlight
  <1>2. /\ sources \in [Sources -> SourceStates]
        /\ nonces \in [Nonces -> TransitionIds \cup {Absent}]
    BY LockedInitInvariant DEF LockedInvariant, LockedTypeOK, StateTypeOK
  <1>3. SourcesSeen(InFlight, local, sources) = sources /\ NoncesSeen(InFlight, local, nonces) = nonces
    BY <1>1, <1>2, SeenByNobody
  <1> QED
    BY <1>1, <1>3
    DEF LockedInit, StateInit, Atomic!StateInit, NewSources, Atomic!NewSources, NewConfigured,
        Atomic!NewConfigured, Fresh, Atomic!Fresh, SourcesSeen, NoncesSeen, After, Atomic!After

(* The locked code implements the one-step methods, for any number of      *)
(* threads: a grant takes effect whole at its first write, and no update   *)
(* is lost whoever is suspended wherever (state.py:53-91).                 *)
THEOREM ImplementsProtectedStateCorrect == LockedSpec => ImplementsProtectedState
  <1>1. LockedSpec => Atomic!StateSpec
    BY LockedInitIsInit, LockedNextIsStep, LockedInvariantCorrect, PTL
    DEF LockedSpec, Atomic!StateSpec
  <1> QED
    BY <1>1 DEF ImplementsProtectedState
=============================================================================

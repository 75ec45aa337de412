--------------------------- MODULE SessionsProofs ---------------------------
(***************************************************************************)
(* Proofs about Sessions, for every number of browsers, tabs, replicas and *)
(* sessions and every cache lifetime.  The four properties rest on one     *)
(* inductive invariant; every part of it is kept by a step lemma that goes *)
(* through Next.                                                           *)
(***************************************************************************)
EXTENDS Sessions, FiniteSetTheorems, TLAPS

\* Rows are numbered in the order they were created, a row's family is its own
\* number or an earlier one, and every id a client or a request holds has a row.
Rows ==
    /\ \A s \in Ids : state[s] = "none" <=> s > count
    /\ \A s \in Ids : s <= count => family[s] \in 1..s
    /\ \A t \in Tabs : old[t] \in 0..count
    /\ \A t \in Tabs : pc[t] \in {"revoke", "kill", "mint", "good"} => old[t] # NoId
    /\ \A t \in Tabs : pc[t] = "good" => new[t] \in 1..count
    /\ \A b \in Browsers : cookie[b] \in 0..count

\* A family has one live session, or one refresh about to insert it, or neither.
OneHeir ==
    /\ \A s, r \in Live : family[s] = family[r] => s = r
    /\ \A t, u \in Tabs :
         pc[t] = "mint" /\ pc[u] = "mint" /\ family[old[t]] = family[old[u]] => t = u
    /\ \A s \in Live, t \in Tabs : pc[t] = "mint" => family[s] # family[old[t]]

\* A family that was ended is over, or had a refresh between its writes.
Ends ==
    /\ ended \subseteq 1..count
    /\ \A s \in Live : family[s] \in ended => family[s] \in straggler
    /\ \A t \in Tabs :
         pc[t] = "mint" /\ family[old[t]] \in ended => family[old[t]] \in straggler

\* What the verifiers may still believe of a revoked session.
Beliefs ==
    /\ \A s \in Ids : state[s] # "revoked" => since[s] = 0
    /\ \A p \in Replicas, s \in Ids :
         /\ cache[p][s] > 0 => cache[p][s] + since[s] <= Stale
         /\ \A n \in loading[p][s] : n + since[s] <= LoadTime + 1
         /\ s \in toBust[p] \cup busted[p] => state[s] = "revoked"
         /\ s \in busted[p] /\ (cache[p][s] > 0 \/ loading[p][s] # {}) => s \in overlap[p]

\* A session belongs to the one browser it was given to.
Owners ==
    /\ \A b, c \in Browsers : cookie[b] = cookie[c] /\ cookie[b] # NoId => b = c
    /\ \A b \in Browsers, t \in Tabs :
         old[t] = cookie[b] /\ cookie[b] # NoId => BrowserOf[t] = b
    /\ \A t \in Tabs :
         pc[t] = "good" =>
           /\ \A b \in Browsers : cookie[b] # new[t]
           /\ \A u \in Tabs : old[u] # new[t]
           /\ \A u \in Tabs : pc[u] = "good" /\ new[u] = new[t] => u = t

Doomed(s) == family[s] \in doomed

\* A request that was sent away, or will be, presented a token of a family with a reason
\* to be over; one that goes on holds the family's last session.
Requests ==
    \A t \in Tabs :
      /\ pc[t] = "idle" => old[t] = NoId
      /\ pc[t] = "kill" \/ (pc[t] = "bad" /\ old[t] # NoId) => Doomed(old[t])
      /\ pc[t] = "revoke" => old[t] \in Live \/ Doomed(old[t])
      /\ pc[t] \in {"mint", "good"} => state[old[t]] = "revoked"
      /\ pc[t] = "good" =>
           family[new[t]] = family[old[t]] /\ (new[t] \in Live \/ Doomed(new[t]))

Rivals ==
    \A t, u \in Tabs : old[t] = old[u] /\ old[t] # NoId => t = u \/ Doomed(old[t])

\* A browser's token is good, or a request is exchanging it.
Cookies ==
    \A b \in Browsers :
      cookie[b] # NoId =>
        \/ cookie[b] \in Live \/ Doomed(cookie[b])
        \/ \E t \in Tabs : old[t] = cookie[b]

Lineage ==
    /\ ended \subseteq doomed /\ doomed \subseteq 1..count
    /\ \A s \in 1..count :
         \/ Doomed(s) \/ family[s] \in Minting
         \/ \E r \in Live : family[r] = family[s]

Holders ==
    \A s \in Live :
      \/ Doomed(s)
      \/ \E b \in Browsers : cookie[b] = s
      \/ \E t \in Tabs : pc[t] = "good" /\ new[t] = s

Reasons == Requests /\ Rivals /\ Cookies /\ Lineage /\ Holders

SessionInv == TypeOK /\ Rows /\ OneHeir /\ Ends /\ Beliefs /\ Owners /\ Reasons

-----------------------------------------------------------------------------
(* What the session endpoints have in common                               *)

\* A revocation of the rows of S flips every live session of the families it ends,
\* and no other.
Revocation(p, S, F) ==
    /\ Revoke(p, S, F)
    /\ S \subseteq Ids /\ F \subseteq 1..count
    /\ \A s \in Live : s \in S <=> family[s] \in F
    /\ UNCHANGED <<old, new>>
    /\ pc' \in [Tabs -> PCs]
    /\ \A t \in Tabs : pc'[t] = pc[t] \/ (pc[t] = "idle" /\ pc'[t] = "bad")

EndpointStep ==
    \/ \E t \in Tabs, p \in Replicas :
         \/ Logout(t, p) /\ faults' = faults
         \/ LogoutAll(t, p) \/ RevokeOtherSessions(t, p)
    \/ \E t \in Tabs, p \in Replicas, s \in Ids : RevokeSession(t, p, s)
    \/ \E p \in Replicas : ResetPassword(p)

LEMMA EndpointRevokes ==
    ASSUME TypeOK, Rows, OneHeir, EndpointStep
    PROVE  \E p \in Replicas : \E S, F : Revocation(p, S, F)
<1> USE DEF TypeOK, PCs
<1>0. \A s \in Live : s \in 1..count /\ family[s] \in 1..count
  BY SessionsAssumption DEF Rows, Live, Ids
<1>1. ASSUME NEW t \in Tabs, NEW p \in Replicas, Logout(t, p), faults' = faults
      PROVE  \E S, F : Revocation(p, S, F)
  <2> DEFINE c == cookie[BrowserOf[t]]
  <2>1. c \in 1..count /\ c \in Ids
    BY <1>1, SessionsAssumption DEF Logout, Rows, NoId, Ids
  <2>2. family[c] \in 1..count
    BY <2>1, SMTT(30) DEF Rows, Ids
  <2>3. Revoke(p, InFamily(family[c]), {family[c]}) /\ UNCHANGED <<old, new>>
    BY <1>1 DEF Logout, Fault
  <2>4. /\ pc' \in [Tabs -> PCs]
        /\ \A u \in Tabs : pc'[u] = pc[u] \/ (pc[u] = "idle" /\ pc'[u] = "bad")
    BY <1>1 DEF Logout, Goto
  <2>5. \A s \in Live : s \in InFamily(family[c]) <=> family[s] \in {family[c]}
    BY DEF InFamily, Live
  <2>6. InFamily(family[c]) \subseteq Ids
    BY DEF InFamily
  <2>7. Revocation(p, InFamily(family[c]), {family[c]})
    BY <2>2, <2>3, <2>4, <2>5, <2>6 DEF Revocation
  <2> QED
    BY <2>7
<1>2. ASSUME NEW p \in Replicas, Revoke(p, Ids, {family[s] : s \in 1..count}),
             UNCHANGED <<old, new>>, pc' \in [Tabs -> PCs],
             \A u \in Tabs : pc'[u] = pc[u] \/ (pc[u] = "idle" /\ pc'[u] = "bad")
      PROVE  \E S, F : Revocation(p, S, F)
  <2> DEFINE F == {family[s] : s \in 1..count}
  <2>1. F \subseteq 1..count
    BY SessionsAssumption DEF Rows, Ids
  <2>2. \A s \in Live : s \in Ids /\ family[s] \in F
    BY <1>0 DEF Live
  <2>3. Revocation(p, Ids, F)
    BY <1>2, <2>1, <2>2 DEF Revocation
  <2> QED
    BY <2>3
<1>3. ASSUME NEW t \in Tabs, NEW p \in Replicas, LogoutAll(t, p)
      PROVE  \E S, F : Revocation(p, S, F)
  <2>1. /\ pc' \in [Tabs -> PCs]
        /\ \A u \in Tabs : pc'[u] = pc[u] \/ (pc[u] = "idle" /\ pc'[u] = "bad")
    BY <1>3 DEF LogoutAll, Goto
  <2> QED
    BY <1>2, <1>3, <2>1 DEF LogoutAll
<1>4. ASSUME NEW p \in Replicas, ResetPassword(p)
      PROVE  \E S, F : Revocation(p, S, F)
  BY <1>2, <1>4 DEF ResetPassword, requestVars
<1>5. ASSUME NEW t \in Tabs, NEW p \in Replicas, NEW s \in Ids, RevokeSession(t, p, s)
      PROVE  \E S, F : Revocation(p, S, F)
  <2>1. s \in Live
    BY <1>5 DEF RevokeSession, Live
  <2>2. \A r \in Live : r \in {s} <=> family[r] \in {family[s]}
    BY <2>1 DEF OneHeir
  <2>3. Revocation(p, {s}, {family[s]})
    BY <1>0, <1>5, <2>1, <2>2 DEF Revocation, RevokeSession, requestVars
  <2> QED
    BY <2>3
<1>6. ASSUME NEW t \in Tabs, NEW p \in Replicas, RevokeOtherSessions(t, p)
      PROVE  \E S, F : Revocation(p, S, F)
  <2> DEFINE S == Ids \ {access[t]}
             F == {family[s] : s \in S \cap Live}
  <2>1. Revoke(p, S, F) /\ UNCHANGED <<pc, old, new>>
    BY <1>6 DEF RevokeOtherSessions, requestVars
  <2>2. F \subseteq 1..count
    BY <1>0
  <2>3. \A r \in Live : r \in S <=> family[r] \in F
    BY DEF OneHeir, Live
  <2>4. Revocation(p, S, F)
    BY <2>1, <2>2, <2>3 DEF Revocation
  <2> QED
    BY <2>4
<1> QED
  BY <1>1, <1>3, <1>4, <1>5, <1>6 DEF EndpointStep

\* A request that fails or vanishes changes nothing but where it stands.
Failure ==
    \/ \E t \in Tabs : RefreshFails(t) \/ Vanish(t)
    \/ \E t \in Tabs, p \in Replicas : Logout(t, p) /\ faults' # faults

\* A step of the verifiers or of the clock.
VerifierStep ==
    \/ \E p \in Replicas : Bust(p)
    \/ \E p \in Replicas, s \in Ids : LoadRead(p, s) \/ LoadPut(p, s)
    \/ \E s \in Ids : Expire(s)
    \/ Tick

LEMMA FailureIs ==
    ASSUME TypeOK, Rows, Failure
    PROVE  /\ UNCHANGED <<sessionVars, cookie, access, cacheVars, since, ended, straggler,
                          busted, overlap, churn, loads>>
           /\ faults > 0 /\ faults' = faults - 1
           /\ doomed \subseteq doomed' /\ doomed' \subseteq doomed \cup 1..count
           /\ pc' \in [Tabs -> PCs]
           /\ \A t \in Tabs : pc'[t] \in {pc[t], "bad", "idle"}
           /\ old' \in [Tabs -> Ids \cup {NoId}] /\ new' \in [Tabs -> Ids \cup {NoId}]
           /\ \A t \in Tabs : old'[t] \in {old[t], NoId}
           /\ \A t \in Tabs : pc'[t] # "idle" => old'[t] = old[t] /\ new'[t] = new[t]
<1>0. \A t \in Tabs : old[t] # NoId => family[old[t]] \in 1..count
  BY SessionsAssumption DEF Rows, TypeOK, NoId
<1>1. ASSUME NEW t \in Tabs, RefreshFails(t)
      PROVE  /\ UNCHANGED <<sessionVars, cookie, access, cacheVars, since, ended, straggler,
                            busted, overlap, churn, loads, old, new>>
             /\ faults > 0 /\ faults' = faults - 1
             /\ pc' = [pc EXCEPT ![t] = "bad"]
             /\ doomed' = doomed \cup {family[old[t]]} /\ old[t] # NoId
  BY <1>1 DEF RefreshFails, Fault, Goto, Doom, Rows
<1>2. ASSUME NEW t \in Tabs, Vanish(t)
      PROVE  /\ UNCHANGED <<sessionVars, cookie, access, cacheVars, since, ended, straggler,
                            busted, overlap, churn, loads>>
             /\ faults > 0 /\ faults' = faults - 1
             /\ pc' = [pc EXCEPT ![t] = "idle"]
             /\ old' = [old EXCEPT ![t] = NoId] /\ new' = [new EXCEPT ![t] = NoId]
             /\ doomed' = doomed
                  \/ (doomed' = doomed \cup {family[old[t]]} /\ old[t] # NoId)
  BY <1>2 DEF Vanish, Fault, Goto, Doom
<1>3. ASSUME NEW t \in Tabs, NEW p \in Replicas, Logout(t, p), faults' # faults
      PROVE  /\ UNCHANGED <<sessionVars, cookie, access, cacheVars, historyVars, churn, loads,
                            old, new>>
             /\ faults > 0 /\ faults' = faults - 1
             /\ pc' = [pc EXCEPT ![t] = "bad"]
  BY <1>3 DEF Logout, Revoke, Fault, Goto
<1>4. CASE \E t \in Tabs : RefreshFails(t)
  <2>1. PICK t \in Tabs : RefreshFails(t)
    BY <1>4
  <2>0. pc \in [Tabs -> PCs] /\ "bad" \in PCs
    BY DEF TypeOK, PCs
  <2>2. pc' \in [Tabs -> PCs] /\ \A u \in Tabs : pc'[u] \in {pc[u], "bad"}
    BY <1>1, <2>0, <2>1
  <2>3. doomed \subseteq doomed' /\ doomed' \subseteq doomed \cup 1..count
    BY <1>0, <1>1, <2>1
  <2>4. old \in [Tabs -> Ids \cup {NoId}] /\ new \in [Tabs -> Ids \cup {NoId}]
    BY DEF TypeOK
  <2>5. old' = old /\ new' = new
    BY <1>1, <2>1
  <2>6. /\ old' \in [Tabs -> Ids \cup {NoId}] /\ new' \in [Tabs -> Ids \cup {NoId}]
        /\ \A u \in Tabs : old'[u] \in {old[u], NoId}
        /\ \A u \in Tabs : pc'[u] # "idle" => old'[u] = old[u] /\ new'[u] = new[u]
    BY <2>4, <2>5
  <2>7. \A u \in Tabs : pc'[u] \in {pc[u], "bad", "idle"}
    BY <2>2
  <2>8. /\ UNCHANGED <<sessionVars, cookie, access, cacheVars, since, ended, straggler,
                       busted, overlap, churn, loads>>
        /\ faults > 0 /\ faults' = faults - 1
    BY <1>1, <2>1
  <2> QED
    BY <2>2, <2>3, <2>6, <2>7, <2>8
<1>5. CASE \E t \in Tabs : Vanish(t)
  <2>1. PICK t \in Tabs : Vanish(t)
    BY <1>5
  <2>0. /\ pc \in [Tabs -> PCs] /\ "idle" \in PCs
        /\ old \in [Tabs -> Ids \cup {NoId}] /\ new \in [Tabs -> Ids \cup {NoId}]
    BY DEF TypeOK, PCs
  <2>2. /\ pc' \in [Tabs -> PCs]
        /\ \A u \in Tabs : pc'[u] = IF u = t THEN "idle" ELSE pc[u]
    BY <1>2, <2>0, <2>1
  <2>3. doomed \subseteq doomed' /\ doomed' \subseteq doomed \cup 1..count
    BY <1>0, <1>2, <2>1
  <2>4. /\ old' \in [Tabs -> Ids \cup {NoId}] /\ new' \in [Tabs -> Ids \cup {NoId}]
        /\ \A u \in Tabs : old'[u] = IF u = t THEN NoId ELSE old[u]
        /\ \A u \in Tabs : new'[u] = IF u = t THEN NoId ELSE new[u]
    BY <1>2, <2>0, <2>1
  <2>5. \A u \in Tabs : pc'[u] \in {pc[u], "bad", "idle"}
    BY <2>2
  <2>6. \A u \in Tabs : old'[u] \in {old[u], NoId}
    BY <2>4
  <2>7. \A u \in Tabs : pc'[u] # "idle" => old'[u] = old[u] /\ new'[u] = new[u]
    BY <2>2, <2>4
  <2>8. /\ UNCHANGED <<sessionVars, cookie, access, cacheVars, since, ended, straggler,
                       busted, overlap, churn, loads>>
        /\ faults > 0 /\ faults' = faults - 1
    BY <1>2, <2>1
  <2> QED
    BY <2>2, <2>3, <2>4, <2>5, <2>6, <2>7, <2>8
<1>6. CASE \E t \in Tabs, p \in Replicas : Logout(t, p) /\ faults' # faults
  BY <1>3, <1>6 DEF historyVars, TypeOK, PCs
<1> QED
  BY <1>4, <1>5, <1>6 DEF Failure

LEMMA VerifierIs ==
    ASSUME TypeOK, VerifierStep
    PROVE  /\ UNCHANGED <<count, state, family, cookie, access, requestVars, ended,
                          straggler, doomed, faults>>
           /\ expired \subseteq expired' /\ expired' \subseteq Ids
BY DEF VerifierStep, Bust, LoadRead, LoadPut, Expire, Tick, Churn, sessionVars, historyVars,
   budgetVars, TypeOK

LEMMA NextIs ==
    ASSUME Next
    PROVE  \/ EndpointStep \/ Failure \/ VerifierStep
           \/ \E t \in Tabs : \/ Login(t) \/ RefreshRead(t) \/ RefreshRevoke(t)
                              \/ RefreshKill(t) \/ RefreshMint(t) \/ Reply(t)
BY DEF Next, Refresh, EndpointStep, Failure, VerifierStep

-----------------------------------------------------------------------------
(* Types                                                                   *)

LEMMA EndpointType ==
    ASSUME TypeOK, NEW p \in Replicas, NEW S, NEW F, Revocation(p, S, F) PROVE TypeOK'
<1>1. /\ UNCHANGED <<count, family, expired, cookie, access, cache, loading, since, busted,
                     overlap, faults, loads, old, new>>
      /\ pc' \in [Tabs -> PCs] /\ churn' = churn - 1 /\ churn > 0
  BY DEF Revocation, Revoke, Churn
<1>2. F \subseteq Family
  BY SessionsAssumption DEF Revocation, Family, Ids, TypeOK
<1>3. ended' \subseteq Family /\ straggler' \subseteq Family /\ doomed' \subseteq Family
  BY <1>2 DEF Revocation, Revoke, End, Doom, TypeOK
<1>4. state' \in [Ids -> {"none", "live", "revoked"}]
  BY DEF Revocation, Revoke, Flip, TypeOK
<1>5. toBust' \in [Replicas -> SUBSET Ids]
  BY DEF Revocation, Revoke, Live, TypeOK
<1>6. churn' \in 0..MaxChurn
  BY <1>1, SessionsAssumption DEF TypeOK
<1> QED
  BY <1>1, <1>3, <1>4, <1>5, <1>6 DEF TypeOK

LEMMA CreateSessionType ==
    ASSUME TypeOK, NEW f \in Family \cup {NoId}, CreateSession(f)
    PROVE  /\ count' = count + 1 /\ count + 1 \in Ids /\ count' \in 0..MaxSessions
           /\ state' = [state EXCEPT ![count + 1] = "live"]
           /\ family' = [family EXCEPT ![count + 1] = IF f = NoId THEN count + 1 ELSE f]
           /\ state' \in [Ids -> {"none", "live", "revoked"}]
           /\ family' \in [Ids -> Family \cup {NoId}]
<1>1. count \in 0..MaxSessions /\ count < MaxSessions /\ count' = count + 1
  BY DEF CreateSession, TypeOK
<1>2. count + 1 \in Ids /\ count' \in 0..MaxSessions
  BY <1>1, SessionsAssumption DEF Ids
<1>3. (IF f = NoId THEN count + 1 ELSE f) \in Family \cup {NoId}
  BY <1>2 DEF Family
<1> QED
  BY <1>1, <1>2, <1>3 DEF CreateSession, TypeOK

LEMMA RefreshType ==
    ASSUME TypeOK, Rows, NEW t \in Tabs,
           Login(t) \/ RefreshRead(t) \/ RefreshRevoke(t) \/ RefreshKill(t)
             \/ RefreshMint(t) \/ Reply(t)
    PROVE  TypeOK'
<1>1. CASE Login(t)
  <2>1. /\ CreateSession(NoId)
        /\ UNCHANGED <<expired, requestVars, cacheVars, since, ended, straggler, busted, overlap,
                       churn>>
    BY <1>1 DEF Login
  <2>2. BrowserOf[t] \in Browsers
    BY SessionsAssumption
  <2>3. cookie' \in [Browsers -> Ids \cup {NoId}] /\ access' \in [Tabs -> Ids \cup {NoId}]
    <3>1. count + 1 \in Ids
      BY <2>1, CreateSessionType
    <3>2. \/ /\ cookie' = [cookie EXCEPT ![BrowserOf[t]] = count + 1]
             /\ access' = [access EXCEPT ![t] = count + 1]
          \/ UNCHANGED <<cookie, access>>
      BY <1>1 DEF Login
    <3>3. cookie \in [Browsers -> Ids \cup {NoId}] /\ access \in [Tabs -> Ids \cup {NoId}]
      BY DEF TypeOK
    <3> QED
      BY <2>2, <3>1, <3>2, <3>3
  <2>4. faults' \in 0..MaxFaults /\ loads' = loads
    BY <1>1, SessionsAssumption DEF Login, Fault, TypeOK
  <2>5. doomed' \subseteq Family
    <3>1. count + 1 \in Family
      BY <2>1, CreateSessionType DEF Family
    <3>2. cookie[BrowserOf[t]] # NoId => family[cookie[BrowserOf[t]]] \in Family
      BY <2>2, SessionsAssumption DEF Rows, TypeOK, Family, Ids, NoId
    <3> QED
      BY <1>1, <3>1, <3>2 DEF Login, Doom, TypeOK
  <2> QED
    BY <2>1, <2>3, <2>4, <2>5, CreateSessionType DEF requestVars, cacheVars, TypeOK
<1>2. CASE RefreshRead(t)
  <2>1. BrowserOf[t] \in Browsers
    BY SessionsAssumption
  <2>2. doomed' \subseteq Family
    <3>1. family[cookie[BrowserOf[t]]] \in Family
      BY <1>2, <2>1, SessionsAssumption DEF RefreshRead, Rows, TypeOK, Family, Ids, NoId
    <3> QED
      BY <1>2, <3>1 DEF RefreshRead, Doom, TypeOK
  <2>3. pc' \in [Tabs -> PCs] /\ old' \in [Tabs -> Ids \cup {NoId}]
    BY <1>2, <2>1 DEF RefreshRead, Goto, PCs, TypeOK
  <2> QED
    BY <1>2, <2>2, <2>3 DEF RefreshRead, sessionVars, cacheVars, budgetVars, TypeOK
<1>3. CASE RefreshRevoke(t)
  BY <1>3 DEF RefreshRevoke, Flip, Goto, cacheVars, historyVars, budgetVars, PCs, TypeOK
<1>4. CASE RefreshKill(t)
  <2>1. old[t] \in Ids /\ family[old[t]] \in Family
    BY <1>4, SessionsAssumption DEF RefreshKill, Rows, TypeOK, NoId, Family, Ids
  <2> QED
    <3>1. /\ UNCHANGED <<count, family, expired, cookie, access, old, new, cacheVars,
                         since, doomed, busted, overlap, churn, loads>>
          /\ pc' \in [Tabs -> PCs]
      BY <1>4 DEF RefreshKill, Fault, Goto, PCs, TypeOK
    <3>2. faults' \in 0..MaxFaults
      BY <1>4, SessionsAssumption DEF RefreshKill, Fault, TypeOK
    <3>3. state' \in [Ids -> {"none", "live", "revoked"}]
      BY <1>4 DEF RefreshKill, Flip, TypeOK
    <3>4. ended' \subseteq Family /\ straggler' \subseteq Family
      BY <1>4, <2>1 DEF RefreshKill, End, TypeOK
    <3> QED
      BY <3>1, <3>2, <3>3, <3>4 DEF cacheVars, TypeOK
<1>5. CASE RefreshMint(t)
  <2>1. old[t] \in Ids /\ family[old[t]] \in Family /\ family[old[t]] # NoId
    BY <1>5, SessionsAssumption DEF RefreshMint, Rows, TypeOK, NoId, Family, Ids
  <2> QED
    <3>1. CreateSession(family[old[t]]) /\ UNCHANGED <<expired, cookie, access, old, cacheVars,
                                                       historyVars, budgetVars>>
      BY <1>5 DEF RefreshMint
    <3>2. pc' \in [Tabs -> PCs] /\ new' \in [Tabs -> Ids \cup {NoId}]
      BY <1>5, <2>1, <3>1, CreateSessionType DEF RefreshMint, Goto, PCs, TypeOK
    <3> QED
      BY <2>1, <3>1, <3>2, CreateSessionType DEF cacheVars, historyVars, budgetVars, TypeOK
<1>6. CASE Reply(t)
  <2>1. BrowserOf[t] \in Browsers
    BY SessionsAssumption
  <2>2. doomed' \subseteq Family
    <3>1. cookie[BrowserOf[t]] # NoId => family[cookie[BrowserOf[t]]] \in Family
      BY <2>1, SessionsAssumption DEF Rows, TypeOK, Family, Ids, NoId
    <3> QED
      BY <1>6, <3>1 DEF Reply, Doom, TypeOK
  <2>3. /\ cookie' \in [Browsers -> Ids \cup {NoId}]
        /\ access' \in [Tabs -> Ids \cup {NoId}]
        /\ pc' \in [Tabs -> PCs]
        /\ old' \in [Tabs -> Ids \cup {NoId}] /\ new' \in [Tabs -> Ids \cup {NoId}]
    BY <1>6, <2>1 DEF Reply, Goto, PCs, TypeOK
  <2> QED
    BY <1>6, <2>2, <2>3 DEF Reply, sessionVars, cacheVars, budgetVars, TypeOK
<1> QED
  BY <1>1, <1>2, <1>3, <1>4, <1>5, <1>6

LEMMA TickSince ==
    ASSUME TypeOK, Beliefs, Tick, NEW s \in Ids PROVE since'[s] \in 0..(Stale + 1)
<1>1. since[s] \in 0..(Stale + 1)
  BY DEF TypeOK
<1>2. CASE state[s] = "revoked" /\ Held(s)
  <2>1. PICK p \in Replicas : cache[p][s] > 0 \/ loading[p][s] # {}
    BY <1>2 DEF Held
  <2>2. cache[p][s] \in 0..CacheTTL /\ loading[p][s] \subseteq 1..(LoadTime + 1)
    BY DEF TypeOK
  <2>3. since[s] + 1 <= Stale + 1
    <3>1. CASE cache[p][s] > 0
      BY <1>1, <2>2, <3>1, SessionsAssumption DEF Beliefs, Stale
    <3>2. CASE loading[p][s] # {}
      <4>1. PICK n \in loading[p][s] : TRUE
        BY <3>2
      <4>2. n >= 1 /\ n + since[s] <= LoadTime + 1 /\ n \in Nat
        BY <2>2, <4>1, SessionsAssumption DEF Beliefs
      <4> QED
        BY <1>1, <4>2, SessionsAssumption DEF Stale
    <3> QED
      BY <2>1, <3>1, <3>2
  <2> QED
    BY <1>1, <1>2, <2>3, SessionsAssumption DEF Tick, Stale
<1>3. CASE ~(state[s] = "revoked" /\ Held(s))
  BY <1>3, SessionsAssumption DEF Tick, Stale
<1> QED
  BY <1>2, <1>3

LEMMA VerifierType == ASSUME TypeOK, Beliefs, VerifierStep PROVE TypeOK'
<1> USE SessionsAssumption
<1>1. ASSUME NEW p \in Replicas, Bust(p) PROVE TypeOK'
  <2>1. cache' \in [Replicas -> [Ids -> 0..CacheTTL]]
    BY <1>1 DEF Bust, TypeOK
  <2> QED
    BY <1>1, <2>1 DEF Bust, sessionVars, requestVars, budgetVars, TypeOK
<1>2. ASSUME NEW p \in Replicas, NEW s \in Ids, LoadRead(p, s) PROVE TypeOK'
  BY <1>2 DEF LoadRead, sessionVars, requestVars, historyVars, TypeOK
<1>3. ASSUME NEW p \in Replicas, NEW s \in Ids, LoadPut(p, s) PROVE TypeOK'
  BY <1>3 DEF LoadPut, sessionVars, requestVars, historyVars, budgetVars, TypeOK
<1>4. ASSUME NEW s \in Ids, Expire(s) PROVE TypeOK'
  BY <1>4 DEF Expire, Churn, requestVars, cacheVars, historyVars, TypeOK
<1>5. ASSUME Tick PROVE TypeOK'
  <2>1. /\ cache' \in [Replicas -> [Ids -> 0..CacheTTL]]
        /\ loading' \in [Replicas -> [Ids -> SUBSET (1..(LoadTime + 1))]]
    <3>1. ASSUME NEW p \in Replicas, NEW s \in Ids
          PROVE  {n - 1 : n \in loading[p][s]} \subseteq 1..(LoadTime + 1)
      <4>1. \A n \in loading[p][s] : n \in 1..(LoadTime + 1) /\ n # 1
        BY <1>5 DEF Tick, TypeOK
      <4> QED
        BY <4>1
    <3> QED
      BY <1>5, <3>1 DEF Tick, Countdown, TypeOK
  <2>2. since' \in [Ids -> 0..(Stale + 1)]
    <3>1. \A s \in Ids : since'[s] \in 0..(Stale + 1)
      BY <1>5, TickSince
    <3> QED
      BY <1>5, <3>1 DEF Tick
  <2> QED
    BY <1>5, <2>1, <2>2 DEF Tick, sessionVars, requestVars, budgetVars, TypeOK
<1> QED
  BY <1>1, <1>2, <1>3, <1>4, <1>5 DEF VerifierStep

LEMMA TypeStep == TypeOK /\ Rows /\ OneHeir /\ Beliefs /\ [Next]_vars => TypeOK'
<1> SUFFICES ASSUME TypeOK, Rows, OneHeir, Beliefs, [Next]_vars PROVE TypeOK'
  OBVIOUS
<1>1. CASE UNCHANGED vars
  BY <1>1 DEF vars, sessionVars, requestVars, cacheVars, historyVars, budgetVars, TypeOK
<1>2. CASE EndpointStep
  BY <1>2, EndpointRevokes, EndpointType
<1>3. CASE Failure
  <2>1. doomed' \subseteq Family
    <3>1. 1..count \subseteq Family /\ doomed \subseteq Family
      BY SessionsAssumption DEF Family, Ids, TypeOK
    <3> QED
      BY <1>3, <3>1, FailureIs
  <2> QED
    BY <1>3, <2>1, FailureIs, SessionsAssumption DEF sessionVars, cacheVars, TypeOK
<1> QED
  BY <1>1, <1>2, <1>3, VerifierType, RefreshType, NextIs

-----------------------------------------------------------------------------
(* Rows and heirs                                                          *)

RowsUndisturbed ==
    /\ UNCHANGED <<count, family>>
    /\ \A s \in Ids : state'[s] = "none" <=> state[s] = "none"
    /\ \A b \in Browsers : cookie'[b] \in {cookie[b], NoId}
    /\ \A t \in Tabs : old'[t] \in {old[t], NoId}
    /\ \A t \in Tabs :
         pc'[t] \in {"revoke", "kill", "mint", "good"} =>
           pc[t] \in {"revoke", "kill", "mint", "good"} /\ old'[t] = old[t]
    /\ \A t \in Tabs : pc'[t] = "good" => pc[t] = "good" /\ new'[t] = new[t]

LEMMA RowsFrame == ASSUME TypeOK, Rows, RowsUndisturbed PROVE Rows'
<1>1. count \in Nat /\ count' = count /\ family' = family
  BY SessionsAssumption DEF RowsUndisturbed, TypeOK
<1>2. \A s \in Ids : (state'[s] = "none" <=> s > count') /\ (s <= count' => family'[s] \in 1..s)
  BY <1>1 DEF Rows, RowsUndisturbed
<1>3. \A t \in Tabs : /\ old'[t] \in 0..count'
                      /\ pc'[t] \in {"revoke", "kill", "mint", "good"} => old'[t] # NoId
                      /\ pc'[t] = "good" => new'[t] \in 1..count'
  BY <1>1 DEF Rows, RowsUndisturbed, NoId
<1>4. \A b \in Browsers : cookie'[b] \in 0..count'
  BY <1>1 DEF Rows, RowsUndisturbed, NoId
<1> QED
  BY <1>2, <1>3, <1>4 DEF Rows

LEMMA RowsStep == TypeOK /\ Rows /\ OneHeir /\ [Next]_vars => Rows'
<1> SUFFICES ASSUME TypeOK, Rows, OneHeir, [Next]_vars PROVE Rows'
  OBVIOUS
<1> USE SessionsAssumption
<1>1. CASE UNCHANGED vars
  BY <1>1, RowsFrame DEF vars, sessionVars, requestVars, RowsUndisturbed
<1>2. CASE EndpointStep
  <2>1. PICK p, S, F : p \in Replicas /\ Revocation(p, S, F)
    BY <1>2, EndpointRevokes
  <2> QED
    BY <2>1, RowsFrame DEF Revocation, Revoke, Flip, RowsUndisturbed
<1>3. CASE Failure
  BY <1>3, FailureIs, RowsFrame DEF sessionVars, RowsUndisturbed
<1>4. CASE VerifierStep
  BY <1>4, VerifierIs, RowsFrame DEF requestVars, RowsUndisturbed
<1>5. ASSUME NEW t \in Tabs, Login(t) PROVE Rows'
  <2>1. /\ count' = count + 1 /\ UNCHANGED <<pc, old, new>>
        /\ state' = [state EXCEPT ![count + 1] = "live"]
        /\ family' = [family EXCEPT ![count + 1] = count + 1]
        /\ count + 1 \in Ids
    BY <1>5 DEF Login, CreateSession, requestVars, Ids, TypeOK
  <2>2. \A b \in Browsers : cookie'[b] \in {cookie[b], count + 1}
    BY <1>5 DEF Login, TypeOK
  <2>3. count \in Nat
    BY DEF TypeOK
  <2>4. \A b \in Browsers : cookie'[b] \in 0..count'
    BY <2>1, <2>2, <2>3 DEF Rows
  <2>5. \A s \in Ids : (state'[s] = "none" <=> s > count') /\ (s <= count' => family'[s] \in 1..s)
    BY <2>1, <2>3 DEF Rows, Ids, TypeOK
  <2>6. \A u \in Tabs : /\ old'[u] \in 0..count'
                        /\ pc'[u] \in {"revoke", "kill", "mint", "good"} => old'[u] # NoId
                        /\ pc'[u] = "good" => new'[u] \in 1..count'
    BY <2>1, <2>3 DEF Rows
  <2> QED
    BY <2>4, <2>5, <2>6 DEF Rows
<1>6. ASSUME NEW t \in Tabs, RefreshRead(t) PROVE Rows'
  BY <1>6 DEF RefreshRead, Goto, sessionVars, Rows, TypeOK, NoId
<1>7. ASSUME NEW t \in Tabs, RefreshRevoke(t) PROVE Rows'
  BY <1>7, RowsFrame DEF RefreshRevoke, Flip, Goto, RowsUndisturbed, TypeOK
<1>8. ASSUME NEW t \in Tabs, RefreshKill(t) PROVE Rows'
  BY <1>8, RowsFrame DEF RefreshKill, Flip, Goto, RowsUndisturbed, TypeOK
<1>9. ASSUME NEW t \in Tabs, RefreshMint(t) PROVE Rows'
  <2>1. old[t] \in 1..count /\ family[old[t]] \in 1..count
    BY <1>9 DEF RefreshMint, Rows, Ids, NoId, TypeOK
  <2>2. family[old[t]] \in Family \cup {NoId} /\ family[old[t]] # NoId /\ CreateSession(family[old[t]])
    BY <1>9, <2>1 DEF RefreshMint, Family, Ids, NoId, TypeOK
  <2>3. /\ count' = count + 1 /\ count + 1 \in Ids
        /\ state' = [state EXCEPT ![count + 1] = "live"]
        /\ family' = [family EXCEPT ![count + 1] = family[old[t]]]
    BY <2>2, CreateSessionType
  <2>4. /\ UNCHANGED <<cookie, old>>
        /\ new' = [new EXCEPT ![t] = count + 1]
        /\ pc' = [pc EXCEPT ![t] = "good"]
    BY <1>9 DEF RefreshMint, Goto
  <2>5. count \in Nat
    BY DEF TypeOK
  <2>6. \A b \in Browsers : cookie'[b] \in 0..count'
    BY <2>3, <2>4, <2>5 DEF Rows
  <2>7. \A s \in Ids : (state'[s] = "none" <=> s > count') /\ (s <= count' => family'[s] \in 1..s)
    BY <2>1, <2>3, <2>5, SMTT(30) DEF Rows, Ids, TypeOK
  <2>8. \A u \in Tabs : /\ old'[u] \in 0..count'
                        /\ pc'[u] \in {"revoke", "kill", "mint", "good"} => old'[u] # NoId
                        /\ pc'[u] = "good" => new'[u] \in 1..count'
    BY <2>1, <2>3, <2>4, <2>5 DEF Rows, NoId, TypeOK
  <2> QED
    BY <2>6, <2>7, <2>8 DEF Rows
<1>10. ASSUME NEW t \in Tabs, Reply(t) PROVE Rows'
  BY <1>10 DEF Reply, Goto, sessionVars, Rows, TypeOK, NoId
<1> QED
  BY <1>1, <1>2, <1>3, <1>4, <1>5, <1>6, <1>7, <1>8, <1>9, <1>10, NextIs

HeirsUndisturbed ==
    /\ UNCHANGED <<count, family>>
    /\ \A s \in Ids : state'[s] = "live" => state[s] = "live"
    /\ \A t \in Tabs : pc'[t] = "mint" => pc[t] = "mint" /\ old'[t] = old[t]

LEMMA HeirsFrame == ASSUME TypeOK, OneHeir, HeirsUndisturbed PROVE OneHeir'
BY DEF OneHeir, HeirsUndisturbed, Live

\* A revocation, a failure, a step of a verifier, a read, a reply: none of them makes
\* a session live or a refresh mint.
LEMMA QuietHeirs ==
    ASSUME TypeOK, Rows, OneHeir,
           \/ EndpointStep \/ Failure \/ VerifierStep \/ UNCHANGED vars
           \/ \E t \in Tabs : RefreshRead(t) \/ RefreshKill(t) \/ Reply(t)
    PROVE  HeirsUndisturbed
<1>1. CASE EndpointStep
  <2>1. PICK p, S, F : p \in Replicas /\ Revocation(p, S, F)
    BY <1>1, EndpointRevokes
  <2> QED
    BY <2>1 DEF Revocation, Revoke, Flip, HeirsUndisturbed
<1>2. CASE Failure
  BY <1>2, FailureIs DEF sessionVars, HeirsUndisturbed
<1>3. CASE VerifierStep
  BY <1>3, VerifierIs DEF requestVars, HeirsUndisturbed
<1>4. CASE UNCHANGED vars
  BY <1>4 DEF vars, sessionVars, requestVars, HeirsUndisturbed
<1>5. ASSUME NEW t \in Tabs, RefreshRead(t) PROVE HeirsUndisturbed
  BY <1>5 DEF RefreshRead, Goto, sessionVars, HeirsUndisturbed, TypeOK
<1>6. ASSUME NEW t \in Tabs, RefreshKill(t) PROVE HeirsUndisturbed
  BY <1>6 DEF RefreshKill, Flip, Goto, HeirsUndisturbed, TypeOK
<1>7. ASSUME NEW t \in Tabs, Reply(t) PROVE HeirsUndisturbed
  BY <1>7 DEF Reply, Goto, sessionVars, HeirsUndisturbed, TypeOK
<1> QED
  BY <1>1, <1>2, <1>3, <1>4, <1>5, <1>6, <1>7

\* What the three steps that do so come to.
LEMMA LoginIs ==
    ASSUME TypeOK, Rows, NEW t \in Tabs, Login(t)
    PROVE  /\ count + 1 \in Ids /\ count' = count + 1
           /\ state' = [state EXCEPT ![count + 1] = "live"]
           /\ family' = [family EXCEPT ![count + 1] = count + 1]
           /\ UNCHANGED <<pc, old, new, ended, straggler>>
           /\ \A r \in Live : r \in 1..count /\ family[r] \in 1..count /\ family'[r] = family[r]
           /\ \A u \in Tabs : pc[u] = "mint" =>
                old[u] \in 1..count /\ family[old[u]] \in 1..count
                  /\ family'[old[u]] = family[old[u]]
<1>1. /\ count < MaxSessions /\ count' = count + 1
      /\ state' = [state EXCEPT ![count + 1] = "live"]
      /\ family' = [family EXCEPT ![count + 1] = count + 1]
      /\ UNCHANGED <<pc, old, new, ended, straggler>>
  BY DEF Login, CreateSession, requestVars
<1>2. count \in Nat /\ MaxSessions \in Nat /\ count + 1 \in Ids
  BY <1>1, SessionsAssumption DEF TypeOK, Ids
<1>3. \A r \in 1..count : r \in Ids /\ r # count + 1 /\ family[r] \in 1..count
  BY <1>1, <1>2 DEF Rows, Ids
<1>4. \A r \in 1..count : family'[r] = family[r]
  BY <1>1, <1>3 DEF TypeOK
<1>5. \A r \in Live : r \in 1..count
  BY <1>2 DEF Live, Rows, Ids
<1>6. \A u \in Tabs : pc[u] = "mint" => old[u] \in 1..count
  BY <1>2 DEF Rows, NoId
<1> QED
  BY <1>1, <1>2, <1>3, <1>4, <1>5, <1>6

LEMMA RefreshRevokeIs ==
    ASSUME TypeOK, Rows, NEW t \in Tabs, RefreshRevoke(t)
    PROVE  /\ old[t] \in 1..count /\ old[t] \in Ids
           /\ UNCHANGED <<count, family, old, new, cookie, ended, straggler, expired>>
           /\ state' = [s \in Ids |-> IF s = old[t] /\ state[s] = "live" THEN "revoked" ELSE state[s]]
           /\ pc' = [pc EXCEPT ![t] = IF state[old[t]] = "live" THEN "mint" ELSE "kill"]
BY SessionsAssumption DEF RefreshRevoke, Flip, Goto, historyVars, Rows, Ids, NoId, TypeOK

LEMMA RefreshMintIs ==
    ASSUME TypeOK, Rows, NEW t \in Tabs, RefreshMint(t)
    PROVE  /\ count + 1 \in Ids /\ count' = count + 1
           /\ old[t] \in 1..count /\ family[old[t]] \in 1..count
           /\ state' = [state EXCEPT ![count + 1] = "live"]
           /\ family' = [family EXCEPT ![count + 1] = family[old[t]]]
           /\ UNCHANGED <<old, cookie, ended, straggler>>
           /\ pc[t] = "mint" /\ pc' = [pc EXCEPT ![t] = "good"]
           /\ new' = [new EXCEPT ![t] = count + 1]
           /\ \A r \in Live : r \in 1..count /\ family'[r] = family[r]
           /\ \A u \in Tabs : pc[u] = "mint" =>
                old[u] \in 1..count /\ family'[old[u]] = family[old[u]]
<1>1. old[t] \in 1..count /\ family[old[t]] \in 1..count /\ pc[t] = "mint"
  BY SessionsAssumption DEF RefreshMint, Rows, Ids, NoId, TypeOK
<1>2. /\ count + 1 \in Ids /\ count' = count + 1
      /\ state' = [state EXCEPT ![count + 1] = "live"]
      /\ family' = [family EXCEPT ![count + 1] = family[old[t]]]
      /\ UNCHANGED <<old, cookie, ended, straggler>>
      /\ pc' = [pc EXCEPT ![t] = "good"]
      /\ new' = [new EXCEPT ![t] = count + 1]
  <2>1. family[old[t]] \in Family \cup {NoId} /\ family[old[t]] # NoId /\ CreateSession(family[old[t]])
    BY <1>1, SessionsAssumption DEF RefreshMint, Family, Ids, NoId, TypeOK
  <2> QED
    BY <2>1, CreateSessionType DEF RefreshMint, Goto, historyVars
<1>3. \A r \in Live : r \in 1..count /\ family'[r] = family[r]
  BY <1>2 DEF Rows, Live, Ids, TypeOK
<1>4. \A u \in Tabs : pc[u] = "mint" => old[u] \in 1..count /\ family'[old[u]] = family[old[u]]
  BY <1>2, SessionsAssumption DEF Rows, Ids, NoId, TypeOK
<1> QED
  BY <1>1, <1>2, <1>3, <1>4

LEMMA OneHeirStep == TypeOK /\ Rows /\ OneHeir /\ [Next]_vars => OneHeir'
<1> SUFFICES ASSUME TypeOK, Rows, OneHeir, [Next]_vars PROVE OneHeir'
  OBVIOUS
<1>1. ASSUME NEW t \in Tabs, Login(t) PROVE OneHeir'
  <2>1. \A s \in Live' : s \in Live \/ s = count + 1
    BY <1>1, LoginIs DEF Live, TypeOK
  <2>2. count \in Nat /\ family'[count + 1] = count + 1
    BY <1>1, LoginIs DEF TypeOK
  <2> QED
    BY <1>1, <2>1, <2>2, LoginIs DEF OneHeir
<1>2. ASSUME NEW t \in Tabs, RefreshRevoke(t) PROVE OneHeir'
  <2>1. \A s \in Live' : s \in Live /\ s # old[t]
    BY <1>2, RefreshRevokeIs DEF Live
  <2>2. \A u \in Tabs : pc'[u] = "mint" => pc[u] = "mint" \/ (u = t /\ old[t] \in Live)
    BY <1>2, RefreshRevokeIs DEF Live, TypeOK
  <2> QED
    BY <1>2, <2>1, <2>2, RefreshRevokeIs DEF OneHeir
<1>3. ASSUME NEW t \in Tabs, RefreshMint(t) PROVE OneHeir'
  <2>1. \A s \in Live' : s \in Live \/ s = count + 1
    BY <1>3, RefreshMintIs DEF Live, TypeOK
  <2>2. \A u \in Tabs : pc'[u] = "mint" => pc[u] = "mint" /\ u # t
    BY <1>3, RefreshMintIs DEF TypeOK
  <2>3. family'[count + 1] = family[old[t]] /\ pc[t] = "mint"
    BY <1>3, RefreshMintIs DEF TypeOK
  <2> QED
    BY <1>3, <2>1, <2>2, <2>3, RefreshMintIs DEF OneHeir
<1> QED
  BY <1>1, <1>2, <1>3, QuietHeirs, HeirsFrame, NextIs

-----------------------------------------------------------------------------
(* Ended families                                                          *)

\* Families end together with every live session they have; those with a refresh
\* between its writes are stragglers.
LEMMA EndingKeepsEnds ==
    ASSUME TypeOK, Ends, HeirsUndisturbed, NEW F, F \subseteq 1..count, End(F),
           \A s \in Ids : state'[s] = "live" => family[s] \notin F
    PROVE  Ends'
<1>1. ended' = ended \cup F /\ straggler' = (straggler \ F) \cup (F \cap Minting)
  BY DEF End
<1>2. \A t \in Tabs : pc[t] = "mint" => family[old[t]] \in Minting
  BY DEF Minting
<1> QED
  BY <1>1, <1>2 DEF Ends, HeirsUndisturbed, Live

LEMMA EndsStep == TypeOK /\ Rows /\ OneHeir /\ Ends /\ [Next]_vars => Ends'
<1> SUFFICES ASSUME TypeOK, Rows, OneHeir, Ends, [Next]_vars PROVE Ends'
  OBVIOUS
<1>1. ASSUME HeirsUndisturbed, UNCHANGED <<ended, straggler>> PROVE Ends'
  BY <1>1 DEF Ends, HeirsUndisturbed, Live
<1>2. CASE EndpointStep
  <2>1. PICK p, S, F : p \in Replicas /\ Revocation(p, S, F)
    BY <1>2, EndpointRevokes
  <2>2. End(F) /\ F \subseteq 1..count
    BY <2>1 DEF Revocation, Revoke
  <2>3. \A s \in Ids : state'[s] = "live" => s \in Live /\ s \notin S
    BY <2>1 DEF Revocation, Revoke, Flip, Live
  <2>4. \A s \in Ids : state'[s] = "live" => family[s] \notin F
    BY <2>1, <2>3 DEF Revocation
  <2> QED
    BY <1>2, <2>2, <2>4, QuietHeirs, EndingKeepsEnds
<1>3. CASE Failure
  BY <1>1, <1>3, FailureIs, QuietHeirs
<1>4. CASE VerifierStep
  BY <1>1, <1>4, VerifierIs, QuietHeirs
<1>5. CASE UNCHANGED vars
  BY <1>1, <1>5, QuietHeirs DEF vars, historyVars
<1>6. ASSUME NEW t \in Tabs, RefreshRead(t) \/ Reply(t) PROVE Ends'
  <2>1. UNCHANGED <<ended, straggler>>
    BY <1>6 DEF RefreshRead, Reply, historyVars
  <2> QED
    BY <1>1, <1>6, <2>1, QuietHeirs
<1>7. ASSUME NEW t \in Tabs, RefreshKill(t) PROVE Ends'
  <2>1. HeirsUndisturbed
    BY <1>7, QuietHeirs
  <2>2. CASE UNCHANGED <<ended, straggler>>
    BY <1>1, <2>1, <2>2
  <2>3. CASE Flip(InFamily(family[old[t]])) /\ End({family[old[t]]})
    <3>1. old[t] \in 1..count /\ old[t] \in Ids
      BY <1>7, SessionsAssumption DEF RefreshKill, Rows, Ids, NoId, TypeOK
    <3>2. {family[old[t]]} \subseteq 1..count
      BY <3>1, SessionsAssumption DEF Rows, TypeOK
    <3>3. \A s \in Ids : state'[s] = "live" => family[s] \notin {family[old[t]]}
      BY <2>3 DEF Flip, InFamily
    <3> QED
      BY <2>1, <2>3, <3>2, <3>3, EndingKeepsEnds
  <2> QED
    BY <1>7, <2>2, <2>3 DEF RefreshKill
<1>8. ASSUME NEW t \in Tabs, Login(t) PROVE Ends'
  <2>1. \A s \in Live' : s \in Live \/ s = count + 1
    BY <1>8, LoginIs DEF Live, TypeOK
  <2>2. count \in Nat /\ family'[count + 1] = count + 1
    BY <1>8, LoginIs DEF TypeOK
  <2>3. count + 1 \notin ended /\ ended' = ended /\ straggler' = straggler /\ count' = count + 1
    BY <1>8, <2>2, LoginIs DEF Ends
  <2>4. \A s \in Live : family'[s] = family[s]
    BY <1>8, LoginIs
  <2>5. \A u \in Tabs : pc'[u] = "mint" => pc[u] = "mint" /\ old'[u] = old[u]
                                             /\ family'[old[u]] = family[old[u]]
    BY <1>8, LoginIs
  <2> QED
    BY <2>1, <2>2, <2>3, <2>4, <2>5 DEF Ends
<1>9. ASSUME NEW t \in Tabs, RefreshRevoke(t) PROVE Ends'
  <2>1. \A s \in Live' : s \in Live
    BY <1>9, RefreshRevokeIs DEF Live
  <2>2. \A u \in Tabs : pc'[u] = "mint" => pc[u] = "mint" \/ (u = t /\ old[t] \in Live)
    BY <1>9, RefreshRevokeIs DEF Live, TypeOK
  <2> QED
    BY <1>9, <2>1, <2>2, RefreshRevokeIs DEF Ends
<1>10. ASSUME NEW t \in Tabs, RefreshMint(t) PROVE Ends'
  <2>1. \A s \in Live' : s \in Live \/ s = count + 1
    BY <1>10, RefreshMintIs DEF Live, TypeOK
  <2>2. \A u \in Tabs : pc'[u] = "mint" => pc[u] = "mint"
    BY <1>10, RefreshMintIs DEF TypeOK
  <2>3. family'[count + 1] = family[old[t]] /\ pc[t] = "mint" /\ count \in Nat
    BY <1>10, RefreshMintIs DEF TypeOK
  <2> QED
    BY <1>10, <2>1, <2>2, <2>3, RefreshMintIs DEF Ends
<1> QED
  BY <1>2, <1>3, <1>4, <1>5, <1>6, <1>7, <1>8, <1>9, <1>10, NextIs

-----------------------------------------------------------------------------
(* What the verifiers believe                                              *)

LEMMA BeliefsFrame ==
    ASSUME TypeOK, Beliefs, UNCHANGED <<cacheVars, since, busted, overlap>>,
           \A s \in Ids : state[s] = "revoked" => state'[s] = "revoked"
    PROVE  Beliefs'
BY DEF Beliefs, cacheVars

LEMMA VerifierBeliefs == ASSUME TypeOK, Beliefs, VerifierStep PROVE Beliefs'
<1> USE SessionsAssumption
<1>1. ASSUME NEW p \in Replicas, Bust(p) PROVE Beliefs'
  <2>1. UNCHANGED <<state, since, loading>>
    BY <1>1 DEF Bust, sessionVars
  <2>2. \A q \in Replicas, s \in Ids :
          /\ cache'[q][s] = IF q = p /\ s \in toBust[p] THEN 0 ELSE cache[q][s]
          /\ s \in busted'[q] <=> s \in busted[q] \/ (q = p /\ s \in toBust[p])
          /\ s \in overlap'[q] <=>
               s \in overlap[q] \/ (q = p /\ s \in toBust[p] /\ loading[p][s] # {})
          /\ s \in toBust'[q] => s \in toBust[q]
    BY <1>1 DEF Bust, TypeOK
  <2> QED
    BY <2>1, <2>2 DEF Beliefs
<1>2. ASSUME NEW p \in Replicas, NEW s \in Ids, LoadRead(p, s) PROVE Beliefs'
  <2>1. state[s] = "live" /\ UNCHANGED <<state, since, cache, toBust, busted, overlap>>
    BY <1>2 DEF LoadRead, sessionVars, historyVars
  <2>2. \A q \in Replicas, r \in Ids :
          loading'[q][r] = IF q = p /\ r = s THEN loading[q][r] \cup {LoadTime + 1}
                           ELSE loading[q][r]
    BY <1>2 DEF LoadRead, TypeOK
  <2>3. since[s] = 0
    BY <2>1 DEF Beliefs
  <2>4. ASSUME NEW q \in Replicas, NEW r \in Ids, NEW n \in loading'[q][r]
        PROVE  n + since[r] <= LoadTime + 1
    <3>1. CASE n \in loading[q][r]
      BY <3>1 DEF Beliefs
    <3>2. CASE n \notin loading[q][r]
      <4>1. r = s /\ n = LoadTime + 1
        BY <2>2, <2>4, <3>2
      <4> QED
        BY <2>3, <4>1
    <3> QED
      BY <3>1, <3>2
  <2>5. \A q \in Replicas, r \in Ids :
          r \in busted[q] /\ (cache[q][r] > 0 \/ loading'[q][r] # {}) => r \in overlap[q]
    <3>1. \A q \in Replicas : s \notin busted[q]
      BY <2>1 DEF Beliefs
    <3>2. \A q \in Replicas, r \in Ids : r # s => loading'[q][r] = loading[q][r]
      BY <2>2
    <3> QED
      BY <3>1, <3>2 DEF Beliefs
  <2> QED
    BY <2>1, <2>4, <2>5 DEF Beliefs
<1>3. ASSUME NEW p \in Replicas, NEW s \in Ids, LoadPut(p, s) PROVE Beliefs'
  <2>0. PICK n \in loading[p][s] : loading' = [loading EXCEPT ![p][s] = @ \ {n}]
    BY <1>3 DEF LoadPut
  <2>1. UNCHANGED <<state, since, toBust, busted, overlap>>
    BY <1>3 DEF LoadPut, sessionVars, historyVars
  <2>2. \A q \in Replicas, r \in Ids :
          /\ loading'[q][r] \subseteq loading[q][r]
          /\ cache'[q][r] = IF q = p /\ r = s THEN CacheTTL ELSE cache[q][r]
    BY <1>3, <2>0 DEF LoadPut, TypeOK
  <2>3. n \in 1..(LoadTime + 1) /\ since[s] \in Nat
    BY <2>0 DEF TypeOK, Stale
  <2>4. CacheTTL + since[s] <= Stale
    BY <2>0, <2>3 DEF Beliefs, Stale
  <2>5. \A q \in Replicas, r \in Ids :
          r \in busted[q] /\ (cache'[q][r] > 0 \/ loading'[q][r] # {}) => r \in overlap[q]
    BY <2>0, <2>2 DEF Beliefs
  <2>6. \A q \in Replicas, r \in Ids : \A k \in loading'[q][r] : k + since[r] <= LoadTime + 1
    BY <2>2 DEF Beliefs
  <2>7. \A q \in Replicas, r \in Ids : cache'[q][r] > 0 => cache'[q][r] + since[r] <= Stale
    BY <2>2, <2>4 DEF Beliefs
  <2> QED
    BY <2>1, <2>5, <2>6, <2>7 DEF Beliefs
<1>4. ASSUME NEW s \in Ids, Expire(s) PROVE Beliefs'
  BY <1>4, BeliefsFrame DEF Expire, historyVars
<1>5. ASSUME Tick PROVE Beliefs'
  <2>1. UNCHANGED <<state, toBust, busted, overlap>>
    BY <1>5 DEF Tick, sessionVars
  <2>2. \A q \in Replicas, s \in Ids :
          /\ cache'[q][s] = Countdown(cache[q][s])
          /\ loading'[q][s] = {n - 1 : n \in loading[q][s]}
          /\ cache[q][s] \in Nat /\ loading[q][s] \subseteq Nat
    BY <1>5 DEF Tick, TypeOK
  <2>3. \A s \in Ids : since[s] \in Nat
    BY DEF TypeOK, Stale
  <2>4. \A s \in Ids : since'[s] = IF state[s] = "revoked" /\ Held(s) THEN since[s] + 1 ELSE 0
    BY <1>5 DEF Tick
  <2>5. \A q \in Replicas, s \in Ids : cache[q][s] > 0 \/ loading[q][s] # {} => Held(s)
    BY DEF Held
  <2>6. ASSUME NEW q \in Replicas, NEW s \in Ids
        PROVE  /\ cache'[q][s] > 0 => cache'[q][s] + since'[s] <= Stale
               /\ \A k \in loading'[q][s] : k + since'[s] <= LoadTime + 1
    <3>1. cache[q][s] > 0 => cache[q][s] + since[s] <= Stale
      BY DEF Beliefs
    <3>2. \A n \in loading[q][s] : n \in Nat /\ n + since[s] <= LoadTime + 1
      BY <2>2 DEF Beliefs
    <3>3. since'[s] <= since[s] + 1 /\ since[s] \in Nat /\ since'[s] \in Nat
      BY <2>3, <2>4
    <3>4. cache'[q][s] > 0 => cache'[q][s] + since'[s] <= Stale
      BY <2>2, <3>1, <3>3 DEF Countdown, Stale
    <3>5. ASSUME NEW k \in loading'[q][s] PROVE k + since'[s] <= LoadTime + 1
      <4>1. PICK n \in loading[q][s] : k = n - 1
        BY <2>2
      <4> QED
        BY <3>2, <3>3, <4>1
    <3> QED
      BY <3>4, <3>5
  <2>7. \A q \in Replicas, s \in Ids :
          cache'[q][s] > 0 \/ loading'[q][s] # {} => cache[q][s] > 0 \/ loading[q][s] # {}
    BY <2>2 DEF Countdown
  <2>8. \A s \in Ids : state'[s] # "revoked" => since'[s] = 0
    BY <2>1, <2>4
  <2> QED
    BY <2>1, <2>6, <2>7, <2>8 DEF Beliefs
<1> QED
  BY <1>1, <1>2, <1>3, <1>4, <1>5 DEF VerifierStep

LEMMA BeliefsStep == TypeOK /\ Rows /\ OneHeir /\ Beliefs /\ [Next]_vars => Beliefs'
<1> SUFFICES ASSUME TypeOK, Rows, OneHeir, Beliefs, [Next]_vars PROVE Beliefs'
  OBVIOUS
<1>1. CASE UNCHANGED vars
  BY <1>1, BeliefsFrame DEF vars, sessionVars, historyVars
<1>2. CASE EndpointStep
  <2>1. PICK p, S, F : p \in Replicas /\ Revocation(p, S, F)
    BY <1>2, EndpointRevokes
  <2>2. UNCHANGED <<cache, loading, since, busted, overlap>>
    BY <2>1 DEF Revocation, Revoke
  <2>3. \A s \in Ids : state'[s] = IF s \in S /\ s \in Live THEN "revoked" ELSE state[s]
    BY <2>1 DEF Revocation, Revoke, Flip, Live
  <2>4. \A q \in Replicas, s \in Ids : s \in toBust'[q] => s \in toBust[q] \/ (s \in S /\ s \in Live)
    BY <2>1 DEF Revocation, Revoke, TypeOK
  <2> QED
    BY <2>2, <2>3, <2>4 DEF Beliefs
<1>3. CASE Failure
  BY <1>3, FailureIs, BeliefsFrame DEF sessionVars
<1>4. ASSUME NEW t \in Tabs, Login(t) \/ RefreshMint(t) PROVE Beliefs'
  <2>1. UNCHANGED <<cacheVars, since, busted, overlap>>
    BY <1>4 DEF Login, RefreshMint, historyVars
  <2>2. \A s \in Ids : state[s] = "revoked" => s # count + 1
    BY DEF Rows, TypeOK, Ids
  <2>3. \A s \in Ids : state[s] = "revoked" => state'[s] = "revoked"
    BY <1>4, <2>2 DEF Login, RefreshMint, CreateSession, TypeOK
  <2> QED
    BY <2>1, <2>3, BeliefsFrame
<1>5. ASSUME NEW t \in Tabs, RefreshRead(t) \/ Reply(t) PROVE Beliefs'
  BY <1>5, BeliefsFrame DEF RefreshRead, Reply, sessionVars, historyVars
<1>6. ASSUME NEW t \in Tabs, RefreshRevoke(t) \/ RefreshKill(t) PROVE Beliefs'
  <2>1. UNCHANGED <<cacheVars, since, busted, overlap>>
    BY <1>6 DEF RefreshRevoke, RefreshKill, historyVars
  <2>2. \A s \in Ids : state[s] = "revoked" => state'[s] = "revoked"
    BY <1>6 DEF RefreshRevoke, RefreshKill, Flip
  <2> QED
    BY <2>1, <2>2, BeliefsFrame
<1> QED
  BY <1>1, <1>2, <1>3, <1>4, <1>5, <1>6, VerifierBeliefs, NextIs

-----------------------------------------------------------------------------
(* Who holds a session, and why one is gone                                *)

OwnersUndisturbed ==
    /\ \A b \in Browsers : cookie'[b] \in {cookie[b], NoId}
    /\ \A t \in Tabs : old'[t] \in {old[t], NoId}
    /\ \A t \in Tabs : pc'[t] = "good" => pc[t] = "good" /\ new'[t] = new[t]

LEMMA OwnersFrame == ASSUME TypeOK, Rows, Owners, OwnersUndisturbed PROVE Owners'
<1>1. \A t \in Tabs : pc[t] = "good" => new[t] # NoId
  BY DEF Rows, NoId
<1> QED
  BY <1>1 DEF Owners, OwnersUndisturbed

LEMMA RefreshReadIs ==
    ASSUME TypeOK, Rows, NEW t \in Tabs, RefreshRead(t)
    PROVE  /\ UNCHANGED <<sessionVars, cookie, new, ended, faults>>
           /\ old' = [old EXCEPT ![t] = cookie[BrowserOf[t]]]
           /\ pc[t] = "idle" /\ \A u \in Tabs : pc'[u] \in {"mint", "good"} => pc'[u] = pc[u] /\ u # t
           /\ \A u \in Tabs : pc[u] \in {"mint", "good"} => pc'[u] = pc[u]
           /\ BrowserOf[t] \in Browsers /\ cookie[BrowserOf[t]] # NoId
BY SessionsAssumption DEF RefreshRead, Goto, historyVars, budgetVars, TypeOK

LEMMA ReplyIs ==
    ASSUME TypeOK, Rows, NEW t \in Tabs, Reply(t)
    PROVE  /\ UNCHANGED <<sessionVars, ended, faults>>
           /\ old' = [old EXCEPT ![t] = NoId] /\ new' = [new EXCEPT ![t] = NoId]
           /\ pc' = [pc EXCEPT ![t] = "idle"]
           /\ BrowserOf[t] \in Browsers
           /\ cookie' = [cookie EXCEPT ![BrowserOf[t]] = IF pc[t] = "good" THEN new[t] ELSE NoId]
BY SessionsAssumption DEF Reply, Goto, historyVars, budgetVars, TypeOK

LEMMA OwnersStep == TypeOK /\ Rows /\ OneHeir /\ Owners /\ [Next]_vars => Owners'
<1> SUFFICES ASSUME TypeOK, Rows, OneHeir, Owners, [Next]_vars PROVE Owners'
  OBVIOUS
<1> USE SessionsAssumption
<1>1. CASE UNCHANGED vars
  BY <1>1, OwnersFrame DEF vars, requestVars, OwnersUndisturbed
<1>2. CASE EndpointStep
  <2>1. PICK p, S, F : p \in Replicas /\ Revocation(p, S, F)
    BY <1>2, EndpointRevokes
  <2> QED
    BY <2>1, OwnersFrame DEF Revocation, Revoke, OwnersUndisturbed
<1>3. CASE Failure
  BY <1>3, FailureIs, OwnersFrame DEF OwnersUndisturbed
<1>4. CASE VerifierStep
  BY <1>4, VerifierIs, OwnersFrame DEF requestVars, OwnersUndisturbed
<1>5. ASSUME NEW t \in Tabs, RefreshRevoke(t) PROVE Owners'
  BY <1>5, RefreshRevokeIs, OwnersFrame DEF OwnersUndisturbed, TypeOK
<1>6. ASSUME NEW t \in Tabs, RefreshKill(t) PROVE Owners'
  BY <1>6, OwnersFrame DEF RefreshKill, Goto, OwnersUndisturbed, TypeOK
<1>7. ASSUME NEW t \in Tabs, Login(t) PROVE Owners'
  <2>1. /\ UNCHANGED <<pc, old, new>>
        /\ BrowserOf[t] \in Browsers
        /\ cookie' = cookie \/ cookie' = [cookie EXCEPT ![BrowserOf[t]] = count + 1]
    BY <1>7 DEF Login, requestVars
  <2>2. /\ \A b \in Browsers : cookie[b] # count + 1
        /\ \A u \in Tabs : old[u] # count + 1
        /\ \A u \in Tabs : pc[u] = "good" => new[u] # count + 1
    BY DEF Rows, TypeOK
  <2>3. \A b \in Browsers : cookie'[b] = cookie[b] \/ (b = BrowserOf[t] /\ cookie'[b] = count + 1)
    BY <2>1 DEF TypeOK
  <2> QED
    BY <2>1, <2>2, <2>3 DEF Owners
<1>8. ASSUME NEW t \in Tabs, RefreshRead(t) PROVE Owners'
  <2>1. \A u \in Tabs : old'[u] = IF u = t THEN cookie[BrowserOf[t]] ELSE old[u]
    BY <1>8, RefreshReadIs DEF TypeOK
  <2> QED
    BY <1>8, <2>1, RefreshReadIs DEF Owners
<1>9. ASSUME NEW t \in Tabs, RefreshMint(t) PROVE Owners'
  <2>1. \A u \in Tabs : /\ pc'[u] = "good" => u = t \/ pc[u] = "good"
                        /\ new'[u] = IF u = t THEN count + 1 ELSE new[u]
    BY <1>9, RefreshMintIs DEF TypeOK
  <2>2. /\ \A b \in Browsers : cookie[b] # count + 1
        /\ \A u \in Tabs : old[u] # count + 1
        /\ \A u \in Tabs : pc[u] = "good" => new[u] # count + 1
    BY DEF Rows, TypeOK
  <2> QED
    BY <1>9, <2>1, <2>2, RefreshMintIs DEF Owners
<1>10. ASSUME NEW t \in Tabs, Reply(t) PROVE Owners'
  <2>1. \A u \in Tabs : /\ pc'[u] = "good" => u # t /\ pc[u] = "good" /\ new'[u] = new[u]
                        /\ old'[u] \in {old[u], NoId}
    BY <1>10, ReplyIs DEF TypeOK
  <2>2. CASE pc[t] # "good"
    <3>1. \A b \in Browsers : cookie'[b] \in {cookie[b], NoId}
      BY <1>10, <2>2, ReplyIs DEF TypeOK
    <3> QED
      BY <2>1, <3>1, OwnersFrame DEF OwnersUndisturbed
  <2>3. CASE pc[t] = "good"
    <3>1. \A b \in Browsers : cookie'[b] = IF b = BrowserOf[t] THEN new[t] ELSE cookie[b]
      BY <1>10, <2>3, ReplyIs DEF TypeOK
    <3>2. \A u \in Tabs : pc[u] = "good" => new[u] # NoId
      BY DEF Rows, NoId
    <3> QED
      BY <1>10, <2>1, <2>3, <3>1, <3>2, ReplyIs DEF Owners
  <2> QED
    BY <2>2, <2>3
<1> QED
  BY <1>1, <1>2, <1>3, <1>4, <1>5, <1>6, <1>7, <1>8, <1>9, <1>10, NextIs

\* A step that leaves the cookies and the families alone, revokes only sessions of doomed
\* families, and ends requests only where nothing is lost or the family is doomed.
SignInUndisturbed ==
    /\ UNCHANGED <<count, family, cookie>>
    /\ doomed \subseteq doomed' /\ doomed' \subseteq 1..count /\ ended' \subseteq doomed'
    /\ \A s \in Ids :
         /\ state[s] = "revoked" => state'[s] = "revoked"
         /\ state'[s] = "live" => state[s] = "live"
         /\ state[s] = "live" => state'[s] = "live" \/ family[s] \in doomed'
    /\ \A t \in Tabs :
         \/ pc'[t] = pc[t] /\ old'[t] = old[t] /\ new'[t] = new[t]
         \/ /\ pc'[t] = "bad" /\ old'[t] = old[t]
            /\ old[t] # NoId => family[old[t]] \in doomed'
         \/ /\ pc'[t] = "idle" /\ old'[t] = NoId
            /\ old[t] # NoId => state'[old[t]] = "live" \/ family[old[t]] \in doomed'
            /\ pc[t] \in {"mint", "good"} => family[old[t]] \in doomed'

LEMMA ReasonsFrame ==
    ASSUME TypeOK, Rows, Reasons, SignInUndisturbed PROVE Reasons'
<1> USE SessionsAssumption DEF SignInUndisturbed, Reasons
<1>1. \A t \in Tabs :
        /\ old[t] # NoId => old[t] \in Ids
        /\ pc[t] \in {"mint", "good"} => old[t] # NoId
        /\ pc[t] = "good" => new[t] \in Ids
  BY DEF Rows, TypeOK, NoId, Ids
<1>2. \A b \in Browsers : cookie[b] # NoId => cookie[b] \in Ids
  BY DEF TypeOK
<1>3. Requests'
  <2> SUFFICES ASSUME NEW t \in Tabs
               PROVE /\ pc'[t] = "idle" => old'[t] = NoId
                     /\ pc'[t] = "kill" \/ (pc'[t] = "bad" /\ old'[t] # NoId) =>
                          family'[old'[t]] \in doomed'
                     /\ pc'[t] = "revoke" => old'[t] \in Live' \/ family'[old'[t]] \in doomed'
                     /\ pc'[t] \in {"mint", "good"} => state'[old'[t]] = "revoked"
                     /\ pc'[t] = "good" =>
                          /\ family'[new'[t]] = family'[old'[t]]
                          /\ new'[t] \in Live' \/ family'[new'[t]] \in doomed'
    BY DEF Requests, Doomed
  <2>1. CASE pc'[t] = pc[t] /\ old'[t] = old[t] /\ new'[t] = new[t]
    <3>1. /\ family' = family /\ doomed \subseteq doomed'
          /\ \A s \in Ids : /\ state[s] = "revoked" => state'[s] = "revoked"
                            /\ s \in Live => s \in Live' \/ family[s] \in doomed'
      BY DEF Live
    <3>2. /\ pc[t] = "idle" => old[t] = NoId
          /\ pc[t] = "kill" \/ (pc[t] = "bad" /\ old[t] # NoId) => family[old[t]] \in doomed
          /\ pc[t] = "revoke" => old[t] \in Live \/ family[old[t]] \in doomed
          /\ pc[t] \in {"mint", "good"} => state[old[t]] = "revoked"
          /\ pc[t] = "good" =>
               /\ family[new[t]] = family[old[t]]
               /\ new[t] \in Live \/ family[new[t]] \in doomed
      BY DEF Requests, Doomed
    <3>3. \A s \in Live : s \in Ids
      BY DEF Live
    <3> HIDE DEF Reasons, SignInUndisturbed
    <3> QED
      BY <1>1, <2>1, <3>1, <3>2, <3>3
  <2>2. CASE pc'[t] \in {"bad", "idle"} /\ ~(pc'[t] = pc[t] /\ old'[t] = old[t] /\ new'[t] = new[t])
    BY <2>2
  <2> QED
    BY <2>1, <2>2
<1>4. Rivals'
  <2>1. family' = family /\ doomed \subseteq doomed' /\ \A t \in Tabs : old'[t] \in {old[t], NoId}
    OBVIOUS
  <2>2. \A t, u \in Tabs :
          old[t] = old[u] /\ old[t] # NoId => t = u \/ family[old[t]] \in doomed
    BY DEF Rivals, Doomed
  <2> HIDE DEF Reasons, SignInUndisturbed
  <2> QED
    BY <2>1, <2>2 DEF Rivals, Doomed
<1>5. Cookies'
  <2> SUFFICES ASSUME NEW b \in Browsers, cookie[b] # NoId
               PROVE  \/ cookie[b] \in Live' \/ family[cookie[b]] \in doomed'
                      \/ \E t \in Tabs : old'[t] = cookie[b]
    BY DEF Cookies, Doomed
  <2>1. CASE cookie[b] \in Live \/ Doomed(cookie[b])
    BY <2>1 DEF Live, Doomed
  <2>2. CASE \E t \in Tabs : old[t] = cookie[b]
    BY <1>2, <2>2 DEF Live
  <2> QED
    BY <2>1, <2>2 DEF Cookies
<1>6. Lineage'
  <2>1. ASSUME NEW s \in 1..count
        PROVE  \/ family[s] \in doomed' \/ family[s] \in Minting'
               \/ \E r \in Live' : family[r] = family[s]
    <3>1. CASE Doomed(s)
      BY <3>1 DEF Doomed
    <3>2. CASE family[s] \in Minting
      <4>1. PICK t \in Tabs : pc[t] = "mint" /\ family[old[t]] = family[s]
        BY <3>2 DEF Minting
      <4>2. CASE pc'[t] = "mint" /\ old'[t] = old[t]
        BY <4>1, <4>2 DEF Minting
      <4> QED
        BY <1>1, <4>1, <4>2
    <3>3. CASE \E r \in Live : family[r] = family[s]
      BY <3>3 DEF Live
    <3> QED
      BY <3>1, <3>2, <3>3 DEF Lineage
  <2>2. count' = count /\ family' = family /\ ended' \subseteq doomed' /\ doomed' \subseteq 1..count
    OBVIOUS
  <2> QED
    BY <2>1, <2>2 DEF Lineage, Doomed
<1>7. Holders'
  <2> SUFFICES ASSUME NEW s \in Live'
               PROVE  \/ family[s] \in doomed'
                      \/ \E b \in Browsers : cookie[b] = s
                      \/ \E t \in Tabs : pc'[t] = "good" /\ new'[t] = s
    BY DEF Holders, Doomed
  <2>1. s \in Live
    BY DEF Live
  <2>2. ASSUME NEW t \in Tabs, pc[t] = "good", new[t] = s, ~(pc'[t] = "good" /\ new'[t] = s)
        PROVE  family[s] \in doomed'
    <3>1. family[old[t]] \in doomed' /\ family[new[t]] = family[old[t]]
      BY <1>1, <2>2 DEF Requests
    <3> QED
      BY <2>2, <3>1
  <2> QED
    BY <2>1, <2>2 DEF Holders, Doomed
<1> QED
  BY <1>3, <1>4, <1>5, <1>6, <1>7

LEMMA LoginReasons ==
    ASSUME TypeOK, Rows, Reasons, NEW t \in Tabs, Login(t) PROVE Reasons'
<1> USE SessionsAssumption DEF Reasons
<1> DEFINE n == count + 1
           c == cookie[BrowserOf[t]]
<1>1. /\ n \in Ids /\ count' = n /\ count \in Nat
      /\ state' = [state EXCEPT ![n] = "live"] /\ family' = [family EXCEPT ![n] = n]
      /\ UNCHANGED <<pc, old, new, ended>>
  BY LoginIs DEF TypeOK
<1>2. /\ \A s \in 1..count : s \in Ids /\ s # n /\ state'[s] = state[s] /\ family'[s] = family[s]
      /\ state'[n] = "live" /\ family'[n] = n
      /\ \A s \in Live' : s \in Live \/ s = n
      /\ \A s \in Live : s \in 1..count /\ s \in Live'
  BY <1>1 DEF Rows, Live, TypeOK, Ids
<1>3. /\ BrowserOf[t] \in Browsers
      /\ \/ /\ cookie' = [cookie EXCEPT ![BrowserOf[t]] = n]
            /\ doomed' = doomed \cup (IF c # NoId THEN {family[c]} ELSE {})
         \/ UNCHANGED cookie /\ doomed' = doomed \cup {n}
  BY DEF Login, Doom
<1>4. doomed \subseteq doomed' /\ doomed' \subseteq 1..n /\ ended' \subseteq doomed'
  <2>1. c # NoId => family[c] \in 1..count
    BY <1>3 DEF Rows, TypeOK, NoId
  <2>2. doomed \subseteq 1..count /\ ended \subseteq doomed
    BY DEF Lineage
  <2>3. 1..count \subseteq 1..n /\ n \in 1..n
    BY <1>1
  <2> HIDE DEF Reasons, n, c
  <2>4. doomed \subseteq doomed' /\ doomed' \subseteq 1..n
    BY <1>3, <2>1, <2>2, <2>3
  <2> QED
    BY <1>1, <2>2, <2>4
<1>5. \A u \in Tabs :
        /\ old[u] # NoId => old[u] \in 1..count
        /\ pc[u] \in {"revoke", "kill", "mint", "good"} => old[u] # NoId
        /\ pc[u] = "good" => new[u] \in 1..count
  BY DEF Rows, TypeOK, NoId
<1>6. Requests'
  <2> SUFFICES ASSUME NEW u \in Tabs
               PROVE /\ pc[u] = "idle" => old[u] = NoId
                     /\ pc[u] = "kill" \/ (pc[u] = "bad" /\ old[u] # NoId) =>
                          family'[old[u]] \in doomed'
                     /\ pc[u] = "revoke" => old[u] \in Live' \/ family'[old[u]] \in doomed'
                     /\ pc[u] \in {"mint", "good"} => state'[old[u]] = "revoked"
                     /\ pc[u] = "good" =>
                          /\ family'[new[u]] = family'[old[u]]
                          /\ new[u] \in Live' \/ family'[new[u]] \in doomed'
    BY <1>1 DEF Requests, Doomed
  <2> HIDE DEF n, c
  <2> QED
    BY <1>2, <1>4, <1>5 DEF Requests, Doomed
<1>7. Rivals'
  BY <1>1, <1>2, <1>4, <1>5 DEF Rivals, Doomed
<1>8. Cookies'
  <2> SUFFICES ASSUME NEW b \in Browsers, cookie'[b] # NoId
               PROVE  \/ cookie'[b] \in Live' \/ family'[cookie'[b]] \in doomed'
                      \/ \E u \in Tabs : old'[u] = cookie'[b]
    BY DEF Cookies, Doomed
  <2>1. CASE cookie'[b] = n
    BY <1>1, <1>2, <2>1 DEF Live
  <2>2. CASE cookie'[b] = cookie[b]
    <3>1. cookie[b] \in 1..count
      BY <2>2 DEF Rows, TypeOK, NoId
    <3>2. \/ cookie[b] \in Live \/ family[cookie[b]] \in doomed
          \/ \E u \in Tabs : old[u] = cookie[b]
      BY <2>2 DEF Cookies, Doomed
    <3>3. cookie[b] \in Live => cookie[b] \in Live'
      BY <1>2
    <3>4. family[cookie[b]] \in doomed => family'[cookie[b]] \in doomed'
      BY <1>2, <1>4, <3>1
    <3> QED
      BY <1>1, <2>2, <3>2, <3>3, <3>4
  <2> QED
    BY <1>3, <2>1, <2>2 DEF TypeOK
<1>9. Lineage'
  <2>1. ASSUME NEW s \in 1..n
        PROVE  \/ family'[s] \in doomed' \/ family'[s] \in Minting'
               \/ \E r \in Live' : family'[r] = family'[s]
    <3>1. CASE s = n
      BY <1>1, <1>2, <3>1 DEF Live
    <3>2. CASE s \in 1..count
      <4>1. family[s] \in Minting => family[s] \in Minting'
        BY <1>1, <1>2, <1>5 DEF Minting
      <4> QED
        BY <1>2, <1>4, <3>2, <4>1 DEF Lineage, Doomed
    <3> QED
      BY <1>1, <3>1, <3>2
  <2> QED
    BY <1>1, <1>4, <2>1 DEF Lineage, Doomed
<1>10. Holders'
  <2> SUFFICES ASSUME NEW s \in Live'
               PROVE  \/ family'[s] \in doomed'
                      \/ \E b \in Browsers : cookie'[b] = s
                      \/ \E u \in Tabs : pc'[u] = "good" /\ new'[u] = s
    BY DEF Holders, Doomed
  <2>1. CASE s = n
    BY <1>2, <1>3, <2>1 DEF TypeOK
  <2>2. ASSUME s \in Live, NEW b \in Browsers, cookie[b] = s
        PROVE  family'[s] \in doomed' \/ cookie'[b] = s
    <3>1. s \in 1..count /\ s # NoId
      BY <1>2, <2>2 DEF NoId
    <3>2. CASE cookie'[b] = cookie[b]
      BY <2>2, <3>2
    <3>3. CASE cookie'[b] # cookie[b]
      <4>1. b = BrowserOf[t] /\ doomed' = doomed \cup {family[s]}
        BY <1>3, <2>2, <3>1, <3>3 DEF TypeOK
      <4> QED
        BY <1>2, <3>1, <4>1
    <3> QED
      BY <3>2, <3>3
  <2>3. s \in Live /\ Doomed(s) => family'[s] \in doomed'
    BY <1>2, <1>4 DEF Doomed
  <2> QED
    BY <1>1, <1>2, <2>1, <2>2, <2>3 DEF Holders
<1> QED
  BY <1>6, <1>7, <1>8, <1>9, <1>10

LEMMA RefreshReadReasons ==
    ASSUME TypeOK, Rows, Reasons, NEW t \in Tabs, RefreshRead(t) PROVE Reasons'
<1> USE SessionsAssumption DEF Reasons
<1> DEFINE s == cookie[BrowserOf[t]]
<1>1. /\ BrowserOf[t] \in Browsers /\ s # NoId /\ s \in 1..count /\ s \in Ids
      /\ pc[t] = "idle" /\ old[t] = NoId
  <2>1. BrowserOf[t] \in Browsers /\ s # NoId /\ pc[t] = "idle"
    BY DEF RefreshRead
  <2>2. s \in 1..count
    BY <2>1 DEF Rows, TypeOK, NoId
  <2>3. \A r \in 1..count : r \in Ids
    BY DEF TypeOK, Ids
  <2> QED
    BY <2>1, <2>2, <2>3 DEF Requests
<1>2. /\ UNCHANGED <<count, state, family, cookie, new, ended>>
      /\ pc' = [pc EXCEPT ![t] = IF state[s] = "revoked" \/ s \in expired THEN "kill"
                                 ELSE "revoke"]
      /\ old' = [old EXCEPT ![t] = s]
      /\ doomed' = doomed \cup (IF s \in expired \/ Presented(s) THEN {family[s]} ELSE {})
  BY DEF RefreshRead, Goto, Doom, sessionVars
<1>3. doomed \subseteq doomed' /\ doomed' \subseteq 1..count
  <2>1. family[s] \in 1..count
    BY <1>1 DEF Rows, TypeOK
  <2> QED
    BY <1>2, <2>1 DEF Lineage
<1>4. \A u \in Tabs : u # t => pc'[u] = pc[u] /\ old'[u] = old[u] /\ new'[u] = new[u]
  BY <1>2 DEF TypeOK
<1>5. old'[t] = s /\ pc'[t] = IF state[s] = "revoked" \/ s \in expired THEN "kill" ELSE "revoke"
  BY <1>2 DEF TypeOK
<1>6. \A u \in Tabs : old[u] = s => Presented(s)
  BY <1>1 DEF Requests, Presented
<1>7. s \in Live \/ state[s] = "revoked"
  BY <1>1 DEF Rows, TypeOK, Live
<1>8. state[s] = "revoked" \/ s \in expired => family[s] \in doomed'
  <2>1. CASE s \in expired
    BY <1>2, <2>1
  <2>2. CASE state[s] = "revoked"
    <3>1. Doomed(s) \/ \E u \in Tabs : old[u] = s
      BY <1>1, <2>2 DEF Cookies, Live
    <3> QED
      BY <1>2, <1>3, <1>6, <3>1 DEF Doomed
  <2> QED
    BY <2>1, <2>2
<1>9. Requests'
  <2>1. Live' = Live /\ family' = family /\ state' = state
    BY <1>2 DEF Live
  <2> SUFFICES ASSUME NEW u \in Tabs
               PROVE /\ pc'[u] = "idle" => old'[u] = NoId
                     /\ pc'[u] = "kill" \/ (pc'[u] = "bad" /\ old'[u] # NoId) =>
                          family[old'[u]] \in doomed'
                     /\ pc'[u] = "revoke" => old'[u] \in Live \/ family[old'[u]] \in doomed'
                     /\ pc'[u] \in {"mint", "good"} => state[old'[u]] = "revoked"
                     /\ pc'[u] = "good" =>
                          /\ family[new'[u]] = family[old'[u]]
                          /\ new'[u] \in Live \/ family[new'[u]] \in doomed'
    BY <2>1 DEF Requests, Doomed
  <2>2. CASE u = t
    <3> HIDE DEF s
    <3> QED
      BY <1>5, <1>7, <1>8, <2>2
  <2>3. CASE u # t
    BY <1>3, <1>4, <2>3 DEF Requests, Doomed
  <2> QED
    BY <2>2, <2>3
<1>10. Rivals'
  <2> SUFFICES ASSUME NEW u \in Tabs, NEW v \in Tabs, old'[u] = old'[v], old'[u] # NoId, u # v
               PROVE  family[old'[u]] \in doomed'
    BY <1>2 DEF Rivals, Doomed
  <2>1. CASE u = t \/ v = t
    <3>1. Presented(s) /\ old'[u] = s
      BY <1>4, <1>5, <1>6, <2>1
    <3> QED
      BY <1>2, <3>1
  <2>2. CASE u # t /\ v # t
    BY <1>3, <1>4, <2>2 DEF Rivals, Doomed
  <2> QED
    BY <2>1, <2>2
<1>11. Cookies'
  <2>1. \A u \in Tabs : old[u] # NoId => old'[u] = old[u]
    BY <1>1, <1>4
  <2> QED
    BY <1>2, <1>3, <2>1 DEF Cookies, Doomed, Live
<1>12. Lineage'
  <2>1. \A f : f \in Minting => f \in Minting'
    BY <1>1, <1>2, <1>4 DEF Minting
  <2> QED
    BY <1>2, <1>3, <2>1 DEF Lineage, Doomed, Live
<1>13. Holders'
  <2>1. \A u \in Tabs : pc[u] = "good" => pc'[u] = "good" /\ new'[u] = new[u]
    BY <1>1, <1>4
  <2> QED
    BY <1>2, <1>3, <2>1 DEF Holders, Doomed, Live
<1> QED
  BY <1>9, <1>10, <1>11, <1>12, <1>13

LEMMA RefreshRevokeReasons ==
    ASSUME TypeOK, Rows, Owners, Reasons, NEW t \in Tabs, RefreshRevoke(t) PROVE Reasons'
<1> USE SessionsAssumption DEF Reasons
<1> DEFINE s == old[t]
<1>1. /\ s \in 1..count /\ s \in Ids /\ s # NoId /\ pc[t] = "revoke"
      /\ UNCHANGED <<count, family, old, new, cookie, ended, doomed>>
      /\ state' = [r \in Ids |-> IF r = s /\ state[r] = "live" THEN "revoked" ELSE state[r]]
      /\ pc' = [pc EXCEPT ![t] = IF state[s] = "live" THEN "mint" ELSE "kill"]
  BY RefreshRevokeIs DEF RefreshRevoke, historyVars, Rows
<1>2. /\ \A r \in Ids : state[r] = "revoked" => state'[r] = "revoked"
      /\ \A r \in Live' : r \in Live
      /\ \A r \in Live : r \in Live' \/ r = s
      /\ s \in Live => state'[s] = "revoked"
  BY <1>1 DEF Live
<1>3. \A u \in Tabs : u # t => pc'[u] = pc[u]
  BY <1>1 DEF TypeOK
<1>4. pc'[t] = IF s \in Live THEN "mint" ELSE "kill"
  BY <1>1 DEF Live, TypeOK
<1>5. Requests'
  <2> SUFFICES ASSUME NEW u \in Tabs
               PROVE /\ pc'[u] = "idle" => old[u] = NoId
                     /\ pc'[u] = "kill" \/ (pc'[u] = "bad" /\ old[u] # NoId) => Doomed(old[u])
                     /\ pc'[u] = "revoke" => old[u] \in Live' \/ Doomed(old[u])
                     /\ pc'[u] \in {"mint", "good"} => state'[old[u]] = "revoked"
                     /\ pc'[u] = "good" =>
                          /\ family[new[u]] = family[old[u]]
                          /\ new[u] \in Live' \/ Doomed(new[u])
    BY <1>1 DEF Requests, Doomed
  <2>1. CASE u = t
    BY <1>1, <1>2, <1>4, <2>1 DEF Requests
  <2>2. CASE u # t
    <3>1. pc[u] = "revoke" /\ old[u] = s => Doomed(old[u])
      BY <1>1, <2>2 DEF Rivals
    <3>2. pc[u] = "good" => new[u] # s
      BY DEF Owners
    <3>3. pc[u] \in {"mint", "good"} => old[u] \in Ids
      BY DEF Rows, TypeOK, NoId
    <3> QED
      BY <1>2, <1>3, <2>2, <3>1, <3>2, <3>3 DEF Requests
  <2> QED
    BY <2>1, <2>2
<1>6. Rivals'
  BY <1>1 DEF Rivals, Doomed
<1>7. Cookies'
  BY <1>1, <1>2 DEF Cookies, Doomed
<1>8. Lineage'
  <2>1. Minting \subseteq Minting'
    BY <1>1, <1>3 DEF Minting
  <2>2. s \in Live => family[s] \in Minting'
    BY <1>1, <1>4 DEF Minting
  <2>3. ASSUME NEW r \in 1..count
        PROVE  Doomed(r) \/ family[r] \in Minting' \/ \E q \in Live' : family[q] = family[r]
    BY <1>2, <2>1, <2>2 DEF Lineage
  <2> QED
    BY <1>1, <2>3 DEF Lineage, Doomed
<1>9. Holders'
  <2>1. \A u \in Tabs : pc[u] = "good" => pc'[u] = "good"
    BY <1>1, <1>3
  <2> QED
    BY <1>1, <1>2, <2>1 DEF Holders, Doomed
<1> QED
  BY <1>5, <1>6, <1>7, <1>8, <1>9

LEMMA RefreshMintReasons ==
    ASSUME TypeOK, Rows, Reasons, NEW t \in Tabs, RefreshMint(t) PROVE Reasons'
<1> USE SessionsAssumption DEF Reasons
<1> DEFINE n == count + 1
<1>1. /\ n \in Ids /\ count' = n /\ count \in Nat
      /\ old[t] \in 1..count /\ pc[t] = "mint"
      /\ state' = [state EXCEPT ![n] = "live"]
      /\ family' = [family EXCEPT ![n] = family[old[t]]]
      /\ UNCHANGED <<old, cookie, ended, doomed>>
      /\ pc' = [pc EXCEPT ![t] = "good"] /\ new' = [new EXCEPT ![t] = n]
  <2>1. count \in Nat
    BY DEF TypeOK
  <2>2. UNCHANGED doomed
    BY DEF RefreshMint, historyVars
  <2> QED
    BY <2>1, <2>2, RefreshMintIs
<1>2. /\ \A s \in 1..count : s \in Ids /\ s # n /\ state'[s] = state[s] /\ family'[s] = family[s]
      /\ state'[n] = "live" /\ family'[n] = family[old[t]] /\ n \in Live'
      /\ \A s \in Live' : s \in Live \/ s = n
      /\ \A s \in Live : s \in 1..count /\ s \in Live'
  BY <1>1 DEF Rows, Live, TypeOK, Ids
<1>3. \A u \in Tabs :
        /\ old[u] # NoId => old[u] \in 1..count
        /\ pc[u] \in {"revoke", "kill", "mint", "good"} => old[u] # NoId
        /\ pc[u] = "good" => new[u] \in 1..count
  BY DEF Rows, TypeOK, NoId
<1>4. /\ \A u \in Tabs : u # t => pc'[u] = pc[u] /\ new'[u] = new[u]
      /\ pc'[t] = "good" /\ new'[t] = n
  BY <1>1 DEF TypeOK
<1>5. Requests'
  <2> SUFFICES ASSUME NEW u \in Tabs
               PROVE /\ pc'[u] = "idle" => old[u] = NoId
                     /\ pc'[u] = "kill" \/ (pc'[u] = "bad" /\ old[u] # NoId) =>
                          family'[old[u]] \in doomed
                     /\ pc'[u] = "revoke" => old[u] \in Live' \/ family'[old[u]] \in doomed
                     /\ pc'[u] \in {"mint", "good"} => state'[old[u]] = "revoked"
                     /\ pc'[u] = "good" =>
                          /\ family'[new'[u]] = family'[old[u]]
                          /\ new'[u] \in Live' \/ family'[new'[u]] \in doomed
    BY <1>1 DEF Requests, Doomed
  <2>1. CASE u = t
    BY <1>1, <1>2, <1>4, <2>1 DEF Requests
  <2>2. CASE u # t
    BY <1>2, <1>3, <1>4, <2>2 DEF Requests, Doomed
  <2> QED
    BY <2>1, <2>2
<1>6. Rivals'
  BY <1>1, <1>2, <1>3 DEF Rivals, Doomed
<1>7. Cookies'
  <2>1. \A b \in Browsers : cookie[b] # NoId => cookie[b] \in 1..count
    BY DEF Rows, TypeOK, NoId
  <2> QED
    BY <1>1, <1>2, <2>1 DEF Cookies, Doomed
<1>8. Lineage'
  <2>1. ASSUME NEW s \in 1..n
        PROVE  \/ family'[s] \in doomed \/ family'[s] \in Minting'
               \/ \E r \in Live' : family'[r] = family'[s]
    <3>1. CASE s = n
      BY <1>2, <3>1
    <3>2. CASE s \in 1..count
      <4>1. family[s] \in Minting => family[s] \in Minting' \/ family[s] = family'[n]
        BY <1>1, <1>2, <1>3, <1>4 DEF Minting
      <4> QED
        BY <1>2, <3>2, <4>1 DEF Lineage, Doomed
    <3> QED
      BY <1>1, <3>1, <3>2
  <2>2. ended' \subseteq doomed' /\ doomed' \subseteq 1..count'
    BY <1>1 DEF Lineage
  <2> QED
    BY <1>1, <2>1, <2>2 DEF Lineage, Doomed
<1>9. Holders'
  <2>1. \A u \in Tabs : pc[u] = "good" => pc'[u] = "good" /\ new'[u] = new[u]
    BY <1>1, <1>4
  <2> QED
    BY <1>1, <1>2, <1>4, <2>1 DEF Holders, Doomed
<1> QED
  BY <1>5, <1>6, <1>7, <1>8, <1>9

LEMMA ReplyReasons ==
    ASSUME TypeOK, Rows, Owners, Reasons, NEW t \in Tabs, Reply(t) PROVE Reasons'
<1> USE SessionsAssumption DEF Reasons
<1> DEFINE b0 == BrowserOf[t]
           c == cookie[b0]
           s == IF pc[t] = "good" THEN new[t] ELSE NoId
<1>1. /\ UNCHANGED <<count, state, family, ended>> /\ b0 \in Browsers
      /\ pc[t] \in {"good", "bad"}
      /\ pc' = [pc EXCEPT ![t] = "idle"]
      /\ old' = [old EXCEPT ![t] = NoId] /\ new' = [new EXCEPT ![t] = NoId]
      /\ cookie' = [cookie EXCEPT ![b0] = s]
      /\ doomed' = doomed \cup (IF c \notin {old[t], NoId} THEN {family[c]} ELSE {})
  BY DEF Reply, Goto, Doom, sessionVars
<1>2. /\ \A u \in Tabs : u # t => pc'[u] = pc[u] /\ old'[u] = old[u] /\ new'[u] = new[u]
      /\ pc'[t] = "idle" /\ old'[t] = NoId
      /\ \A b \in Browsers : cookie'[b] = IF b = b0 THEN s ELSE cookie[b]
      /\ Live' = Live
  BY <1>1 DEF Live, TypeOK
<1>3. doomed \subseteq doomed' /\ doomed' \subseteq 1..count
  <2>1. c # NoId => family[c] \in 1..count
    BY <1>1 DEF Rows, TypeOK, NoId
  <2> QED
    BY <1>1, <2>1 DEF Lineage
<1>4. Requests'
  BY <1>1, <1>2, <1>3 DEF Requests, Doomed
<1>5. Rivals'
  BY <1>1, <1>2, <1>3 DEF Rivals, Doomed
<1>6. Cookies'
  <2> SUFFICES ASSUME NEW b \in Browsers, cookie'[b] # NoId
               PROVE  \/ cookie'[b] \in Live \/ family[cookie'[b]] \in doomed'
                      \/ \E u \in Tabs : old'[u] = cookie'[b]
    BY <1>1, <1>2 DEF Cookies, Doomed
  <2>1. CASE b = b0
    BY <1>2, <1>3, <2>1 DEF Requests, Doomed
  <2>2. CASE b # b0
    <3>1. old[t] # cookie[b]
      BY <1>2, <2>2 DEF Owners
    <3>2. cookie'[b] = cookie[b]
      BY <1>2, <2>2
    <3>3. \/ cookie[b] \in Live \/ family[cookie[b]] \in doomed
          \/ \E u \in Tabs : old[u] = cookie[b]
      BY <3>2 DEF Cookies, Doomed
    <3> HIDE DEF Reasons, b0, c, s
    <3>4. \A u \in Tabs : old[u] = cookie[b] => old'[u] = cookie[b]
      BY <1>2, <3>1
    <3> QED
      BY <1>3, <3>2, <3>3, <3>4
  <2> QED
    BY <2>1, <2>2
<1>7. Lineage'
  <2>1. \A f : f \in Minting => f \in Minting'
    BY <1>1, <1>2 DEF Minting
  <2> QED
    BY <1>1, <1>2, <1>3, <2>1 DEF Lineage, Doomed
<1>8. Holders'
  <2> SUFFICES ASSUME NEW r \in Live
               PROVE  \/ family[r] \in doomed'
                      \/ \E b \in Browsers : cookie'[b] = r
                      \/ \E u \in Tabs : pc'[u] = "good" /\ new'[u] = r
    BY <1>1, <1>2 DEF Holders, Doomed
  <2>1. ASSUME NEW b \in Browsers, cookie[b] = r
        PROVE  family[r] \in doomed' \/ cookie'[b] = r
    <3>1. r # NoId /\ state[r] = "live"
      BY DEF Live, Ids, NoId
    <3>2. CASE b # b0
      BY <1>2, <2>1, <3>2
    <3>3. CASE b = b0 /\ c # old[t]
      BY <1>1, <2>1, <3>1, <3>3
    <3>4. CASE b = b0 /\ c = old[t]
      <4>1. pc[t] = "bad"
        BY <1>1, <2>1, <3>1, <3>4 DEF Requests
      <4> QED
        BY <1>3, <2>1, <3>1, <3>4, <4>1 DEF Requests, Doomed
    <3> QED
      BY <3>2, <3>3, <3>4
  <2>2. ASSUME NEW u \in Tabs, pc[u] = "good", new[u] = r
        PROVE  \/ \E b \in Browsers : cookie'[b] = r
               \/ pc'[u] = "good" /\ new'[u] = r
    BY <1>1, <1>2, <2>2
  <2> QED
    BY <1>3, <2>1, <2>2 DEF Holders, Doomed
<1> QED
  BY <1>4, <1>5, <1>6, <1>7, <1>8

\* The steps that leave sign-in undisturbed.
LEMMA QuietSignIn ==
    ASSUME TypeOK, Rows, OneHeir, Reasons,
           \/ EndpointStep \/ Failure \/ VerifierStep \/ UNCHANGED vars
           \/ \E t \in Tabs : RefreshKill(t)
    PROVE  SignInUndisturbed
<1> USE SessionsAssumption DEF Reasons
<1>0. doomed \subseteq 1..count /\ ended \subseteq doomed
  BY DEF Lineage
<1>1. CASE EndpointStep
  <2>1. PICK p, S, F : p \in Replicas /\ Revocation(p, S, F)
    BY <1>1, EndpointRevokes
  <2>2. /\ UNCHANGED <<count, family, cookie, old, new>>
        /\ doomed' = doomed \cup F /\ ended' = ended \cup F /\ F \subseteq 1..count
        /\ state' = [s \in Ids |-> IF s \in S /\ state[s] = "live" THEN "revoked" ELSE state[s]]
        /\ \A s \in Live : s \in S <=> family[s] \in F
        /\ \A t \in Tabs : pc'[t] = pc[t] \/ (pc[t] = "idle" /\ pc'[t] = "bad")
    BY <2>1 DEF Revocation, Revoke, Flip, End, Doom
  <2>3. \A t \in Tabs : pc[t] = "idle" => old[t] = NoId
    BY DEF Requests
  <2>4. \A s \in Ids :
          /\ state[s] = "revoked" => state'[s] = "revoked"
          /\ state'[s] = "live" => state[s] = "live"
          /\ state[s] = "live" => state'[s] = "live" \/ family[s] \in doomed'
    BY <2>2 DEF Live
  <2> QED
    BY <1>0, <2>2, <2>3, <2>4 DEF SignInUndisturbed
<1>2. CASE Failure
  <2>1. /\ UNCHANGED <<count, state, family, cookie, ended>>
        /\ doomed \subseteq doomed' /\ doomed' \subseteq 1..count
    BY <1>0, <1>2, FailureIs DEF sessionVars
  <2>2. ASSUME NEW t \in Tabs, RefreshFails(t), NEW u \in Tabs
        PROVE  \/ pc'[u] = pc[u] /\ old'[u] = old[u] /\ new'[u] = new[u]
               \/ /\ pc'[u] = "bad" /\ old'[u] = old[u]
                  /\ old[u] # NoId => family[old[u]] \in doomed'
    BY <2>2 DEF RefreshFails, Goto, Doom, TypeOK
  <2>3. ASSUME NEW t \in Tabs, Vanish(t), NEW u \in Tabs
        PROVE  \/ pc'[u] = pc[u] /\ old'[u] = old[u] /\ new'[u] = new[u]
               \/ /\ pc'[u] = "idle" /\ old'[u] = NoId
                  /\ old[u] # NoId => state'[old[u]] = "live" \/ family[old[u]] \in doomed'
                  /\ pc[u] \in {"mint", "good"} => family[old[u]] \in doomed'
    <3>1. CASE u # t
      BY <2>3, <3>1 DEF Vanish, Goto, TypeOK
    <3>2. CASE u = t
      <4>1. pc'[u] = "idle" /\ old'[u] = NoId
        BY <2>3, <3>2 DEF Vanish, Goto, TypeOK
      <4>2. old[u] # NoId => state[old[u]] \in {"live", "revoked"}
        BY DEF Rows, TypeOK, NoId
      <4>3. old[u] # NoId /\ state[old[u]] = "revoked" => family[old[u]] \in doomed'
        BY <2>3, <3>2 DEF Vanish, Doom
      <4>4. pc[u] \in {"mint", "good"} => old[u] # NoId /\ state[old[u]] = "revoked"
        BY DEF Rows, Requests
      <4> QED
        BY <2>1, <4>1, <4>2, <4>3, <4>4
    <3> QED
      BY <3>1, <3>2
  <2>4. ASSUME NEW t \in Tabs, NEW p \in Replicas, Logout(t, p), NEW u \in Tabs
        PROVE  /\ old'[u] = old[u] /\ new'[u] = new[u]
               /\ pc'[u] = pc[u] \/ (pc'[u] = "bad" /\ old[u] = NoId)
    BY <2>4 DEF Logout, Goto, Requests, TypeOK
  <2> QED
    BY <1>0, <1>2, <2>1, <2>2, <2>3, <2>4 DEF Failure, SignInUndisturbed
<1>3. CASE VerifierStep
  BY <1>0, <1>3, VerifierIs DEF requestVars, SignInUndisturbed
<1>4. CASE UNCHANGED vars
  BY <1>0, <1>4 DEF vars, sessionVars, requestVars, historyVars, SignInUndisturbed
<1>5. ASSUME NEW t \in Tabs, RefreshKill(t) PROVE SignInUndisturbed
  <2>1. /\ old[t] # NoId /\ family[old[t]] \in doomed
        /\ UNCHANGED <<count, family, cookie, old, new, doomed>>
        /\ pc' = [pc EXCEPT ![t] = "bad"]
        /\ \/ Flip(InFamily(family[old[t]])) /\ ended' = ended \cup {family[old[t]]}
           \/ UNCHANGED <<state, ended>>
    BY <1>5 DEF RefreshKill, Goto, End, Requests, Rows, Doomed
  <2>2. \A s \in Ids :
          /\ state[s] = "revoked" => state'[s] = "revoked"
          /\ state'[s] = "live" => state[s] = "live"
          /\ state[s] = "live" => state'[s] = "live" \/ family[s] \in doomed
    BY <2>1 DEF Flip, InFamily
  <2>3. \A u \in Tabs : pc'[u] = pc[u] \/ (pc'[u] = "bad" /\ u = t)
    BY <2>1 DEF TypeOK
  <2> QED
    BY <1>0, <2>1, <2>2, <2>3 DEF SignInUndisturbed
<1> QED
  BY <1>1, <1>2, <1>3, <1>4, <1>5

LEMMA ReasonsStep ==
    TypeOK /\ Rows /\ OneHeir /\ Owners /\ Reasons /\ [Next]_vars => Reasons'
BY QuietSignIn, ReasonsFrame, LoginReasons, RefreshReadReasons, RefreshRevokeReasons,
   RefreshMintReasons, ReplyReasons, NextIs

-----------------------------------------------------------------------------
(* The theorems                                                            *)

LEMMA SessionInit == Init => SessionInv
<1> SUFFICES ASSUME Init PROVE SessionInv
  OBVIOUS
<1> USE SessionsAssumption
<1>1. TypeOK
  BY DEF Init, TypeOK, PCs, Stale
<1>2. Rows
  BY DEF Init, Rows, Ids, NoId
<1>3. OneHeir /\ Ends
  BY DEF Init, OneHeir, Ends, Live
<1>4. Beliefs
  BY DEF Init, Beliefs
<1>5. Owners
  BY DEF Init, Owners
<1>6. Reasons
  BY DEF Init, Reasons, Requests, Rivals, Cookies, Lineage, Holders, Live, NoId
<1> QED
  BY <1>1, <1>2, <1>3, <1>4, <1>5, <1>6 DEF SessionInv

LEMMA SessionStep == SessionInv /\ [Next]_vars => SessionInv'
BY TypeStep, RowsStep, OneHeirStep, EndsStep, BeliefsStep, OwnersStep, ReasonsStep DEF SessionInv

\* Sessions, cookies, requests and caches stay within their types; in particular a
\* revoked session is believed live for a bounded time.
THEOREM SessionsTyped == Spec => []TypeOK
<1>1. SessionInv => TypeOK
  BY DEF SessionInv
<1> QED
  BY <1>1, SessionInit, SessionStep, PTL DEF Spec

\* A set without two distinct members has at most one.
LEMMA AtMostOne ==
    ASSUME NEW S, \A x, y \in S : x = y
    PROVE  /\ Cardinality(S) \in {0, 1}
           /\ S = {} => Cardinality(S) = 0
<1>1. CASE S = {}
  BY <1>1, FS_EmptySet
<1>2. CASE S # {}
  <2>1. PICK x \in S : TRUE
    BY <1>2
  <2>2. S = {x}
    BY <2>1
  <2> QED
    BY <2>2, FS_Singleton
<1> QED
  BY <1>1, <1>2

\* However many tabs present the same refresh token, it has one successor at most.
THEOREM OneSuccessorPerToken == Spec => []OneSuccessor
<1>1. SessionInv => OneSuccessor
  <2> SUFFICES ASSUME SessionInv, NEW f \in Family
               PROVE  Cardinality(InFamily(f) \cap Live)
                        + Cardinality({t \in Tabs : pc[t] = "mint" /\ family[old[t]] = f}) <= 1
    BY DEF OneSuccessor
  <2> DEFINE L == InFamily(f) \cap Live
             M == {t \in Tabs : pc[t] = "mint" /\ family[old[t]] = f}
  <2>1. \A x, y \in L : x = y
    BY DEF SessionInv, OneHeir, InFamily
  <2>2. \A x, y \in M : x = y
    BY DEF SessionInv, OneHeir
  <2>3. L = {} \/ M = {}
    BY DEF SessionInv, OneHeir, InFamily
  <2> HIDE DEF L, M
  <2>4. /\ Cardinality(L) \in {0, 1} /\ Cardinality(M) \in {0, 1}
        /\ L = {} => Cardinality(L) = 0
        /\ M = {} => Cardinality(M) = 0
    BY <2>1, <2>2, AtMostOne
  <2>5. Cardinality(L) + Cardinality(M) <= 1
    BY <2>3, <2>4
  <2> QED
    BY <2>5 DEF L, M
<1> QED
  BY <1>1, SessionInit, SessionStep, PTL DEF Spec

\* A family that was signed out, reset or caught reusing a token is over, unless a
\* refresh was between its two writes.
THEOREM EndedFamiliesStayEnded == Spec => []EndedStaysEnded
<1>1. SessionInv => EndedStaysEnded
  BY DEF SessionInv, Ends, EndedStaysEnded
<1> QED
  BY <1>1, SessionInit, SessionStep, PTL DEF Spec

\* A revoked session is honoured from a cache for a bounded time, and not at all on
\* the replica that busted it.
THEOREM RevocationsTakeEffect == Spec => []HonouredBriefly
<1>1. SessionInv => HonouredBriefly
  BY DEF SessionInv, Beliefs, HonouredBriefly
<1> QED
  BY <1>1, SessionInit, SessionStep, PTL DEF Spec

\* Whatever crashes, fails or races, a family nobody signed out goes on, and its browser
\* holds its last session or is about to be given it, unless one of the reasons the
\* property lists befell that very family.
THEOREM SignedInUntilAReason == Spec => []StaysSignedIn
<1>1. SessionInv => StaysSignedIn
  <2> SUFFICES ASSUME SessionInv PROVE StaysSignedIn
    OBVIOUS
  <2> USE SessionsAssumption DEF SessionInv, Reasons
  <2>1. \A s \in 1..count : \/ family[s] \in doomed \cup Minting
                            \/ InFamily(family[s]) \cap Live # {}
    BY DEF Lineage, Doomed, InFamily, Live
  <2>2. \A s \in Live : \/ family[s] \in doomed
                        \/ \E b \in Browsers : cookie[b] = s
                        \/ \E t \in Tabs : pc[t] = "good" /\ new[t] = s
    BY DEF Holders, Doomed
  <2>3. ASSUME NEW b \in Browsers, cookie[b] # NoId, ~Presented(cookie[b])
        PROVE  cookie[b] \in Live \/ family[cookie[b]] \in doomed
    <3>1. \A t \in Tabs : old[t] # cookie[b]
      BY <2>3 DEF Presented, Requests
    <3> QED
      BY <2>3, <3>1 DEF Cookies, Doomed
  <2> QED
    BY <2>1, <2>2, <2>3 DEF StaysSignedIn
<1> QED
  BY <1>1, SessionInit, SessionStep, PTL DEF Spec
=============================================================================

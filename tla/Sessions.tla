------------------------------ MODULE Sessions ------------------------------
(***************************************************************************)
(* Sign-in sessions of one user: refresh-token rotation and its reuse      *)
(* detection (app/identity/service.go), the revocations of the session     *)
(* endpoints (app/identity/handler.go), the per-process cache of the       *)
(* access-token verifier (app/identity/verifier.go), and the browsers that *)
(* share one cookie jar between tabs (web/src/store/empty-api.ts).         *)
(*                                                                         *)
(* Refresh is not one transaction: the read of the session, its            *)
(* revocation, the insert of the successor and the reply are steps of      *)
(* their own.  A family is named by its first session.                     *)
(***************************************************************************)
EXTENDS Integers, FiniteSets

CONSTANTS
    Browsers,      \* cookie jars
    Tabs,          \* tabs; each has at most one refresh under way
    BrowserOf,     \* the jar a tab uses
    Replicas,      \* API processes, each with its own verifier cache
    CacheTTL,      \* SESSION_CACHE_TTL, in ticks
    LoadTime,      \* longest a verifier holds an auth state it has read
    MaxSessions,   \* bound: session rows ever created
    MaxFaults,     \* bound: crashes, lost replies, failed statements
    MaxChurn,      \* bound: sign-outs, resets, revocations, expiries
    MaxLoads       \* bound: cache misses of the verifiers

ASSUME SessionsAssumption ==
    /\ BrowserOf \in [Tabs -> Browsers]
    /\ CacheTTL \in Nat /\ LoadTime \in Nat
    /\ MaxSessions \in Nat \ {0} /\ MaxFaults \in Nat /\ MaxChurn \in Nat
    /\ MaxLoads \in Nat

Ids    == 1..MaxSessions
NoId   == 0
Family == Ids
Stale  == CacheTTL + LoadTime

VARIABLES
    \* sessions
    count,      \* rows created so far
    state,      \* "none", "live" (revoked_at IS NULL) or "revoked"
    family,     \* family_id
    expired,    \* rows past expires_at
    \* the clients
    cookie,     \* refresh cookie of a browser
    access,     \* session named by the access token a tab holds
    \* Refresh and sign-out requests: control point, token presented, token minted
    pc, old, new,
    \* SessionVerifier: time left of a cached live state, and of each read of one that is
    \* not cached yet
    cache, loading,
    toBust,     \* sessions a handler has revoked and not yet busted
    \* history
    since,      \* ticks since a session was revoked, while some replica still admits it
    ended,      \* families that were signed out, reset or caught reusing a token
    straggler,  \* of those, the ones last ended while a refresh was between its writes
    doomed,     \* families that were given a reason to be over
    busted,     \* sessions a replica has busted
    overlap,    \* of those, the ones it was loading at that moment
    faults, churn, loads

sessionVars == <<count, state, family, expired>>
requestVars == <<pc, old, new>>
cacheVars   == <<cache, loading, toBust>>
historyVars == <<since, ended, straggler, doomed, busted, overlap>>
budgetVars  == <<faults, churn, loads>>
vars == <<sessionVars, cookie, access, requestVars, cacheVars, historyVars, budgetVars>>

PCs == {"idle", "revoke", "kill", "mint", "good", "bad"}

TypeOK ==
    /\ count \in 0..MaxSessions
    /\ state \in [Ids -> {"none", "live", "revoked"}]
    /\ family \in [Ids -> Family \cup {NoId}]
    /\ expired \in SUBSET Ids
    /\ cookie \in [Browsers -> Ids \cup {NoId}]
    /\ access \in [Tabs -> Ids \cup {NoId}]
    /\ pc \in [Tabs -> PCs]
    /\ old \in [Tabs -> Ids \cup {NoId}]
    /\ new \in [Tabs -> Ids \cup {NoId}]
    /\ cache \in [Replicas -> [Ids -> 0..CacheTTL]]
    /\ loading \in [Replicas -> [Ids -> SUBSET (1..(LoadTime + 1))]]
    /\ toBust \in [Replicas -> SUBSET Ids]
    /\ since \in [Ids -> 0..(Stale + 1)]
    /\ ended \in SUBSET Family
    /\ straggler \in SUBSET Family
    /\ doomed \in SUBSET Family
    /\ busted \in [Replicas -> SUBSET Ids]
    /\ overlap \in [Replicas -> SUBSET Ids]
    /\ faults \in 0..MaxFaults
    /\ churn \in 0..MaxChurn
    /\ loads \in 0..MaxLoads

Init ==
    /\ count = 0
    /\ state = [s \in Ids |-> "none"]
    /\ family = [s \in Ids |-> NoId]
    /\ expired = {}
    /\ cookie = [b \in Browsers |-> NoId]
    /\ access = [t \in Tabs |-> NoId]
    /\ pc = [t \in Tabs |-> "idle"]
    /\ old = [t \in Tabs |-> NoId]
    /\ new = [t \in Tabs |-> NoId]
    /\ cache = [p \in Replicas |-> [s \in Ids |-> 0]]
    /\ loading = [p \in Replicas |-> [s \in Ids |-> {}]]
    /\ toBust = [p \in Replicas |-> {}]
    /\ since = [s \in Ids |-> 0]
    /\ ended = {}
    /\ straggler = {}
    /\ doomed = {}
    /\ busted = [p \in Replicas |-> {}]
    /\ overlap = [p \in Replicas |-> {}]
    /\ faults = MaxFaults
    /\ churn = MaxChurn
    /\ loads = MaxLoads

-----------------------------------------------------------------------------
(* Helpers                                                                 *)

Fault == faults > 0 /\ faults' = faults - 1 /\ UNCHANGED loads
Churn == churn > 0 /\ churn' = churn - 1 /\ UNCHANGED loads

Live    == {s \in Ids : state[s] = "live"}
InFamily(f) == {s \in Ids : family[s] = f}

\* Families with a refresh between the revocation of the old session and the
\* insert of the new one.
Minting == {family[old[t]] : t \in {u \in Tabs : pc[u] = "mint"}}

Goto(t, p) == pc' = [pc EXCEPT ![t] = p]

\* UPDATE sessions SET revoked_at ... WHERE revoked_at IS NULL RETURNING id, over
\* the rows of S.
Flip(S) == state' = [s \in Ids |-> IF s \in S /\ state[s] = "live" THEN "revoked" ELSE state[s]]

\* These families are meant to be over from now on.
End(F) ==
    /\ ended' = ended \cup F
    /\ straggler' = (straggler \ F) \cup (F \cap Minting)

\* The families of F have a reason to be over, sooner or later.
Doom(F) == doomed' = doomed \cup F

\* newSessionRow: CreateSession in family f, or in a new one.
CreateSession(f) ==
    /\ count < MaxSessions
    /\ count' = count + 1
    /\ state' = [state EXCEPT ![count + 1] = "live"]
    /\ family' = [family EXCEPT ![count + 1] = IF f = NoId THEN count + 1 ELSE f]

-----------------------------------------------------------------------------
(* Sign-in and refresh                                                     *)

\* StartSessionForUser and issueSession: a new family, the cookie and the access
\* token; or the reply is lost and the row is nobody's.
Login(t) ==
    LET s == cookie[BrowserOf[t]] IN
    /\ pc[t] = "idle"
    /\ CreateSession(NoId)
    /\ \/ /\ cookie' = [cookie EXCEPT ![BrowserOf[t]] = count + 1]
          /\ access' = [access EXCEPT ![t] = count + 1]
          /\ Doom(IF s # NoId THEN {family[s]} ELSE {})
          /\ UNCHANGED <<faults, loads>>
       \/ Fault /\ Doom({count + 1}) /\ UNCHANGED <<cookie, access>>
    /\ UNCHANGED <<expired, requestVars, cacheVars, since, ended, straggler, busted, overlap,
                   churn>>

\* Another request that presents the session's token is under way.
Presented(s) == \E u \in Tabs : pc[u] # "idle" /\ old[u] = s

\* Refresh: GetSessionByHash, then reuse detection on what was read.  A token that has
\* expired, or that two requests present at once, is a reason to end its family.
RefreshRead(t) ==
    LET s == cookie[BrowserOf[t]] IN
    /\ pc[t] = "idle" /\ s # NoId
    /\ Goto(t, IF state[s] = "revoked" \/ s \in expired THEN "kill" ELSE "revoke")
    /\ old' = [old EXCEPT ![t] = s]
    /\ Doom(IF s \in expired \/ Presented(s) THEN {family[s]} ELSE {})
    /\ UNCHANGED <<sessionVars, cookie, access, new, cacheVars, since, ended, straggler,
                   busted, overlap, budgetVars>>

\* Mutant: RevokeSession without "AND revoked_at IS NULL": every caller flips a row.
RefreshRevokeAny(t) ==
    LET s == old[t] IN
    /\ pc[t] = "revoke"
    /\ Flip({s})
    /\ Goto(t, "mint")
    /\ UNCHANGED <<count, family, expired, cookie, access, old, new, cacheVars,
                   historyVars, budgetVars>>

\* RevokeSession: the caller that flips the row goes on to mint its successor; the
\* one that finds it flipped has lost the race.
RefreshRevoke(t) ==
    LET s == old[t] IN
    /\ pc[t] = "revoke"
    /\ Flip({s})
    /\ Goto(t, IF state[s] = "live" THEN "mint" ELSE "kill")
    /\ UNCHANGED <<count, family, expired, cookie, access, old, new, cacheVars,
                   historyVars, budgetVars>>

\* Mutant: only the session presented is revoked, not its family.
RefreshKillOne(t) ==
    LET f == family[old[t]] IN
    /\ pc[t] = "kill"
    /\ Flip({old[t]})
    /\ End({f})
    /\ UNCHANGED <<faults, loads>>
    /\ Goto(t, "bad")
    /\ UNCHANGED <<count, family, expired, cookie, access, old, new, cacheVars,
                   since, doomed, busted, overlap, churn>>

\* Reuse: RevokeFamily, whose error is ignored, and nothing is busted.
RefreshKill(t) ==
    LET f == family[old[t]] IN
    /\ pc[t] = "kill"
    /\ \/ Flip(InFamily(f)) /\ End({f}) /\ UNCHANGED <<faults, loads>>
       \/ Fault /\ UNCHANGED <<state, ended, straggler>>
    /\ Goto(t, "bad")
    /\ UNCHANGED <<count, family, expired, cookie, access, old, new, cacheVars,
                   since, doomed, busted, overlap, churn>>

\* Mutant: Refresh returns the token it was given.
RefreshMintOld(t) ==
    /\ pc[t] = "mint"
    /\ CreateSession(family[old[t]])
    /\ new' = [new EXCEPT ![t] = old[t]]
    /\ Goto(t, "good")
    /\ UNCHANGED <<expired, cookie, access, old, cacheVars, historyVars, budgetVars>>

\* GetMember, then newSessionRow in the same family.
RefreshMint(t) ==
    /\ pc[t] = "mint"
    /\ CreateSession(family[old[t]])
    /\ new' = [new EXCEPT ![t] = count + 1]
    /\ Goto(t, "good")
    /\ UNCHANGED <<expired, cookie, access, old, cacheVars, historyVars, budgetVars>>

\* RevokeSession, GetMember, newSessionRow or GetUserByID fails: refresh answers
\* 401 and clears the cookies all the same.
RefreshFails(t) ==
    /\ pc[t] \in {"revoke", "mint", "good"}
    /\ Fault
    /\ Goto(t, "bad")
    /\ Doom({family[old[t]]})
    /\ UNCHANGED <<sessionVars, cookie, access, old, new, cacheVars, since, ended,
                   straggler, busted, overlap, churn>>

\* The reply reaches the browser: issueSession sets the cookie and the tab's access
\* token, any failure clears both, whatever another reply has put there meanwhile.
Reply(t) ==
    LET s == IF pc[t] = "good" THEN new[t] ELSE NoId
        c == cookie[BrowserOf[t]] IN
    /\ pc[t] \in {"good", "bad"}
    /\ Doom(IF c \notin {old[t], NoId} THEN {family[c]} ELSE {})
    /\ cookie' = [cookie EXCEPT ![BrowserOf[t]] = s]
    /\ access' = [access EXCEPT ![t] = s]
    /\ Goto(t, "idle")
    /\ old' = [old EXCEPT ![t] = NoId]
    /\ new' = [new EXCEPT ![t] = NoId]
    /\ UNCHANGED <<sessionVars, cacheVars, since, ended, straggler, busted, overlap,
                   budgetVars>>

\* A crash, a dropped connection: the request ends where it is and the browser keeps
\* the cookie it has, which may be a token that is spent.
Vanish(t) ==
    /\ pc[t] # "idle"
    /\ Fault
    /\ Goto(t, "idle")
    /\ old' = [old EXCEPT ![t] = NoId]
    /\ new' = [new EXCEPT ![t] = NoId]
    /\ Doom(IF old[t] # NoId /\ state[old[t]] = "revoked" THEN {family[old[t]]} ELSE {})
    /\ UNCHANGED <<sessionVars, cookie, access, cacheVars, since, ended, straggler,
                   busted, overlap, churn>>

-----------------------------------------------------------------------------
(* Sign-out, password reset and the session-management endpoints           *)

\* The tab's access token gets past SessionVerifier on replica p.
Admitted(t, p) ==
    LET s == access[t] IN
    s # NoId /\ s \notin expired /\ (cache[p][s] > 0 \/ state[s] = "live")

\* A handler on replica p has committed the revocation of the rows of S; Bust
\* follows.
Revoke(p, S, F) ==
    /\ Churn
    /\ Flip(S)
    /\ End(F) /\ Doom(F)
    /\ toBust' = [toBust EXCEPT ![p] = @ \cup (S \cap Live)]
    /\ UNCHANGED <<count, family, expired, cookie, access, cache, loading, since,
                   busted, overlap, faults>>

\* logout: RevokeFamily of the cookie's session.  The cookies are cleared even when it
\* fails, and the session is then nobody's.
Logout(t, p) ==
    LET s == cookie[BrowserOf[t]] IN
    /\ pc[t] = "idle" /\ s # NoId
    /\ \/ Revoke(p, InFamily(family[s]), {family[s]})
       \/ /\ Fault
          /\ UNCHANGED <<sessionVars, cookie, access, cacheVars, historyVars, churn>>
    /\ Goto(t, "bad")
    /\ UNCHANGED <<old, new>>

\* logoutAll: RevokeAllForUser; the cookies are cleared.
LogoutAll(t, p) ==
    /\ pc[t] = "idle" /\ Admitted(t, p)
    /\ Revoke(p, Ids, {family[s] : s \in 1..count})
    /\ Goto(t, "bad")
    /\ UNCHANGED <<old, new>>

\* resetPassword, by whoever holds the mailed token: setPasswordAndRevoke.
ResetPassword(p) ==
    /\ Revoke(p, Ids, {family[s] : s \in 1..count})
    /\ UNCHANGED requestVars

\* revokeSession: RevokeSessionOwned of a session the user picks from the list.
RevokeSession(t, p, s) ==
    /\ pc[t] = "idle" /\ Admitted(t, p)
    /\ state[s] = "live"
    /\ Revoke(p, {s}, {family[s]})
    /\ UNCHANGED requestVars

\* revokeOtherSessions: every session but the one the access token names.
RevokeOtherSessions(t, p) ==
    LET others == Ids \ {access[t]} IN
    /\ pc[t] = "idle" /\ Admitted(t, p)
    /\ Revoke(p, others, {family[s] : s \in others \cap Live})
    /\ UNCHANGED requestVars

\* bustSession for every revoked id.
Bust(p) ==
    /\ toBust[p] # {}
    /\ cache' = [cache EXCEPT ![p] = [s \in Ids |-> IF s \in toBust[p] THEN 0 ELSE @[s]]]
    /\ busted' = [busted EXCEPT ![p] = @ \cup toBust[p]]
    /\ overlap' = [overlap EXCEPT ![p] = @ \cup {s \in toBust[p] : loading[p][s] # {}}]
    /\ toBust' = [toBust EXCEPT ![p] = {}]
    /\ UNCHANGED <<sessionVars, cookie, access, requestVars, loading, since, ended,
                   straggler, doomed, budgetVars>>

-----------------------------------------------------------------------------
(* SessionVerifier.load, and time                                          *)

\* A cache miss reads the auth state; only a live one matters.  Requests that miss
\* together read it each.
LoadRead(p, s) ==
    /\ cache[p][s] = 0 /\ state[s] = "live"
    /\ \E t \in Tabs : access[t] = s
    /\ loads > 0 /\ loads' = loads - 1
    /\ loading' = [loading EXCEPT ![p][s] = @ \cup {LoadTime + 1}]
    /\ UNCHANGED <<sessionVars, cookie, access, requestVars, cache, toBust,
                   historyVars, faults, churn>>

\* Mutant: every request that finds the entry renews it.
LoadPutRenews(p, s) ==
    /\ cache' = [cache EXCEPT ![p][s] = CacheTTL]
    /\ \/ \E n \in loading[p][s] : loading' = [loading EXCEPT ![p][s] = @ \ {n}]
       \/ cache[p][s] > 0 /\ (\E t \in Tabs : access[t] = s) /\ UNCHANGED loading
    /\ UNCHANGED <<sessionVars, cookie, access, requestVars, toBust, historyVars,
                   budgetVars>>

\* A state that was read is cached for CacheTTL, whatever has happened since.
LoadPut(p, s) ==
    /\ cache' = [cache EXCEPT ![p][s] = CacheTTL]
    /\ \E n \in loading[p][s] : loading' = [loading EXCEPT ![p][s] = @ \ {n}]
    /\ UNCHANGED <<sessionVars, cookie, access, requestVars, toBust, historyVars,
                   budgetVars>>

Countdown(n) == IF n > 0 THEN n - 1 ELSE n

\* Some replica has an entry or a read that says the session is live.
Held(s) == \E p \in Replicas : cache[p][s] > 0 \/ loading[p][s] # {}

\* Time passes.  No read is held for longer than LoadTime.
Tick ==
    /\ \A p \in Replicas, s \in Ids : 1 \notin loading[p][s]
    /\ cache' = [p \in Replicas |-> [s \in Ids |-> Countdown(cache[p][s])]]
    /\ loading' = [p \in Replicas |-> [s \in Ids |-> {n - 1 : n \in loading[p][s]}]]
    /\ since' = [s \in Ids |-> IF state[s] = "revoked" /\ Held(s) THEN since[s] + 1 ELSE 0]
    /\ UNCHANGED <<sessionVars, cookie, access, requestVars, toBust, ended, straggler,
                   doomed, busted, overlap, budgetVars>>

\* A session reaches expires_at.
Expire(s) ==
    /\ state[s] # "none" /\ s \notin expired
    /\ Churn
    /\ expired' = expired \cup {s}
    /\ UNCHANGED <<count, state, family, cookie, access, requestVars, cacheVars,
                   historyVars, faults>>

-----------------------------------------------------------------------------
Refresh(t) == RefreshRevoke(t) \/ RefreshKill(t) \/ RefreshMint(t) \/ Reply(t)

Next ==
    \/ \E t \in Tabs : Login(t) \/ RefreshRead(t) \/ Refresh(t) \/ RefreshFails(t)
                         \/ Vanish(t)
    \/ \E t \in Tabs, p \in Replicas :
         Logout(t, p) \/ LogoutAll(t, p) \/ RevokeOtherSessions(t, p)
    \/ \E t \in Tabs, p \in Replicas, s \in Ids : RevokeSession(t, p, s)
    \/ \E p \in Replicas : ResetPassword(p) \/ Bust(p)
    \/ \E p \in Replicas, s \in Ids : LoadRead(p, s) \/ LoadPut(p, s)
    \/ \E s \in Ids : Expire(s)
    \/ Tick

Spec == Init /\ [][Next]_vars

-----------------------------------------------------------------------------
(* Properties                                                              *)

\* A refresh token has at most one successor: however many tabs present the same
\* token at once, a family never has two live sessions, nor one live session and
\* another refresh about to insert one.
OneSuccessor ==
    \A f \in Family :
      Cardinality(InFamily(f) \cap Live)
        + Cardinality({t \in Tabs : pc[t] = "mint" /\ family[old[t]] = f}) <= 1

\* A family that was signed out, reset or caught reusing a token has no live
\* session any more, unless a refresh had revoked the old session and not yet
\* inserted the new one when that last happened: the revocation finds nothing to revoke.
EndedStaysEnded == \A s \in Live : family[s] \in ended => family[s] \in straggler

\* A revoked session is admitted from a cache for CacheTTL at most, counted from the
\* latest moment its state can have been stored; on the replica that revoked it not at
\* all once it was busted, unless that replica was reading its state at that moment.
HonouredBriefly ==
    \A p \in Replicas, s \in Ids :
      (cache[p][s] > 0 /\ state[s] = "revoked") =>
        /\ cache[p][s] + since[s] <= Stale
        /\ s \in busted[p] => s \in overlap[p]

\* A family nobody signed out has a live session, or a refresh about to insert one; some
\* browser has that session's token or is about to be given it; and a browser at rest has
\* no token that is spent.  The exceptions are of this very family: two requests presented
\* a token at once (two tabs are enough), a token was presented after it had expired, a
\* request failed, or broke off with the token it presented spent, or a later sign-in, or
\* the reply to an older request, took the token's place in the browser.
StaysSignedIn ==
    /\ \A s \in 1..count :
         \/ family[s] \in doomed \cup Minting
         \/ InFamily(family[s]) \cap Live # {}
    /\ \A s \in Live :
         \/ family[s] \in doomed
         \/ \E b \in Browsers : cookie[b] = s
         \/ \E t \in Tabs : pc[t] = "good" /\ new[t] = s
    /\ \A b \in Browsers :
         LET s == cookie[b] IN
         s # NoId /\ ~Presented(s) => s \in Live \/ family[s] \in doomed
=============================================================================

------------------------------ MODULE Identity ------------------------------
(***************************************************************************)
(* ClaimService, PasskeyService, SessionService and the routes that call   *)
(* them, over one PostgreSQL store.  A challenge or code is spent by one   *)
(* atomic UPDATE; everything a request does afterwards is a statement of   *)
(* its own, on values read before it, while other requests run.            *)
(*                                                                         *)
(* A request that is refused without writing is not a step when it has     *)
(* done nothing yet, and a return to "idle" when it is under way.  Who may *)
(* know a code, a cookie or a key is the world's business: any request may *)
(* present any of them.  Whether a WebAuthn signature verifies is left     *)
(* open, except for the comparison of counters.  SessionService.rotate is  *)
(* no step: the digest it passes for the UUID column rotated_from aborts   *)
(* the transaction.                                                        *)
(***************************************************************************)
EXTENDS Naturals

CONSTANTS
  Accounts,
  Challenges,  \* auth_challenges rows that may be created
  Keys,        \* WebAuthn credential ids
  Tokens,      \* session tokens
  Requests,    \* HTTP requests in progress
  MaxCounter,  \* bound: the largest signature counter
  None

Purposes == {"register_passkey", "authenticate", "claim_account", "recovery"}

ASSUME IdentityAssumption ==
  /\ MaxCounter \in Nat
  /\ None \notin Accounts \cup Challenges \cup Keys \cup Purposes

VARIABLES
  status,     \* accounts.status
  challenge,  \* auth_challenges
  passkey,    \* passkey_credentials
  session,    \* sessions
  req         \* each request: where it is and what it holds

vars == <<status, challenge, passkey, session, req>>

Statuses == {"pending_claim", "active", "suspended"}
Steps    == {"idle", "resolve", "insertChallenge", "consume", "addPasskey",
             "getPasskey", "updateCounter", "getAccount", "activate", "createSession"}

Challenge == [state : {"absent", "open", "expired", "consumed"},
              purpose : Purposes \cup {None}, account : Accounts \cup {None}]

(* by is history: the challenge that was spent for a passkey or a session, *)
(* and the passkey a login used.  The table does not keep them.            *)
Passkey == [state : {"absent", "active", "revoked"}, account : Accounts \cup {None},
            counter : 0..MaxCounter, by : Challenges \cup {None}]
Session == [state : {"absent", "live", "expired", "revoked"},
            account : Accounts \cup {None}, by : Challenges \cup {None},
            key : Keys \cup {None}]

Request == [at : Steps, purpose : Purposes \cup {None}, account : Accounts \cup {None},
            challenge : Challenges \cup {None}, key : Keys \cup {None},
            counter : 0..MaxCounter]

NoChallenge == [state |-> "absent", purpose |-> None, account |-> None]
NoPasskey   == [state |-> "absent", account |-> None, counter |-> 0, by |-> None]
NoSession   == [state |-> "absent", account |-> None, by |-> None, key |-> None]
Idle        == [at |-> "idle", purpose |-> None, account |-> None,
                challenge |-> None, key |-> None, counter |-> 0]

Init ==
  /\ status = [a \in Accounts |-> "pending_claim"]
  /\ challenge = [c \in Challenges |-> NoChallenge]
  /\ passkey = [k \in Keys |-> NoPasskey]
  /\ session = [t \in Tokens |-> NoSession]
  /\ req = [r \in Requests |-> Idle]

Refuse(r)   == req' = [req EXCEPT ![r] = Idle]
GoTo(r, st) == req' = [req EXCEPT ![r].at = st]

-----------------------------------------------------------------------------
(* Creating challenges and codes.                                          *)

(* createClaimCode looks at nothing before it inserts the code.            *)
AskClaimCode(r, a) ==
  /\ req[r] = Idle
  /\ req' = [req EXCEPT ![r] = [Idle EXCEPT
       !.at = "insertChallenge", !.purpose = "claim_account", !.account = a]]
  /\ UNCHANGED <<status, challenge, passkey, session>>

AskRecoveryCode(r, a) ==
  /\ req[r] = Idle
  /\ status[a] = "active"
  /\ req' = [req EXCEPT ![r] = [Idle EXCEPT
       !.at = "insertChallenge", !.purpose = "recovery", !.account = a]]
  /\ UNCHANGED <<status, challenge, passkey, session>>

(* A login may name its account, which must then have an active passkey.   *)
StartAuthentication(r, a) ==
  /\ req[r] = Idle
  /\ a # None => \E k \in Keys : passkey[k].state = "active" /\ passkey[k].account = a
  /\ req' = [req EXCEPT ![r] = [Idle EXCEPT
       !.at = "insertChallenge", !.purpose = "authenticate", !.account = a]]
  /\ UNCHANGED <<status, challenge, passkey, session>>

InsertChallenge(r) ==
  /\ req[r].at = "insertChallenge"
  /\ \E c \in Challenges :
       /\ challenge[c].state = "absent"
       /\ challenge' = [challenge EXCEPT ![c] =
            [state |-> "open", purpose |-> req[r].purpose, account |-> req[r].account]]
  /\ Refuse(r)
  /\ UNCHANGED <<status, passkey, session>>

ChallengeExpires(c) ==
  /\ challenge[c].state = "open"
  /\ challenge' = [challenge EXCEPT ![c].state = "expired"]
  /\ UNCHANGED <<status, passkey, session, req>>

-----------------------------------------------------------------------------
(* getActorFromSession: the session, then the status of its account.  Both *)
(* registration routes start with it and act for the session's account.    *)

Validate(r, t) ==
  /\ req[r] = Idle
  /\ session[t].state = "live"
  /\ req' = [req EXCEPT ![r] = [Idle EXCEPT
       !.at = "resolve", !.purpose = "register_passkey", !.account = session[t].account]]
  /\ UNCHANGED <<status, challenge, passkey, session>>

(* The request goes on to startRegistration or to finishRegistration.      *)
ResolveActor(r) ==
  /\ req[r].at = "resolve"
  /\ \/ /\ status[req[r].account] = "active"
        /\ GoTo(r, "insertChallenge") \/ GoTo(r, "consume")
     \/ /\ status[req[r].account] # "active"
        /\ Refuse(r)
  /\ UNCHANGED <<status, challenge, passkey, session>>

-----------------------------------------------------------------------------
(* Spending a challenge: whatever it was made for, it is gone.             *)

\* mutant: consumeChallenge without consumed_at IS NULL
ConsumableTwice(c) == challenge[c].state \in {"open", "consumed"}
Consumable(c) == challenge[c].state = "open"
Consumed(c)   == [challenge EXCEPT ![c].state = "consumed"]
ForPurpose(c, p) == challenge[c].purpose = p
\* mutant: the account of the challenge is not compared
ForAnyAccount(c, a) == TRUE
ForAccount(c, a) == challenge[c].account = a

ConsumeForRegistration(r, c) ==
  /\ req[r].at = "consume"
  /\ Consumable(c)
  /\ challenge' = Consumed(c)
  /\ IF ForPurpose(c, "register_passkey") /\ ForAccount(c, req[r].account)
     THEN req' = [req EXCEPT ![r].at = "addPasskey", ![r].challenge = c]
     ELSE Refuse(r)
  /\ UNCHANGED <<status, passkey, session>>

(* The response names a passkey and carries the authenticator's counter.   *)
ConsumeForLogin(r, c, k, n) ==
  /\ req[r] = Idle
  /\ Consumable(c)
  /\ challenge' = Consumed(c)
  /\ IF ForPurpose(c, "authenticate")
     THEN req' = [req EXCEPT ![r] = [Idle EXCEPT
            !.at = "getPasskey", !.challenge = c, !.key = k, !.counter = n]]
     ELSE Refuse(r)
  /\ UNCHANGED <<status, passkey, session>>

ConsumeForClaim(r, c) ==
  /\ req[r] = Idle
  /\ Consumable(c)
  /\ challenge' = Consumed(c)
  /\ IF ForPurpose(c, "claim_account")
     THEN req' = [req EXCEPT ![r] = [Idle EXCEPT
            !.at = "getAccount", !.challenge = c, !.account = challenge[c].account]]
     ELSE Refuse(r)
  /\ UNCHANGED <<status, passkey, session>>

(* recoverAccount names the account in its answer and does nothing else.   *)
Recover(r, c) ==
  /\ req[r] = Idle
  /\ Consumable(c)
  /\ challenge' = Consumed(c)
  /\ UNCHANGED <<status, passkey, session, req>>

-----------------------------------------------------------------------------
(* What the challenge was spent for.                                       *)

(* credential_id is UNIQUE: a key that is known already is refused.        *)
AddPasskey(r, k, n) ==
  /\ req[r].at = "addPasskey"
  /\ passkey[k].state = "absent"
  /\ passkey' = [passkey EXCEPT ![k] =
       [state |-> "active", account |-> req[r].account, counter |-> n,
        by |-> req[r].challenge]]
  /\ Refuse(r)
  /\ UNCHANGED <<status, challenge, session>>

(* A counter that does not grow is refused, unless both have none.         *)
CounterAccepted(n, stored) == n > stored \/ (n = 0 /\ stored = 0)

GetPasskey(r) ==
  LET k == req[r].key IN
  /\ req[r].at = "getPasskey"
  /\ IF passkey[k].state = "active" /\ CounterAccepted(req[r].counter, passkey[k].counter)
     THEN req' = [req EXCEPT ![r].at = "updateCounter", ![r].account = passkey[k].account]
     ELSE Refuse(r)
  /\ UNCHANGED <<status, challenge, passkey, session>>

\* mutant: the counter after the one that was signed
UpdateCounterNext(r) ==
  /\ req[r].at = "updateCounter"
  /\ passkey' = [passkey EXCEPT ![req[r].key].counter = req[r].counter + 1]
  /\ GoTo(r, "createSession")
  /\ UNCHANGED <<status, challenge, session>>

(* The counter is written whatever it has become since it was read.        *)
UpdateCounter(r) ==
  /\ req[r].at = "updateCounter"
  /\ passkey' = [passkey EXCEPT ![req[r].key].counter = req[r].counter]
  /\ GoTo(r, "createSession")
  /\ UNCHANGED <<status, challenge, session>>

Claimable(a) == status[a] = "pending_claim"

\* mutant: the session comes before the account is activated
GetAccountOnly(r) ==
  /\ req[r].at = "getAccount"
  /\ IF Claimable(req[r].account) THEN GoTo(r, "createSession") ELSE Refuse(r)
  /\ UNCHANGED <<status, challenge, passkey, session>>

GetAccount(r) ==
  /\ req[r].at = "getAccount"
  /\ IF Claimable(req[r].account) THEN GoTo(r, "activate") ELSE Refuse(r)
  /\ UNCHANGED <<status, challenge, passkey, session>>

(* updateAccountStatus writes active over whatever the status is by now.   *)
Activate(r) ==
  /\ req[r].at = "activate"
  /\ status' = [status EXCEPT ![req[r].account] = "active"]
  /\ GoTo(r, "createSession")
  /\ UNCHANGED <<challenge, passkey, session>>

CreateSession(r) ==
  /\ req[r].at = "createSession"
  /\ \E t \in Tokens :
       /\ session[t].state = "absent"
       /\ session' = [session EXCEPT ![t] =
            [state |-> "live", account |-> req[r].account, by |-> req[r].challenge,
             key |-> req[r].key]]
  /\ Refuse(r)
  /\ UNCHANGED <<status, challenge, passkey>>

-----------------------------------------------------------------------------
(* The end of sessions, passkeys and requests.                             *)

(* Idle expiry is never pushed back: a session dies 15 minutes after login. *)
SessionExpires(t) ==
  /\ session[t].state = "live"
  /\ session' = [session EXCEPT ![t].state = "expired"]
  /\ UNCHANGED <<status, challenge, passkey, req>>

RevokeSession(t) ==
  /\ session[t].state \in {"live", "expired"}
  /\ session' = [session EXCEPT ![t].state = "revoked"]
  /\ UNCHANGED <<status, challenge, passkey, req>>

RevokeAll(a) ==
  /\ \E t \in Tokens : session[t].account = a /\ session[t].state \in {"live", "expired"}
  /\ session' = [t \in Tokens |->
       IF session[t].account = a THEN [session[t] EXCEPT !.state = "revoked"]
       ELSE session[t]]
  /\ UNCHANGED <<status, challenge, passkey, req>>

RevokePasskey(k) ==
  /\ passkey[k].state = "active"
  /\ passkey' = [passkey EXCEPT ![k].state = "revoked"]
  /\ UNCHANGED <<status, challenge, session, req>>

(* An administrator suspends an account, claimed or not.                   *)
Suspend(a) ==
  /\ status[a] # "suspended"
  /\ status' = [status EXCEPT ![a] = "suspended"]
  /\ UNCHANGED <<challenge, passkey, session, req>>

(* A request dies at any await: a crash, an error of the database, or a    *)
(* signature that does not verify.                                         *)
Abort(r) ==
  /\ req[r] # Idle
  /\ Refuse(r)
  /\ UNCHANGED <<status, challenge, passkey, session>>

RequestStep(r) ==
  \/ \E a \in Accounts : AskClaimCode(r, a) \/ AskRecoveryCode(r, a)
  \/ \E a \in Accounts \cup {None} : StartAuthentication(r, a)
  \/ InsertChallenge(r)
  \/ \E t \in Tokens : Validate(r, t)
  \/ ResolveActor(r)
  \/ \E c \in Challenges : ConsumeForRegistration(r, c) \/ ConsumeForClaim(r, c) \/ Recover(r, c)
  \/ \E c \in Challenges, k \in Keys, n \in 0..MaxCounter : ConsumeForLogin(r, c, k, n)
  \/ \E k \in Keys, n \in 0..MaxCounter : AddPasskey(r, k, n)
  \/ GetPasskey(r) \/ UpdateCounter(r)
  \/ GetAccount(r) \/ Activate(r)
  \/ CreateSession(r)
  \/ Abort(r)

WorldStep ==
  \/ \E c \in Challenges : ChallengeExpires(c)
  \/ \E t \in Tokens : SessionExpires(t) \/ RevokeSession(t)
  \/ \E a \in Accounts : RevokeAll(a) \/ Suspend(a)
  \/ \E k \in Keys : RevokePasskey(k)

Next == WorldStep \/ \E r \in Requests : RequestStep(r)

Spec == Init /\ [][Next]_vars

-----------------------------------------------------------------------------
(* Properties.                                                             *)

(* The rows and the requests hold what the code puts in them.              *)
TypeOK ==
  /\ status \in [Accounts -> Statuses]
  /\ challenge \in [Challenges -> Challenge]
  /\ passkey \in [Keys -> Passkey]
  /\ session \in [Tokens -> Session]
  /\ req \in [Requests -> Request]

(* One challenge or code buys one thing: no two sessions, no two passkeys  *)
(* and no passkey and session come from the same one, however the requests *)
(* that present it race (consumeChallenge, the only guard against replay). *)
SpentOnce ==
  /\ \A t, u \in Tokens :
       (session[t].by # None /\ session[t].by = session[u].by) => t = u
  /\ \A k, l \in Keys :
       (passkey[k].by # None /\ passkey[k].by = passkey[l].by) => k = l
  /\ \A k \in Keys, t \in Tokens :
       passkey[k].by # None => passkey[k].by # session[t].by

(* A session speaks for the account whose claim code it was bought with,   *)
(* or for the account of the passkey that signed; a passkey belongs to the *)
(* account its challenge was made for.  No code opens another account, or  *)
(* does what it was not made for.                                          *)
GrantsAreEarned ==
  /\ \A t \in Tokens : session[t].state # "absent" =>
       LET c == challenge[session[t].by] IN
       \/ c.purpose = "claim_account" /\ c.account = session[t].account
       \/ /\ c.purpose = "authenticate"
          /\ passkey[session[t].key].account = session[t].account
  /\ \A k \in Keys : passkey[k].state # "absent" =>
       LET c == challenge[passkey[k].by] IN
       c.purpose = "register_passkey" /\ c.account = passkey[k].account

(* Nobody acts for an account that was never claimed: it has no session    *)
(* and no passkey, and no request is about to create one for it.           *)
UnclaimedIsUntouched ==
  \A a \in Accounts : status[a] = "pending_claim" =>
    /\ \A t \in Tokens : session[t].account # a
    /\ \A k \in Keys : passkey[k].account # a
    /\ \A r \in Requests :
         req[r].account = a => req[r].at \in {"insertChallenge", "getAccount", "activate"}

(* claimAccount refuses an account that is not pending any more: of all    *)
(* the claim codes of an account one buys a session.  Two claims that are  *)
(* past the reading of the status break it; ClaimsSettle says that only    *)
(* they do: once an account is not pending and no claim of it is under     *)
(* way, no claim code buys a session for it any more.                      *)
Bought(t) == session[t].state # "absent" /\ challenge[session[t].by].purpose = "claim_account"
ClaimedOnce ==
  \A t, u \in Tokens :
    Bought(t) /\ Bought(u) /\ session[t].account = session[u].account => t = u

\* r has activated its account with a claim code and owes it a session.
Buying(r) ==
  req[r].at = "createSession" /\ challenge[req[r].challenge].purpose = "claim_account"

\* r is a claim of its account that was let through.
Claiming(r) == req[r].at = "activate" \/ Buying(r)

Claimed(a) ==
  status[a] # "pending_claim" /\ \A r \in Requests : req[r].account = a => ~ Claiming(r)

ClaimsSettle ==
  [][\A a \in Accounts : Claimed(a) =>
       /\ Claimed(a)'
       /\ \A t \in Tokens : Bought(t)' /\ session'[t].account = a => Bought(t)]_vars

(* The counter of a key is compared with the row that was read and written *)
(* by a later statement, so a login that counts less may write last.  It   *)
(* must have been let through before: a count that the key and every login *)
(* about to write it have reached is never fallen short of again, and a    *)
(* copy of the authenticator that counts less is refused for ever.         *)
Reached(k, n) ==
  /\ passkey[k].state # "absent" /\ passkey[k].counter >= n
  /\ \A r \in Requests :
       req[r].at = "updateCounter" /\ req[r].key = k => req[r].counter >= n

CountersSettle ==
  [][\A k \in Keys, n \in 0..MaxCounter : Reached(k, n) => Reached(k, n)']_vars
=============================================================================

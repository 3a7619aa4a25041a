--------------------------- MODULE IdentityProofs ---------------------------
(***************************************************************************)
(* Identity for any number of accounts, challenges, keys, sessions and     *)
(* requests: a challenge buys one thing, every session and passkey was     *)
(* earned for its own account, and nobody acts for an unclaimed account.   *)
(***************************************************************************)
EXTENDS Identity, TLAPS

------------------------------------------------------------------------------
(* The inductive invariant.  It takes the tables as arguments: ch is       *)
(* challenge, pk passkey, se session.                                      *)

\* c, with key k, entitles to a session of account a.
Earned(ch, pk, c, a, k) ==
  /\ a \in Accounts
  /\ \/ ch[c].purpose = "claim_account" /\ ch[c].account = a
     \/ /\ ch[c].purpose = "authenticate"
        /\ k \in Keys /\ pk[k].state # "absent" /\ pk[k].account = a

\* What a request holds was checked before it came where it is.
RequestSound(q, ch, pk) ==
  /\ q.challenge = None <=> q.at \in {"idle", "resolve", "insertChallenge", "consume"}
  /\ q.challenge # None => ch[q.challenge].state = "consumed"
  /\ q.at \in {"idle", "getPasskey"} => q.account = None
  /\ (q.at = "insertChallenge" /\ q.purpose = "claim_account") => q.account \in Accounts
  /\ q.at \in {"resolve", "consume", "addPasskey", "updateCounter", "getAccount", "activate"}
       => q.account \in Accounts
  /\ q.at = "addPasskey" => /\ ch[q.challenge].purpose = "register_passkey"
                            /\ ch[q.challenge].account = q.account
  /\ q.at \in {"getPasskey", "updateCounter"} =>
       ch[q.challenge].purpose = "authenticate" /\ q.key \in Keys
  /\ q.at = "updateCounter" =>
       pk[q.key].state # "absent" /\ pk[q.key].account = q.account
  /\ q.at \in {"getAccount", "activate"} =>
       /\ ch[q.challenge].purpose = "claim_account"
       /\ ch[q.challenge].account = q.account
  /\ q.at = "createSession" => Earned(ch, pk, q.challenge, q.account, q.key)

SessionSound(s, ch, pk) ==
  IF s.state = "absent" THEN s.by = None /\ s.account = None
  ELSE /\ s.by # None /\ ch[s.by].state = "consumed"
       /\ Earned(ch, pk, s.by, s.account, s.key)

PasskeySound(p, ch) ==
  IF p.state = "absent" THEN p.by = None /\ p.account = None
  ELSE /\ p.account \in Accounts /\ p.by # None /\ ch[p.by].state = "consumed"
       /\ ch[p.by].purpose = "register_passkey" /\ ch[p.by].account = p.account

\* No two requests hold one challenge, and what is held was not spent yet.
HeldApart ==
  /\ \A r, s \in Requests :
       (req[r].challenge # None /\ req[r].challenge = req[s].challenge) => r = s
  /\ \A r \in Requests : req[r].challenge # None =>
       /\ \A t \in Tokens : session[t].by # req[r].challenge
       /\ \A k \in Keys : passkey[k].by # req[r].challenge

\* A claim code is made for an account.
CodesBound(ch) ==
  \A c \in Challenges : ch[c].purpose = "claim_account" => ch[c].account \in Accounts

Sound ==
  /\ CodesBound(challenge)
  /\ \A r \in Requests : RequestSound(req[r], challenge, passkey)
  /\ \A t \in Tokens : SessionSound(session[t], challenge, passkey)
  /\ \A k \in Keys : PasskeySound(passkey[k], challenge)

IInv == TypeOK /\ Sound /\ HeldApart /\ SpentOnce /\ UnclaimedIsUntouched

------------------------------------------------------------------------------
(* The kinds of steps.                                                     *)

\* What is written once stays: c's purpose and account, and that it is spent.
ChallengesKept ==
  \A c \in Challenges :
    \/ challenge'[c] = challenge[c]
    \/ /\ challenge[c].state # "absent"
       /\ challenge'[c].purpose = challenge[c].purpose
       /\ challenge'[c].account = challenge[c].account
       /\ challenge[c].state = "consumed" => challenge'[c].state = "consumed"
    \/ /\ challenge[c].state = "absent"
       /\ challenge'[c].purpose = "claim_account" => challenge'[c].account \in Accounts

\* A row p' of passkey or session is p, or p in a later state.
SameKey(p, p2) ==
  /\ p2.state = "absent" <=> p.state = "absent"
  /\ p2.account = p.account /\ p2.by = p.by
SameKeys == \A k \in Keys : SameKey(passkey[k], passkey'[k])
SameSession(s, s2) ==
  /\ s2.state = "absent" <=> s.state = "absent"
  /\ s2.account = s.account /\ s2.by = s.by /\ s2.key = s.key
SameSessions == \A t \in Tokens : SameSession(session[t], session'[t])

\* An account that is to be claimed is not acted for yet.
Patient(q, st) ==
  \A a \in Accounts : (q.account = a /\ st[a] = "pending_claim") =>
    q.at \in {"insertChallenge", "getAccount", "activate"}

StatusKept ==
  \A a \in Accounts : status'[a] = "pending_claim" => status[a] = "pending_claim"

\* Only r moves, to q, and rightly so.
Moves(r, q) ==
  /\ q \in Request
  /\ RequestSound(q, challenge', passkey')
  /\ Patient(q, status')
  /\ StatusKept
  /\ req'[r] = q
  /\ \A s \in Requests \ {r} : req'[s] = req[s]

\* r moves on or gives up with what it has.
Walks(r, q) ==
  /\ Moves(r, q)
  /\ q = Idle \/ q.challenge = req[r].challenge
  /\ ChallengesKept /\ SameKeys /\ SameSessions

\* r spends c, which it keeps if it goes on.
Spends(r, q, c) ==
  /\ Moves(r, q)
  /\ req[r].challenge = None
  /\ challenge[c].state = "open" /\ challenge'[c].state = "consumed"
  /\ q = Idle \/ q.challenge = c
  /\ ChallengesKept /\ SameKeys /\ SameSessions

\* r turns what it holds into session t, or into passkey k.
GetsSession(r, t) ==
  /\ Moves(r, Idle)
  /\ req[r].at = "createSession"
  /\ session[t].state = "absent"
  /\ session'[t].state # "absent"
  /\ session'[t].by = req[r].challenge /\ session'[t].account = req[r].account
  /\ session'[t].key = req[r].key
  /\ \A u \in Tokens \ {t} : session'[u] = session[u]
  /\ UNCHANGED <<challenge, passkey>>

GetsPasskey(r, k) ==
  /\ Moves(r, Idle)
  /\ req[r].at = "addPasskey"
  /\ passkey[k].state = "absent"
  /\ passkey'[k].state # "absent"
  /\ passkey'[k].by = req[r].challenge /\ passkey'[k].account = req[r].account
  /\ \A l \in Keys \ {k} : passkey'[l] = passkey[l]
  /\ UNCHANGED <<challenge, session>>

------------------------------------------------------------------------------
(* Type correctness.                                                       *)

LEMMA IdleTypes == Idle \in Request /\ Idle.at = "idle" /\ Idle.challenge = None
                   /\ Idle.account = None
  BY IdentityAssumption DEF Idle, Request, Steps

LEMMA InitTypes == Init => TypeOK
  <1> SUFFICES ASSUME Init PROVE TypeOK
    OBVIOUS
  <1>1. NoChallenge \in Challenge
    BY DEF NoChallenge, Challenge
  <1>2. NoPasskey \in Passkey
    BY IdentityAssumption DEF NoPasskey, Passkey
  <1>3. NoSession \in Session
    BY DEF NoSession, Session
  <1> QED
    BY <1>1, <1>2, <1>3, IdleTypes DEF Init, TypeOK, Statuses

LEMMA WorldTypes == ASSUME TypeOK, WorldStep PROVE TypeOK'
  <1>1. ASSUME NEW c \in Challenges, ChallengeExpires(c) PROVE TypeOK'
    <2>1. [challenge[c] EXCEPT !.state = "expired"] \in Challenge
      BY DEF TypeOK, Challenge
    <2> QED
      BY <1>1, <2>1 DEF ChallengeExpires, TypeOK
  <1>2. ASSUME NEW t \in Tokens, SessionExpires(t) \/ RevokeSession(t) PROVE TypeOK'
    <2>1. \A x \in {"expired", "revoked"} : [session[t] EXCEPT !.state = x] \in Session
      BY DEF TypeOK, Session
    <2> QED
      BY <1>2, <2>1 DEF SessionExpires, RevokeSession, TypeOK
  <1>3. ASSUME NEW a \in Accounts, RevokeAll(a) PROVE TypeOK'
    <2>1. \A t \in Tokens : [session[t] EXCEPT !.state = "revoked"] \in Session
      BY DEF TypeOK, Session
    <2> QED
      BY <1>3, <2>1 DEF RevokeAll, TypeOK
  <1>4. ASSUME NEW a \in Accounts, Suspend(a) PROVE TypeOK'
    BY <1>4 DEF Suspend, TypeOK, Statuses
  <1>5. ASSUME NEW k \in Keys, RevokePasskey(k) PROVE TypeOK'
    <2>1. [passkey[k] EXCEPT !.state = "revoked"] \in Passkey
      BY DEF TypeOK, Passkey
    <2> QED
      BY <1>5, <2>1 DEF RevokePasskey, TypeOK
  <1> QED
    BY <1>1, <1>2, <1>3, <1>4, <1>5 DEF WorldStep

LEMMA WorldWalks ==
  ASSUME TypeOK, Sound, WorldStep
  PROVE  ChallengesKept /\ SameKeys /\ SameSessions /\ req' = req
  <1> USE DEF ChallengesKept, SameKeys, SameKey, SameSessions, SameSession
  <1>1. ASSUME NEW c \in Challenges, ChallengeExpires(c)
        PROVE  ChallengesKept /\ SameKeys /\ SameSessions /\ req' = req
    <2>1. challenge'[c] = [challenge[c] EXCEPT !.state = "expired"]
      BY <1>1 DEF ChallengeExpires, TypeOK
    <2>2. challenge'[c].purpose = challenge[c].purpose
          /\ challenge'[c].account = challenge[c].account
      BY <2>1 DEF TypeOK, Challenge
    <2> QED
      BY <1>1, <2>2 DEF ChallengeExpires, TypeOK
  <1>2. ASSUME NEW t \in Tokens, SessionExpires(t) \/ RevokeSession(t)
        PROVE  ChallengesKept /\ SameKeys /\ SameSessions /\ req' = req
    <2>1. PICK x \in {"expired", "revoked"} :
            session'[t] = [session[t] EXCEPT !.state = x]
      BY <1>2 DEF SessionExpires, RevokeSession, TypeOK
    <2>2. SameSession(session[t], session'[t])
      BY <1>2, <2>1 DEF SessionExpires, RevokeSession, TypeOK, Session
    <2> QED
      BY <1>2, <2>2 DEF SessionExpires, RevokeSession, TypeOK
  <1>3. ASSUME NEW a \in Accounts, RevokeAll(a)
        PROVE  ChallengesKept /\ SameKeys /\ SameSessions /\ req' = req
    <2>1. ASSUME NEW t \in Tokens PROVE SameSession(session[t], session'[t])
      <3>1. CASE session[t].account = a
        <4>1. session'[t] = [session[t] EXCEPT !.state = "revoked"]
          BY <1>3, <3>1 DEF RevokeAll
        <4>2. session[t] \in Session
          BY DEF TypeOK
        <4>3. session[t].state # "absent"
          BY <3>1, IdentityAssumption DEF Sound, SessionSound
        <4> QED
          BY <4>1, <4>2, <4>3 DEF Session
      <3>2. CASE session[t].account # a
        BY <1>3, <3>2 DEF RevokeAll
      <3> QED
        BY <3>1, <3>2
    <2> QED
      BY <1>3, <2>1 DEF RevokeAll
  <1>4. ASSUME NEW a \in Accounts, Suspend(a)
        PROVE  ChallengesKept /\ SameKeys /\ SameSessions /\ req' = req
    BY <1>4 DEF Suspend
  <1>5. ASSUME NEW k \in Keys, RevokePasskey(k)
        PROVE  ChallengesKept /\ SameKeys /\ SameSessions /\ req' = req
    <2>1. passkey'[k] = [passkey[k] EXCEPT !.state = "revoked"]
      BY <1>5 DEF RevokePasskey, TypeOK
    <2>2. SameKey(passkey[k], passkey'[k])
      BY <1>5, <2>1 DEF RevokePasskey, TypeOK, Passkey
    <2> QED
      BY <1>5, <2>2 DEF RevokePasskey, TypeOK
  <1> QED
    BY <1>1, <1>2, <1>3, <1>4, <1>5 DEF WorldStep

LEMMA IdleSound ==
  \A ch, pk, st : RequestSound(Idle, ch, pk) /\ Patient(Idle, st)
  BY IdleTypes, IdentityAssumption DEF RequestSound, Patient

\* A request that has just begun.
Started(p, a, st) == [Idle EXCEPT !.at = st, !.purpose = p, !.account = a]

LEMMA StartTypes ==
  ASSUME NEW p \in Purposes, NEW a \in Accounts \cup {None},
         NEW st, st = "insertChallenge" \/ st = "resolve"
  PROVE  /\ Started(p, a, st) \in Request
         /\ Started(p, a, st).challenge = None
         /\ Started(p, a, st).at = st
         /\ Started(p, a, st).account = a
         /\ Started(p, a, st).purpose = p
  <1>1. Started(p, a, st) =
          [at |-> st, purpose |-> p, account |-> a, challenge |-> None,
           key |-> None, counter |-> 0]
    <2>1. Started(p, a, st) = [Idle EXCEPT !.at = st, !.purpose = p, !.account = a]
      BY DEF Started
    <2> QED
      BY <2>1 DEF Idle
  <1>2. 0 \in 0..MaxCounter /\ st \in Steps
    BY IdentityAssumption DEF Steps
  <1>3. Started(p, a, st) \in Request
    BY <1>1, <1>2 DEF Request
  <1> QED
    BY <1>1, <1>3

LEMMA GoesOn ==
  ASSUME TypeOK, NEW r \in Requests, NEW st \in Steps, NEW q,
         q = [req[r] EXCEPT !.at = st]
  PROVE  /\ q \in Request /\ q.at = st /\ q.challenge = req[r].challenge
         /\ q.account = req[r].account /\ q.key = req[r].key
         /\ q.purpose = req[r].purpose
  BY DEF TypeOK, Request

\* A step that writes only req keeps the types and is a walk.
LEMMA WalkTypes ==
  ASSUME TypeOK, NEW r \in Requests, NEW q \in Request,
         req' = [req EXCEPT ![r] = q], q = Idle \/ q.challenge = req[r].challenge,
         UNCHANGED <<status, challenge, passkey, session>>,
         RequestSound(q, challenge, passkey), Patient(q, status)
  PROVE  TypeOK' /\ Walks(r, q)
  BY DEF TypeOK, Walks, Moves, StatusKept, ChallengesKept, SameKeys, SameKey,
         SameSessions, SameSession

LEMMA StartWalks ==
  ASSUME TypeOK, NEW r \in Requests, req[r] = Idle, NEW p \in Purposes,
         NEW a \in Accounts \cup {None}, NEW st, st = "insertChallenge" \/ st = "resolve",
         st = "resolve" => a \in Accounts /\ status[a] # "pending_claim",
         p = "claim_account" => a \in Accounts,
         req' = [req EXCEPT ![r] = [Idle EXCEPT !.at = st, !.purpose = p, !.account = a]],
         UNCHANGED <<status, challenge, passkey, session>>
  PROVE  TypeOK' /\ \E q : Walks(r, q)
  <1>1. req' = [req EXCEPT ![r] = Started(p, a, st)]
    BY DEF Started
  <1>2. /\ Started(p, a, st) \in Request
        /\ Started(p, a, st).challenge = None
        /\ Started(p, a, st).at = st
        /\ Started(p, a, st).account = a
        /\ Started(p, a, st).purpose = p
    BY StartTypes
  <1>3. /\ RequestSound(Started(p, a, st), challenge, passkey)
        /\ Patient(Started(p, a, st), status)
    BY <1>2 DEF RequestSound, Patient
  <1>4. Started(p, a, st).challenge = req[r].challenge
    BY <1>2, IdleTypes
  <1> QED
    BY <1>1, <1>2, <1>3, <1>4, WalkTypes

LEMMA RefuseWalks ==
  ASSUME TypeOK, NEW r \in Requests, Refuse(r),
         UNCHANGED <<status, challenge, passkey, session>>
  PROVE  TypeOK' /\ \E q : Walks(r, q)
  BY WalkTypes, IdleTypes, IdleSound DEF Refuse

LEMMA GoToWalks ==
  ASSUME TypeOK, NEW r \in Requests, NEW st \in Steps, GoTo(r, st),
         UNCHANGED <<status, challenge, passkey, session>>,
         \A q : (/\ q.at = st /\ q.challenge = req[r].challenge
                 /\ q.account = req[r].account /\ q.key = req[r].key)
                => RequestSound(q, challenge, passkey) /\ Patient(q, status)
  PROVE  TypeOK' /\ \E q : Walks(r, q)
  <1> DEFINE q == [req[r] EXCEPT !.at = st]
  <1>1. /\ q \in Request /\ q.at = st /\ q.challenge = req[r].challenge
        /\ q.account = req[r].account /\ q.key = req[r].key
    BY GoesOn
  <1>2. req' = [req EXCEPT ![r] = q]
    BY DEF GoTo, TypeOK
  <1> HIDE DEF q
  <1> QED
    BY <1>1, <1>2, WalkTypes

\* A request that consumes c and goes on to q, or is refused.
LEMMA ConsumeSpends ==
  ASSUME TypeOK, NEW r \in Requests, NEW c \in Challenges, NEW q \in Request,
         req[r].challenge = None, Consumable(c), challenge' = Consumed(c),
         req' = [req EXCEPT ![r] = q], q = Idle \/ q.challenge = c,
         RequestSound(q, challenge', passkey), Patient(q, status),
         UNCHANGED <<status, passkey, session>>
  PROVE  TypeOK' /\ Spends(r, q, c)
  <1>1. challenge'[c] = [challenge[c] EXCEPT !.state = "consumed"]
    BY DEF Consumed, TypeOK
  <1>2. challenge'[c] \in Challenge /\ challenge'[c].state = "consumed"
    BY <1>1 DEF TypeOK, Challenge
  <1>3. /\ challenge'[c].purpose = challenge[c].purpose
        /\ challenge'[c].account = challenge[c].account
    BY <1>1 DEF TypeOK, Challenge
  <1>4. \A d \in Challenges \ {c} : challenge'[d] = challenge[d]
    BY DEF Consumed, TypeOK
  <1>5. ChallengesKept
    BY <1>2, <1>3, <1>4 DEF ChallengesKept, Consumable
  <1>6. TypeOK'
    <2>1. challenge' \in [Challenges -> Challenge]
      BY <1>2, <1>4 DEF Consumed, TypeOK
    <2> QED
      BY <2>1 DEF TypeOK
  <1>7. Moves(r, q)
    BY DEF Moves, StatusKept, TypeOK
  <1>8. SameKeys /\ SameSessions
    BY DEF SameKeys, SameKey, SameSessions, SameSession
  <1> QED
    BY <1>2, <1>5, <1>6, <1>7, <1>8 DEF Spends, Consumable

LEMMA SpentChallenge ==
  ASSUME TypeOK, NEW c \in Challenges, challenge' = Consumed(c)
  PROVE  /\ challenge'[c].state = "consumed"
         /\ challenge'[c].purpose = challenge[c].purpose
         /\ challenge'[c].account = challenge[c].account
  <1>1. challenge'[c] = [challenge[c] EXCEPT !.state = "consumed"]
    BY DEF Consumed, TypeOK
  <1> QED
    BY <1>1 DEF TypeOK, Challenge

LEMMA RegistrationSpends ==
  ASSUME TypeOK, Sound, UnclaimedIsUntouched, NEW r \in Requests,
         NEW c \in Challenges, ConsumeForRegistration(r, c)
  PROVE  TypeOK' /\ \E q : Spends(r, q, c)
  <1>1. req[r].challenge = None /\ req[r].account \in Accounts
    BY DEF ConsumeForRegistration, Sound, RequestSound
  <1>2. CASE ForPurpose(c, "register_passkey") /\ ForAccount(c, req[r].account)
    <2> DEFINE q == [req[r] EXCEPT !.at = "addPasskey", !.challenge = c]
    <2>1. /\ q \in Request /\ q.at = "addPasskey" /\ q.challenge = c
          /\ q.account = req[r].account
      BY DEF TypeOK, Request, Steps
    <2>2. req' = [req EXCEPT ![r] = q]
      BY <1>2 DEF ConsumeForRegistration, TypeOK
    <2>3. Patient(q, status)
      BY <1>1, <2>1 DEF Patient, UnclaimedIsUntouched, ConsumeForRegistration
    <2> HIDE DEF q
    <2>4. challenge' = Consumed(c) /\ Consumable(c)
          /\ UNCHANGED <<status, passkey, session>>
      BY DEF ConsumeForRegistration
    <2>5. RequestSound(q, challenge', passkey)
      BY <1>1, <1>2, <2>1, <2>4, SpentChallenge, IdentityAssumption
      DEF RequestSound, ForPurpose, ForAccount
    <2> QED
      BY <1>1, <2>1, <2>2, <2>3, <2>4, <2>5, ConsumeSpends
  <1>3. CASE ~(ForPurpose(c, "register_passkey") /\ ForAccount(c, req[r].account))
    BY <1>1, <1>3, IdleTypes, IdleSound, ConsumeSpends
    DEF ConsumeForRegistration, Refuse
  <1> QED
    BY <1>2, <1>3

\* A request that begins with a challenge in hand.
Presented(c, st, a, k, n) ==
  [at |-> st, purpose |-> None, account |-> a, challenge |-> c, key |-> k,
   counter |-> n]

LEMMA LoginSpends ==
  ASSUME TypeOK, NEW r \in Requests, NEW c \in Challenges, NEW k \in Keys,
         NEW n \in 0..MaxCounter, ConsumeForLogin(r, c, k, n)
  PROVE  TypeOK' /\ \E q : Spends(r, q, c)
  <1>1. /\ req[r].challenge = None
        /\ challenge' = Consumed(c) /\ Consumable(c)
        /\ UNCHANGED <<status, passkey, session>>
    BY IdleTypes DEF ConsumeForLogin
  <1>2. CASE ForPurpose(c, "authenticate")
    <2> DEFINE q == Presented(c, "getPasskey", None, k, n)
    <2>1. /\ q \in Request /\ q.at = "getPasskey" /\ q.challenge = c
          /\ q.account = None /\ q.key = k
      BY DEF Presented, Request, Steps
    <2>2. req' = [req EXCEPT ![r] = q]
      BY <1>2 DEF ConsumeForLogin, Presented, Idle
    <2> HIDE DEF q
    <2>3. Patient(q, status)
      BY <2>1, IdentityAssumption DEF Patient
    <2>4. RequestSound(q, challenge', passkey)
      BY <1>1, <1>2, <2>1, SpentChallenge, IdentityAssumption
      DEF RequestSound, ForPurpose
    <2> QED
      BY <1>1, <2>1, <2>2, <2>3, <2>4, ConsumeSpends
  <1>3. CASE ~ForPurpose(c, "authenticate")
    BY <1>1, <1>3, IdleTypes, IdleSound, ConsumeSpends DEF ConsumeForLogin, Refuse
  <1> QED
    BY <1>2, <1>3

LEMMA ClaimSpends ==
  ASSUME TypeOK, Sound, NEW r \in Requests, NEW c \in Challenges, ConsumeForClaim(r, c)
  PROVE  TypeOK' /\ \E q : Spends(r, q, c)
  <1>1. /\ req[r].challenge = None
        /\ challenge' = Consumed(c) /\ Consumable(c)
        /\ UNCHANGED <<status, passkey, session>>
    BY IdleTypes DEF ConsumeForClaim
  <1>2. CASE ForPurpose(c, "claim_account")
    <2> DEFINE q == Presented(c, "getAccount", challenge[c].account, None, 0)
    <2>0. challenge[c].account \in Accounts \cup {None}
      BY DEF TypeOK, Challenge
    <2>1. /\ q \in Request /\ q.at = "getAccount" /\ q.challenge = c
          /\ q.account = challenge[c].account
      BY <2>0, IdentityAssumption DEF Presented, Request, Steps
    <2>2. req' = [req EXCEPT ![r] = q]
      BY <1>2 DEF ConsumeForClaim, Presented, Idle
    <2> HIDE DEF q
    <2>3. Patient(q, status)
      BY <2>1 DEF Patient
    <2>5. challenge[c].account \in Accounts
      BY <1>2 DEF Sound, CodesBound, ForPurpose
    <2>4. RequestSound(q, challenge', passkey)
      BY <1>1, <1>2, <2>1, <2>5, SpentChallenge, IdentityAssumption
      DEF RequestSound, ForPurpose
    <2> QED
      BY <1>1, <2>1, <2>2, <2>3, <2>4, ConsumeSpends
  <1>3. CASE ~ForPurpose(c, "claim_account")
    BY <1>1, <1>3, IdleTypes, IdleSound, ConsumeSpends DEF ConsumeForClaim, Refuse
  <1> QED
    BY <1>2, <1>3

LEMMA RecoverSpends ==
  ASSUME TypeOK, NEW r \in Requests, NEW c \in Challenges, Recover(r, c)
  PROVE  TypeOK' /\ \E q : Spends(r, q, c)
  <1>1. req' = [req EXCEPT ![r] = Idle]
    BY DEF Recover, TypeOK
  <1> QED
    BY <1>1, IdleTypes, IdleSound, ConsumeSpends DEF Recover

LEMMA InsertWalks ==
  ASSUME TypeOK, Sound, NEW r \in Requests, InsertChallenge(r)
  PROVE  TypeOK' /\ \E q : Walks(r, q)
  <1>1. PICK c \in Challenges :
          /\ challenge[c].state = "absent"
          /\ challenge' = [challenge EXCEPT ![c] =
               [state |-> "open", purpose |-> req[r].purpose, account |-> req[r].account]]
    BY DEF InsertChallenge
  <1> DEFINE row == [state |-> "open", purpose |-> req[r].purpose, account |-> req[r].account]
  <1>a. req[r] \in Request
    BY DEF TypeOK
  <1>b. row \in Challenge /\ (row.purpose = "claim_account" => row.account \in Accounts)
    BY <1>a DEF InsertChallenge, Sound, RequestSound, Request, Challenge
  <1> HIDE DEF row
  <1>2. challenge' \in [Challenges -> Challenge] /\ ChallengesKept
    BY <1>1, <1>b DEF TypeOK, ChallengesKept, row
  <1>3. req' = [req EXCEPT ![r] = Idle] /\ UNCHANGED <<status, passkey, session>>
    BY DEF InsertChallenge, Refuse
  <1>4. Moves(r, Idle)
    BY <1>3, IdleTypes, IdleSound DEF Moves, StatusKept, TypeOK
  <1>5. SameKeys /\ SameSessions
    BY <1>3 DEF SameKeys, SameKey, SameSessions, SameSession
  <1> QED
    BY <1>2, <1>3, <1>4, <1>5, IdleTypes DEF Walks, TypeOK

LEMMA ValidateWalks ==
  ASSUME TypeOK, Sound, UnclaimedIsUntouched, NEW r \in Requests, NEW t \in Tokens,
         Validate(r, t)
  PROVE  TypeOK' /\ \E q : Walks(r, q)
  <1>1. session[t].state = "live" /\ session[t] \in Session
    BY DEF Validate, TypeOK
  <1>2. session[t].account \in Accounts
    BY <1>1 DEF Sound, SessionSound, Earned
  <1>3. status[session[t].account] # "pending_claim"
    BY <1>2 DEF UnclaimedIsUntouched
  <1> QED
    BY <1>2, <1>3, StartWalks DEF Validate, Purposes

LEMMA ResolveWalks ==
  ASSUME TypeOK, Sound, NEW r \in Requests, ResolveActor(r)
  PROVE  TypeOK' /\ \E q : Walks(r, q)
  <1>1. /\ req[r].challenge = None /\ req[r].account \in Accounts
        /\ UNCHANGED <<status, challenge, passkey, session>>
    BY DEF ResolveActor, Sound, RequestSound
  <1>2. CASE Refuse(r)
    BY <1>1, <1>2, RefuseWalks
  <1>3. ASSUME NEW st, st = "insertChallenge" \/ st = "consume", GoTo(r, st),
               status[req[r].account] = "active"
        PROVE  TypeOK' /\ \E q : Walks(r, q)
    <2>1. \A q : (/\ q.at = st /\ q.challenge = req[r].challenge
                  /\ q.account = req[r].account /\ q.key = req[r].key)
                 => RequestSound(q, challenge, passkey) /\ Patient(q, status)
      BY <1>1, <1>3 DEF RequestSound, Patient
    <2>2. st \in Steps
      BY <1>3 DEF Steps
    <2> QED
      BY <1>1, <1>3, <2>1, <2>2, GoToWalks
  <1> QED
    BY <1>2, <1>3 DEF ResolveActor

LEMMA PasskeyWalks ==
  ASSUME TypeOK, Sound, UnclaimedIsUntouched, NEW r \in Requests, GetPasskey(r)
  PROVE  TypeOK' /\ \E q : Walks(r, q)
  <1> DEFINE k == req[r].key
             q == [req[r] EXCEPT !.at = "updateCounter", !.account = passkey[k].account]
  <1>1. /\ req[r].challenge # None /\ k \in Keys
        /\ challenge[req[r].challenge].state = "consumed"
        /\ challenge[req[r].challenge].purpose = "authenticate"
        /\ UNCHANGED <<status, challenge, passkey, session>>
    BY DEF GetPasskey, Sound, RequestSound
  <1>2. CASE Refuse(r)
    BY <1>1, <1>2, RefuseWalks
  <1>3. CASE /\ passkey[k].state = "active"
             /\ req' = [req EXCEPT ![r].at = "updateCounter", ![r].account = passkey[k].account]
    <2>1. passkey[k] \in Passkey /\ req[r] \in Request
      BY <1>1 DEF TypeOK
    <2>2. passkey[k].account \in Accounts \cup {None}
      BY <2>1 DEF Passkey
    <2>3. /\ q \in Request /\ q.at = "updateCounter" /\ q.challenge = req[r].challenge
          /\ q.account = passkey[k].account /\ q.key = k
      BY <2>1, <2>2 DEF Request, Steps
    <2>4. req' = [req EXCEPT ![r] = q]
      BY <1>3 DEF TypeOK
    <2>7. passkey[k].account \in Accounts
      BY <1>1, <1>3 DEF Sound, PasskeySound
    <2> HIDE DEF q
    <2>5. RequestSound(q, challenge, passkey)
      BY <1>1, <1>3, <2>3, <2>7 DEF RequestSound
    <2>6. Patient(q, status)
      BY <1>1, <2>3 DEF Patient, UnclaimedIsUntouched
    <2> QED
      BY <1>1, <2>3, <2>4, <2>5, <2>6, WalkTypes
  <1> QED
    BY <1>2, <1>3 DEF GetPasskey

LEMMA CounterWalks ==
  ASSUME TypeOK, Sound, UnclaimedIsUntouched, NEW r \in Requests, UpdateCounter(r)
  PROVE  TypeOK' /\ \E q : Walks(r, q)
  <1> DEFINE k == req[r].key
             q == [req[r] EXCEPT !.at = "createSession"]
  <1>1. /\ req[r].challenge # None /\ k \in Keys /\ req[r] \in Request
        /\ challenge[req[r].challenge].state = "consumed"
        /\ challenge[req[r].challenge].purpose = "authenticate"
        /\ passkey[k].state # "absent" /\ passkey[k].account = req[r].account
        /\ passkey[k] \in Passkey /\ req[r].account \in Accounts
    BY DEF UpdateCounter, Sound, RequestSound, TypeOK
  <1>2. passkey'[k] = [passkey[k] EXCEPT !.counter = req[r].counter]
        /\ \A l \in Keys \ {k} : passkey'[l] = passkey[l]
    BY <1>1 DEF UpdateCounter, TypeOK
  <1>3. req[r].counter \in 0..MaxCounter
    BY <1>1 DEF Request
  <1>4. /\ passkey'[k] \in Passkey /\ SameKey(passkey[k], passkey'[k])
        /\ passkey'[k].state # "absent"
    BY <1>1, <1>2, <1>3 DEF Passkey, SameKey
  <1>5. SameKeys
    BY <1>2, <1>4 DEF SameKeys, SameKey
  <1>6. /\ q \in Request /\ q.at = "createSession" /\ q.challenge = req[r].challenge
        /\ q.account = req[r].account /\ q.key = req[r].key
    BY GoesOn DEF Steps
  <1>7. /\ req' = [req EXCEPT ![r] = q]
        /\ UNCHANGED <<status, challenge, session>>
    BY DEF UpdateCounter, GoTo, TypeOK
  <1> HIDE DEF q
  <1>8. RequestSound(q, challenge', passkey')
    BY <1>1, <1>4, <1>6, <1>7 DEF RequestSound, Earned, SameKey
  <1>9. Patient(q, status')
    BY <1>1, <1>6, <1>7 DEF Patient, UnclaimedIsUntouched
  <1>10. Moves(r, q)
    BY <1>6, <1>7, <1>8, <1>9 DEF Moves, StatusKept, TypeOK
  <1>11. passkey' \in [Keys -> Passkey]
    BY <1>2, <1>4 DEF UpdateCounter, TypeOK
  <1>12. TypeOK'
    BY <1>6, <1>7, <1>11 DEF TypeOK
  <1>13. ChallengesKept /\ SameSessions
    BY <1>7 DEF ChallengesKept, SameSessions, SameSession
  <1> QED
    BY <1>5, <1>6, <1>10, <1>12, <1>13 DEF Walks

LEMMA AccountWalks ==
  ASSUME TypeOK, Sound, NEW r \in Requests, GetAccount(r)
  PROVE  TypeOK' /\ \E q : Walks(r, q)
  <1>1. /\ RequestSound(req[r], challenge, passkey)
        /\ UNCHANGED <<status, challenge, passkey, session>>
    BY DEF GetAccount, Sound
  <1>2. CASE Refuse(r)
    BY <1>1, <1>2, RefuseWalks
  <1>3. CASE GoTo(r, "activate")
    <2>1. \A q : (/\ q.at = "activate" /\ q.challenge = req[r].challenge
                  /\ q.account = req[r].account /\ q.key = req[r].key)
                 => RequestSound(q, challenge, passkey) /\ Patient(q, status)
      BY <1>1 DEF RequestSound, Patient, GetAccount
    <2>2. "activate" \in Steps
      BY DEF Steps
    <2> QED
      BY <1>1, <1>3, <2>1, <2>2, GoToWalks
  <1> QED
    BY <1>2, <1>3 DEF GetAccount

LEMMA ActivateWalks ==
  ASSUME TypeOK, Sound, NEW r \in Requests, Activate(r)
  PROVE  TypeOK' /\ \E q : Walks(r, q)
  <1> DEFINE q == [req[r] EXCEPT !.at = "createSession"]
  <1>1. /\ RequestSound(req[r], challenge, passkey) /\ req[r].at = "activate"
        /\ req[r] \in Request
    BY DEF Activate, Sound, TypeOK
  <1>2. /\ status' = [status EXCEPT ![req[r].account] = "active"]
        /\ UNCHANGED <<challenge, passkey, session>>
    BY DEF Activate
  <1>3. status' \in [Accounts -> Statuses] /\ StatusKept
    BY <1>2 DEF TypeOK, Statuses, StatusKept
  <1>4. /\ q \in Request /\ q.at = "createSession" /\ q.challenge = req[r].challenge
        /\ q.account = req[r].account /\ q.key = req[r].key
    BY GoesOn DEF Steps
  <1>5. req' = [req EXCEPT ![r] = q]
    BY DEF Activate, GoTo, TypeOK
  <1> HIDE DEF q
  <1>6. RequestSound(q, challenge', passkey')
    BY <1>1, <1>2, <1>4 DEF RequestSound, Earned
  <1>7. Patient(q, status')
    BY <1>2, <1>4 DEF Patient, TypeOK
  <1>8. Moves(r, q)
    BY <1>3, <1>4, <1>5, <1>6, <1>7 DEF Moves, TypeOK
  <1>9. TypeOK'
    BY <1>2, <1>3, <1>4, <1>5 DEF TypeOK
  <1>10. ChallengesKept /\ SameKeys /\ SameSessions
    BY <1>2 DEF ChallengesKept, SameKeys, SameKey, SameSessions, SameSession
  <1> QED
    BY <1>4, <1>8, <1>9, <1>10 DEF Walks

LEMMA SessionGranted ==
  ASSUME TypeOK, Sound, NEW r \in Requests, CreateSession(r)
  PROVE  TypeOK' /\ \E t \in Tokens : GetsSession(r, t)
  <1>1. PICK t \in Tokens :
          /\ session[t].state = "absent"
          /\ session' = [session EXCEPT ![t] =
               [state |-> "live", account |-> req[r].account,
                by |-> req[r].challenge, key |-> req[r].key]]
    BY DEF CreateSession
  <1>2. req' = [req EXCEPT ![r] = Idle] /\ UNCHANGED <<status, challenge, passkey>>
    BY DEF CreateSession, Refuse
  <1>3. session' \in [Tokens -> Session]
    BY <1>1 DEF TypeOK, Session, Request
  <1>4. Moves(r, Idle)
    BY <1>2, IdleTypes, IdleSound DEF Moves, StatusKept, TypeOK
  <1>5. TypeOK'
    BY <1>2, <1>3, IdleTypes DEF TypeOK
  <1>6. GetsSession(r, t)
    BY <1>1, <1>2, <1>4 DEF GetsSession, CreateSession, TypeOK
  <1> QED
    BY <1>5, <1>6

LEMMA PasskeyGranted ==
  ASSUME TypeOK, Sound, NEW r \in Requests, NEW k \in Keys, NEW n \in 0..MaxCounter,
         AddPasskey(r, k, n)
  PROVE  TypeOK' /\ GetsPasskey(r, k)
  <1>1. req' = [req EXCEPT ![r] = Idle] /\ UNCHANGED <<status, challenge, session>>
    BY DEF AddPasskey, Refuse
  <1>2. passkey' \in [Keys -> Passkey]
    BY DEF AddPasskey, TypeOK, Passkey, Request
  <1>3. Moves(r, Idle)
    BY <1>1, IdleTypes, IdleSound DEF Moves, StatusKept, TypeOK
  <1>4. TypeOK'
    BY <1>1, <1>2, IdleTypes DEF TypeOK
  <1>5. GetsPasskey(r, k)
    BY <1>1, <1>3 DEF GetsPasskey, AddPasskey, TypeOK
  <1> QED
    BY <1>4, <1>5

LEMMA RequestSteps ==
  ASSUME TypeOK, Sound, UnclaimedIsUntouched, NEW r \in Requests, RequestStep(r)
  PROVE  /\ TypeOK'
         /\ \/ \E q : Walks(r, q)
            \/ \E c \in Challenges : \E q : Spends(r, q, c)
            \/ \E t \in Tokens : GetsSession(r, t)
            \/ \E k \in Keys : GetsPasskey(r, k)
  <1> DEFINE Goal == /\ TypeOK'
                     /\ \/ \E q : Walks(r, q)
                        \/ \E c \in Challenges : \E q : Spends(r, q, c)
                        \/ \E t \in Tokens : GetsSession(r, t)
                        \/ \E k \in Keys : GetsPasskey(r, k)
  <1>1. ASSUME NEW a \in Accounts, AskClaimCode(r, a) \/ AskRecoveryCode(r, a) PROVE Goal
    <2>1. TypeOK' /\ \E q : Walks(r, q)
      BY <1>1, StartWalks DEF AskClaimCode, AskRecoveryCode, Purposes
    <2> QED
      BY <2>1
  <1>2. ASSUME NEW a \in Accounts \cup {None}, StartAuthentication(r, a) PROVE Goal
    <2>1. TypeOK' /\ \E q : Walks(r, q)
      BY <1>2, StartWalks DEF StartAuthentication, Purposes
    <2> QED
      BY <2>1
  <1>3. ASSUME NEW t \in Tokens, Validate(r, t) PROVE Goal
    BY <1>3, ValidateWalks
  <1>4. ASSUME InsertChallenge(r) PROVE Goal
    BY <1>4, InsertWalks
  <1>5. ASSUME ResolveActor(r) PROVE Goal
    BY <1>5, ResolveWalks
  <1>6. ASSUME NEW c \in Challenges,
               ConsumeForRegistration(r, c) \/ ConsumeForClaim(r, c) \/ Recover(r, c)
        PROVE  Goal
    <2>1. TypeOK' /\ \E q : Spends(r, q, c)
      BY <1>6, RegistrationSpends, ClaimSpends, RecoverSpends
    <2> QED
      BY <2>1
  <1>7. ASSUME NEW c \in Challenges, NEW k \in Keys, NEW n \in 0..MaxCounter,
               ConsumeForLogin(r, c, k, n)
        PROVE  Goal
    BY <1>7, LoginSpends
  <1>8. ASSUME NEW k \in Keys, NEW n \in 0..MaxCounter, AddPasskey(r, k, n) PROVE Goal
    BY <1>8, PasskeyGranted
  <1>9. ASSUME GetPasskey(r) PROVE Goal
    BY <1>9, PasskeyWalks
  <1>10. ASSUME UpdateCounter(r) PROVE Goal
    BY <1>10, CounterWalks
  <1>11. ASSUME GetAccount(r) PROVE Goal
    BY <1>11, AccountWalks
  <1>12. ASSUME Activate(r) PROVE Goal
    BY <1>12, ActivateWalks
  <1>13. ASSUME CreateSession(r) PROVE Goal
    BY <1>13, SessionGranted
  <1>14. ASSUME Abort(r) PROVE Goal
    BY <1>14, RefuseWalks DEF Abort
  <1> HIDE DEF Goal
  <1>15. Goal
    BY <1>1, <1>2, <1>3, <1>4, <1>5, <1>6, <1>7, <1>8, <1>9, <1>10, <1>11,
       <1>12, <1>13, <1>14 DEF RequestStep
  <1> QED
    BY <1>15 DEF Goal

------------------------------------------------------------------------------
(* Each kind of step keeps the invariant.                                  *)

\* What was sound stays sound when the tables only grow.
LEMMA SoundKept ==
  ASSUME TypeOK, Sound, ChallengesKept, SameKeys
  PROVE  /\ CodesBound(challenge')
         /\ \A r \in Requests : RequestSound(req[r], challenge', passkey')
         /\ \A t \in Tokens : SessionSound(session[t], challenge', passkey')
         /\ \A k \in Keys : PasskeySound(passkey[k], challenge')
  <1>1. CodesBound(challenge')
    BY DEF Sound, CodesBound, ChallengesKept
  <1>2. ASSUME NEW c \in Challenges, challenge[c].state = "consumed"
        PROVE  /\ challenge'[c].state = "consumed"
               /\ challenge'[c].purpose = challenge[c].purpose
               /\ challenge'[c].account = challenge[c].account
    BY <1>2 DEF ChallengesKept
  <1>3. \A c \in Challenges : \A a, k :
          (challenge[c].state = "consumed" /\ Earned(challenge, passkey, c, a, k))
             => Earned(challenge', passkey', c, a, k)
    BY <1>2 DEF Earned, SameKeys, SameKey
  <1>4. ASSUME NEW r \in Requests
        PROVE  RequestSound(req[r], challenge', passkey')
    <2>1. req[r].challenge \in Challenges \cup {None}
      BY DEF TypeOK, Request
    <2>2. RequestSound(req[r], challenge, passkey)
      BY DEF Sound
    <2> QED
      BY <1>2, <1>3, <2>1, <2>2 DEF RequestSound, SameKeys, SameKey
  <1>5. ASSUME NEW t \in Tokens
        PROVE  SessionSound(session[t], challenge', passkey')
    <2>1. session[t].by \in Challenges \cup {None}
      BY DEF TypeOK, Session
    <2> QED
      BY <1>2, <1>3, <2>1 DEF Sound, SessionSound
  <1>6. ASSUME NEW k \in Keys
        PROVE  PasskeySound(passkey[k], challenge')
    <2>1. passkey[k].by \in Challenges \cup {None}
      BY DEF TypeOK, Passkey
    <2> QED
      BY <1>2, <2>1 DEF Sound, PasskeySound
  <1> QED
    BY <1>1, <1>4, <1>5, <1>6

LEMMA StillSession ==
  \A s, s2, ch, pk : SameSession(s, s2) /\ SessionSound(s, ch, pk) => SessionSound(s2, ch, pk)
  BY DEF SameSession, SessionSound

LEMMA StillPasskey ==
  \A p, p2, ch : SameKey(p, p2) /\ PasskeySound(p, ch) => PasskeySound(p2, ch)
  BY DEF SameKey, PasskeySound

\* Steps of the first two kinds, and those of the world.
LEMMA GrowingSound ==
  ASSUME TypeOK, Sound, ChallengesKept, SameKeys, SameSessions,
         \A r \in Requests : req'[r] = req[r] \/ RequestSound(req'[r], challenge', passkey')
  PROVE  Sound'
  <1>1. \A r \in Requests : RequestSound(req'[r], challenge', passkey')
    BY SoundKept
  <1>2. \A t \in Tokens : SessionSound(session'[t], challenge', passkey')
    BY SoundKept, StillSession DEF SameSessions
  <1>3. \A k \in Keys : PasskeySound(passkey'[k], challenge')
    BY SoundKept, StillPasskey DEF SameKeys
  <1> QED
    BY <1>1, <1>2, <1>3, SoundKept DEF Sound

LEMMA GrowingUntouched ==
  ASSUME UnclaimedIsUntouched, SameKeys, SameSessions, StatusKept,
         \A r \in Requests : req'[r] = req[r] \/ Patient(req'[r], status')
  PROVE  UnclaimedIsUntouched'
  BY DEF UnclaimedIsUntouched, SameKeys, SameKey, SameSessions, SameSession,
         StatusKept, Patient

LEMMA GrowingSpent ==
  ASSUME SpentOnce, SameKeys, SameSessions
  PROVE  SpentOnce'
  BY DEF SpentOnce, SameKeys, SameKey, SameSessions, SameSession

\* A step that takes no new challenge into its hand.
LEMMA GrowingApart ==
  ASSUME HeldApart, SameKeys, SameSessions,
         \A r \in Requests : req'[r].challenge \in {None, req[r].challenge}
  PROVE  HeldApart'
  BY DEF HeldApart, SameKeys, SameKey, SameSessions, SameSession

Rest == Sound' /\ HeldApart' /\ SpentOnce' /\ UnclaimedIsUntouched'

LEMMA WalkKeeps ==
  ASSUME IInv, NEW r \in Requests, NEW q, Walks(r, q)
  PROVE  Rest
  <1>1. \A s \in Requests : req'[s] = req[s] \/ RequestSound(req'[s], challenge', passkey')
    BY DEF Walks, Moves
  <1>2. \A s \in Requests : req'[s] = req[s] \/ Patient(req'[s], status')
    BY DEF Walks, Moves
  <1>3. \A s \in Requests : req'[s].challenge \in {None, req[s].challenge}
    BY IdleTypes DEF Walks, Moves
  <1>4. Sound'
    BY <1>1, GrowingSound DEF Walks, IInv
  <1>5. HeldApart'
    BY <1>3, GrowingApart DEF Walks, IInv
  <1>6. SpentOnce'
    BY GrowingSpent DEF Walks, IInv
  <1>7. UnclaimedIsUntouched'
    BY <1>2, GrowingUntouched DEF Walks, Moves, IInv
  <1> QED
    BY <1>4, <1>5, <1>6, <1>7 DEF Rest

LEMMA WorldKeeps ==
  ASSUME IInv, WorldStep
  PROVE  TypeOK' /\ Rest
  <1>1. TypeOK' /\ ChallengesKept /\ SameKeys /\ SameSessions /\ req' = req
    BY WorldTypes, WorldWalks DEF IInv
  <1>2. StatusKept
    BY DEF WorldStep, ChallengeExpires, SessionExpires, RevokeSession, RevokeAll,
           Suspend, RevokePasskey, StatusKept, IInv, TypeOK
  <1>3. Sound' /\ HeldApart' /\ SpentOnce' /\ UnclaimedIsUntouched'
    BY <1>1, <1>2, GrowingSound, GrowingApart, GrowingSpent, GrowingUntouched DEF IInv
  <1> QED
    BY <1>1, <1>3 DEF Rest

\* A challenge that was open is in nobody's hand and was not spent.
LEMMA OpenIsFree ==
  ASSUME IInv, NEW c \in Challenges, challenge[c].state = "open"
  PROVE  /\ \A s \in Requests : req[s].challenge # c
         /\ \A t \in Tokens : session[t].by # c
         /\ \A k \in Keys : passkey[k].by # c
  <1>0. c # None
    BY IdentityAssumption
  <1>1. ASSUME NEW s \in Requests PROVE req[s].challenge # c
    BY <1>0 DEF IInv, Sound, RequestSound
  <1>2. ASSUME NEW t \in Tokens PROVE session[t].by # c
    BY <1>0 DEF IInv, Sound, SessionSound
  <1>3. ASSUME NEW k \in Keys PROVE passkey[k].by # c
    BY <1>0 DEF IInv, Sound, PasskeySound
  <1> QED
    BY <1>1, <1>2, <1>3

LEMMA SpendKeeps ==
  ASSUME IInv, NEW r \in Requests, NEW c \in Challenges, NEW q, Spends(r, q, c)
  PROVE  Rest
  <1>1. \A s \in Requests : req'[s] = req[s] \/ RequestSound(req'[s], challenge', passkey')
    BY DEF Spends, Moves
  <1>2. \A s \in Requests : req'[s] = req[s] \/ Patient(req'[s], status')
    BY DEF Spends, Moves
  <1>3. Sound'
    BY <1>1, GrowingSound DEF Spends, IInv
  <1>4. SpentOnce'
    BY GrowingSpent DEF Spends, IInv
  <1>5. UnclaimedIsUntouched'
    BY <1>2, GrowingUntouched DEF Spends, Moves, IInv
  <1>6. /\ \A s \in Requests : req[s].challenge # c
        /\ \A t \in Tokens : session'[t].by # c
        /\ \A k \in Keys : passkey'[k].by # c
    BY OpenIsFree DEF Spends, SameKeys, SameKey, SameSessions, SameSession
  <1>7. /\ req'[r].challenge \in {None, c}
        /\ \A s \in Requests \ {r} : req'[s].challenge = req[s].challenge
    BY IdleTypes DEF Spends, Moves
  <1>8. HeldApart'
    BY <1>6, <1>7 DEF HeldApart, IInv, Spends, SameKeys, SameKey, SameSessions, SameSession
  <1> QED
    BY <1>3, <1>4, <1>5, <1>8 DEF Rest

LEMMA SessionKeeps ==
  ASSUME IInv, NEW r \in Requests, NEW t \in Tokens, GetsSession(r, t)
  PROVE  Rest
  <1> USE DEF GetsSession
  <1>1. /\ RequestSound(req[r], challenge, passkey) /\ req[r].challenge # None
        /\ challenge[req[r].challenge].state = "consumed"
        /\ Earned(challenge, passkey, req[r].challenge, req[r].account, req[r].key)
    BY DEF IInv, Sound, RequestSound
  <1>2. ChallengesKept /\ SameKeys
    BY DEF ChallengesKept, SameKeys, SameKey
  <1>3. \A s \in Requests : req'[s] = req[s] \/ RequestSound(req'[s], challenge', passkey')
    BY DEF Moves
  <1>4. SessionSound(session'[t], challenge', passkey')
    BY <1>1 DEF SessionSound
  <1>5. Sound'
    BY <1>2, <1>3, <1>4, SoundKept DEF Sound, IInv
  <1>6. /\ \A u \in Tokens : session[u].by # req[r].challenge
        /\ \A k \in Keys : passkey[k].by # req[r].challenge
        /\ \A s \in Requests \ {r} : req[s].challenge # req[r].challenge
    BY <1>1 DEF IInv, HeldApart
  <1>7. /\ req'[r].challenge = None
        /\ \A s \in Requests \ {r} : req'[s] = req[s]
    BY IdleTypes DEF Moves
  <1>8. HeldApart'
    BY <1>6, <1>7 DEF HeldApart, IInv
  <1>9. SpentOnce'
    BY <1>1, <1>6 DEF SpentOnce, IInv
  <1>10. UnclaimedIsUntouched'
    <2>1. \A a \in Accounts : status[a] = "pending_claim" => req[r].account # a
      BY DEF IInv, UnclaimedIsUntouched
    <2>2. \A a \in Accounts : status'[a] = "pending_claim" => status[a] = "pending_claim"
      BY DEF Moves, StatusKept
    <2>3. \A a \in Accounts : req'[r].account # a
      BY IdleTypes, IdentityAssumption DEF Moves
    <2> QED
      BY <1>7, <2>1, <2>2, <2>3 DEF IInv, UnclaimedIsUntouched
  <1> QED
    BY <1>5, <1>8, <1>9, <1>10 DEF Rest

LEMMA PasskeyKeeps ==
  ASSUME IInv, NEW r \in Requests, NEW k \in Keys, GetsPasskey(r, k)
  PROVE  Rest
  <1> USE DEF GetsPasskey
  <1>1. /\ RequestSound(req[r], challenge, passkey) /\ req[r].challenge # None
        /\ challenge[req[r].challenge].state = "consumed"
        /\ challenge[req[r].challenge].purpose = "register_passkey"
        /\ challenge[req[r].challenge].account = req[r].account
        /\ req[r].account \in Accounts
    BY DEF IInv, Sound, RequestSound
  <1>2. \A c, a, l : Earned(challenge, passkey, c, a, l) => Earned(challenge', passkey', c, a, l)
    BY DEF Earned
  <1>3. ASSUME NEW s \in Requests PROVE RequestSound(req'[s], challenge', passkey')
    <2>1. CASE s = r
      BY <2>1 DEF Moves
    <2>2. CASE s # r
      <3>1. RequestSound(req[s], challenge, passkey) /\ req'[s] = req[s]
        BY <2>2 DEF IInv, Sound, Moves
      <3> QED
        BY <1>2, <3>1 DEF RequestSound
    <2> QED
      BY <2>1, <2>2
  <1>4. \A t \in Tokens : SessionSound(session'[t], challenge', passkey')
    BY <1>2 DEF IInv, Sound, SessionSound
  <1>5. PasskeySound(passkey'[k], challenge')
    BY <1>1 DEF PasskeySound
  <1>6. Sound'
    BY <1>3, <1>4, <1>5 DEF Sound, IInv
  <1>7. /\ \A u \in Tokens : session[u].by # req[r].challenge
        /\ \A l \in Keys : passkey[l].by # req[r].challenge
        /\ \A s \in Requests \ {r} : req[s].challenge # req[r].challenge
    BY <1>1 DEF IInv, HeldApart
  <1>8. /\ req'[r].challenge = None
        /\ \A s \in Requests \ {r} : req'[s] = req[s]
    BY IdleTypes DEF Moves
  <1>9. HeldApart'
    BY <1>7, <1>8 DEF HeldApart, IInv
  <1>10. SpentOnce'
    BY <1>1, <1>7 DEF SpentOnce, IInv
  <1>11. UnclaimedIsUntouched'
    <2>1. \A a \in Accounts : status[a] = "pending_claim" => req[r].account # a
      BY DEF IInv, UnclaimedIsUntouched
    <2>2. \A a \in Accounts : status'[a] = "pending_claim" => status[a] = "pending_claim"
      BY DEF Moves, StatusKept
    <2>3. \A a \in Accounts : req'[r].account # a
      BY IdleTypes, IdentityAssumption DEF Moves
    <2> QED
      BY <1>8, <2>1, <2>2, <2>3 DEF IInv, UnclaimedIsUntouched
  <1> QED
    BY <1>6, <1>9, <1>10, <1>11 DEF Rest

------------------------------------------------------------------------------
(* The theorems.                                                           *)

LEMMA InitInvariant == Init => IInv
  <1> SUFFICES ASSUME Init PROVE IInv
    OBVIOUS
  <1>1. Sound
    <2>1. CodesBound(challenge)
      BY IdentityAssumption DEF Init, CodesBound, NoChallenge, Purposes
    <2>2. \A r \in Requests : RequestSound(req[r], challenge, passkey)
      BY IdleSound DEF Init
    <2>3. \A t \in Tokens : SessionSound(session[t], challenge, passkey)
      BY DEF Init, SessionSound, NoSession
    <2>4. \A k \in Keys : PasskeySound(passkey[k], challenge)
      BY DEF Init, PasskeySound, NoPasskey
    <2> QED
      BY <2>1, <2>2, <2>3, <2>4 DEF Sound
  <1>2. HeldApart
    BY IdleTypes DEF Init, HeldApart
  <1>3. SpentOnce
    BY DEF Init, SpentOnce, NoSession, NoPasskey
  <1>4. UnclaimedIsUntouched
    BY IdleTypes, IdentityAssumption DEF Init, UnclaimedIsUntouched, NoSession, NoPasskey
  <1> QED
    BY <1>1, <1>2, <1>3, <1>4, InitTypes DEF IInv

LEMMA StepInvariant == IInv /\ [Next]_vars => IInv'
  <1> SUFFICES ASSUME IInv, [Next]_vars PROVE IInv'
    OBVIOUS
  <1>1. ASSUME WorldStep PROVE IInv'
    BY <1>1, WorldKeeps DEF IInv, Rest
  <1>2. ASSUME NEW r \in Requests, RequestStep(r) PROVE IInv'
    <2>1. TypeOK'
      BY <1>2, RequestSteps DEF IInv
    <2>2. Rest
      BY <1>2, RequestSteps, WalkKeeps, SpendKeeps, SessionKeeps, PasskeyKeeps DEF IInv
    <2> QED
      BY <2>1, <2>2 DEF IInv, Rest
  <1>3. CASE UNCHANGED vars
    BY <1>3 DEF vars, IInv, TypeOK, Sound, HeldApart, SpentOnce, UnclaimedIsUntouched
  <1> QED
    BY <1>1, <1>2, <1>3 DEF Next

(* Every reachable state satisfies the inductive invariant.                *)
THEOREM Invariance == Spec => []IInv
  <1> QED
    BY InitInvariant, StepInvariant, PTL DEF Spec

(* The rows and the requests hold what the code puts in them.              *)
THEOREM TypeCorrect == Spec => []TypeOK
  <1>1. IInv => TypeOK
    BY DEF IInv
  <1> QED
    BY <1>1, Invariance, PTL

(* One challenge or code buys at most one session or passkey, however many *)
(* requests present it at once (consumeChallenge).                         *)
THEOREM ChallengesBuyOnce == Spec => []SpentOnce
  <1>1. IInv => SpentOnce
    BY DEF IInv
  <1> QED
    BY <1>1, Invariance, PTL

(* Sessions and passkeys belong to the account whose code, signature or    *)
(* session earned them (claimAccount, finishAuthentication,                *)
(* finishRegistration).                                                    *)
THEOREM GrantsEarned == Spec => []GrantsAreEarned
  <1>1. IInv => GrantsAreEarned
    BY DEF IInv, Sound, SessionSound, PasskeySound, Earned, GrantsAreEarned
  <1> QED
    BY <1>1, Invariance, PTL

(* An account that was never claimed has no session and no passkey.        *)
THEOREM UnclaimedUntouched == Spec => []UnclaimedIsUntouched
  <1>1. IInv => UnclaimedIsUntouched
    BY DEF IInv
  <1> QED
    BY <1>1, Invariance, PTL

------------------------------------------------------------------------------
(* What a step does to the claims that were let through.  Nobody is let    *)
(* through any more once the account is not pending.                       *)

\* A request that is written leaves the others alone.
LEMMA Written ==
  ASSUME TypeOK, NEW r \in Requests, NEW q, req' = [req EXCEPT ![r] = q]
  PROVE  req'[r] = q /\ \A s \in Requests \ {r} : req'[s] = req[s]
  BY DEF TypeOK

LEMMA WentTo ==
  ASSUME TypeOK, NEW r \in Requests, NEW st, GoTo(r, st)
  PROVE  /\ req'[r].at = st /\ req'[r].account = req[r].account
         /\ \A s \in Requests \ {r} : req'[s] = req[s]
  <1> DEFINE q == [req[r] EXCEPT !.at = st]
  <1>1. q.at = st /\ q.account = req[r].account
    BY DEF TypeOK, Request
  <1>2. req' = [req EXCEPT ![r] = q]
    BY DEF GoTo
  <1> HIDE DEF q
  <1> QED
    BY <1>1, <1>2, Written

LEMMA WasRefused ==
  ASSUME TypeOK, NEW r \in Requests, Refuse(r)
  PROVE  req'[r].at = "idle" /\ \A s \in Requests \ {r} : req'[s] = req[s]
  <1>1. Idle.at = "idle"
    BY DEF Idle
  <1> QED
    BY <1>1, Written DEF Refuse

\* How a request gets where the claims are.
LEMMA Arrivals ==
  ASSUME TypeOK, NEW r \in Requests, RequestStep(r)
  PROVE  /\ \A s \in Requests \ {r} : req'[s] = req[s]
         /\ req'[r].at = "activate" => GetAccount(r)
         /\ req'[r].at = "createSession" => Activate(r) \/ UpdateCounter(r)
         /\ req'[r].at = "updateCounter" => GetPasskey(r)
  <1>1. CASE Activate(r)
    BY <1>1, WentTo DEF Activate
  <1>2. CASE UpdateCounter(r)
    BY <1>2, WentTo DEF UpdateCounter
  <1>3. CASE GetAccount(r)
    BY <1>3, WentTo, WasRefused DEF GetAccount
  <1>4. CASE GetPasskey(r)
    <2>1. CASE Refuse(r)
      BY <1>4, <2>1, WasRefused DEF GetPasskey
    <2>2. CASE ~Refuse(r)
      <3> DEFINE q == [[req[r] EXCEPT !.at = "updateCounter"]
                         EXCEPT !.account = passkey[req[r].key].account]
      <3>1. q.at = "updateCounter"
        BY DEF TypeOK, Request
      <3>2. req' = [req EXCEPT ![r] = q]
        BY <1>4, <2>2 DEF GetPasskey, TypeOK
      <3> HIDE DEF q
      <3> QED
        BY <1>4, <3>1, <3>2, Written DEF GetPasskey
    <2> QED
      BY <2>1, <2>2
  <1>5. CASE ResolveActor(r)
    BY <1>5, WentTo, WasRefused DEF ResolveActor
  <1>6. CASE \/ InsertChallenge(r) \/ CreateSession(r) \/ Abort(r)
             \/ \E k \in Keys, n \in 0..MaxCounter : AddPasskey(r, k, n)
    <2>1. Refuse(r)
      BY <1>6 DEF InsertChallenge, CreateSession, Abort, AddPasskey
    <2> QED
      BY <2>1, WasRefused
  <1>7. CASE \/ \E a \in Accounts : AskClaimCode(r, a) \/ AskRecoveryCode(r, a)
             \/ \E a \in Accounts \cup {None} : StartAuthentication(r, a)
             \/ \E t \in Tokens : Validate(r, t)
    <2>1. \A p, a, st : Started(p, a, st).at = st
      BY DEF Started, Idle
    <2>2. \/ \E p, a : req' = [req EXCEPT ![r] = Started(p, a, "insertChallenge")]
          \/ \E p, a : req' = [req EXCEPT ![r] = Started(p, a, "resolve")]
      BY <1>7, Zenon DEF AskClaimCode, AskRecoveryCode, StartAuthentication, Validate, Started
    <2> QED
      BY <2>1, <2>2, Written
  <1>8. ASSUME NEW c \in Challenges, ConsumeForRegistration(r, c)
        PROVE  /\ \A s \in Requests \ {r} : req'[s] = req[s]
               /\ req'[r].at \in {"idle", "addPasskey"}
    <2>1. CASE Refuse(r)
      BY <1>8, <2>1, WasRefused DEF ConsumeForRegistration
    <2>2. CASE ~Refuse(r)
      <3> DEFINE q == [[req[r] EXCEPT !.at = "addPasskey"] EXCEPT !.challenge = c]
      <3>1. q.at = "addPasskey"
        BY DEF TypeOK, Request
      <3>2. req' = [req EXCEPT ![r] = q]
        BY <1>8, <2>2 DEF ConsumeForRegistration, TypeOK
      <3> HIDE DEF q
      <3> QED
        BY <1>8, <3>1, <3>2, Written DEF ConsumeForRegistration
    <2> QED
      BY <2>1, <2>2
  <1>9. ASSUME NEW c \in Challenges, ConsumeForClaim(r, c)
        PROVE  /\ \A s \in Requests \ {r} : req'[s] = req[s]
               /\ req'[r].at \in {"idle", "getAccount"}
    <2> DEFINE q == [Idle EXCEPT !.at = "getAccount", !.challenge = c,
                                 !.account = challenge[c].account]
    <2>1. q.at = "getAccount"
      BY DEF Idle
    <2>2. Refuse(r) \/ req' = [req EXCEPT ![r] = q]
      BY <1>9 DEF ConsumeForClaim
    <2> HIDE DEF q
    <2> QED
      BY <1>9, <2>1, <2>2, Written, WasRefused DEF ConsumeForClaim
  <1>10. ASSUME NEW c \in Challenges, NEW k \in Keys, NEW n \in 0..MaxCounter,
                ConsumeForLogin(r, c, k, n)
         PROVE  /\ \A s \in Requests \ {r} : req'[s] = req[s]
                /\ req'[r].at \in {"idle", "getPasskey"}
    <2> DEFINE q == [Idle EXCEPT !.at = "getPasskey", !.challenge = c, !.key = k,
                                 !.counter = n]
    <2>1. q.at = "getPasskey"
      BY DEF Idle
    <2>2. Refuse(r) \/ req' = [req EXCEPT ![r] = q]
      BY <1>10 DEF ConsumeForLogin
    <2> HIDE DEF q
    <2> QED
      BY <1>10, <2>1, <2>2, Written, WasRefused DEF ConsumeForLogin
  <1>11. CASE \E c \in Challenges : Recover(r, c)
    BY <1>11 DEF Recover, Idle
  <1> QED
    BY <1>1, <1>2, <1>3, <1>4, <1>5, <1>6, <1>7, <1>8, <1>9, <1>10, <1>11 DEF RequestStep

\* A challenge that is spent keeps its purpose.
LEMMA PurposeStays ==
  ASSUME TypeOK, ChallengesKept, NEW c \in Challenges, challenge[c].state = "consumed"
  PROVE  challenge'[c].purpose = challenge[c].purpose
  BY DEF ChallengesKept

\* A request that stays where it is holds the same code as before.
LEMMA BuyingStays ==
  ASSUME IInv, ChallengesKept, NEW s \in Requests, req'[s] = req[s]
  PROVE  Buying(s)' => Buying(s)
  <1> SUFFICES ASSUME req[s].at = "createSession"
               PROVE  challenge'[req[s].challenge].purpose = challenge[req[s].challenge].purpose
    BY DEF Buying
  <1>1. /\ req[s].challenge # None /\ req[s] \in Request
        /\ challenge[req[s].challenge].state = "consumed"
    BY DEF IInv, Sound, RequestSound, TypeOK
  <1> QED
    BY <1>1, PurposeStays DEF IInv, Request

LEMMA BoughtStays ==
  ASSUME IInv, ChallengesKept, NEW t \in Tokens, SameSession(session[t], session'[t])
  PROVE  Bought(t)' => Bought(t) /\ session'[t].account = session[t].account
  <1> SUFFICES ASSUME session[t].state # "absent"
               PROVE  challenge'[session[t].by].purpose = challenge[session[t].by].purpose
    BY DEF Bought, SameSession
  <1>1. /\ session[t].by # None /\ session[t] \in Session
        /\ challenge[session[t].by].state = "consumed"
    BY DEF IInv, Sound, SessionSound, TypeOK
  <1> QED
    BY <1>1, PurposeStays DEF IInv, Session

\* Apart from the reading of the status nothing lets a claim through.
LEMMA ClaimsGoOn ==
  ASSUME IInv, NEW r \in Requests, RequestStep(r), ChallengesKept, req'[r].at # "activate"
  PROVE  \A s \in Requests : Claiming(s)' => Claiming(s) /\ req'[s].account = req[s].account
  <1>0. TypeOK
    BY DEF IInv
  <1>1. ASSUME NEW s \in Requests \ {r}, Claiming(s)'
        PROVE  Claiming(s) /\ req'[s].account = req[s].account
    <2>1. req'[s] = req[s]
      BY <1>0, Arrivals
    <2> QED
      BY <1>1, <2>1, BuyingStays DEF Claiming
  <1>2. ASSUME Claiming(r)' PROVE Claiming(r) /\ req'[r].account = req[r].account
    <2>1. Buying(r)' /\ req'[r].at = "createSession"
      BY <1>2 DEF Claiming, Buying
    <2>2. CASE Activate(r)
      BY <1>0, <2>2, WentTo DEF Activate, Claiming
    <2>3. CASE UpdateCounter(r)
      <3>1. /\ challenge' = challenge /\ req'[r].challenge = req[r].challenge
            /\ challenge[req[r].challenge].purpose = "authenticate"
        BY <1>0, <2>3 DEF UpdateCounter, GoTo, IInv, Sound, RequestSound, TypeOK
      <3> QED
        BY <2>1, <3>1 DEF Buying
    <2> QED
      BY <1>0, <2>1, <2>2, <2>3, Arrivals
  <1> QED
    BY <1>1, <1>2

\* Nothing makes an account pending again.
LEMMA PendingNoMore ==
  ASSUME IInv, [Next]_vars, NEW a \in Accounts, status[a] # "pending_claim"
  PROVE  status'[a] # "pending_claim"
  <1>1. status \in [Accounts -> Statuses]
    BY DEF IInv, TypeOK
  <1>2. ASSUME NEW r \in Requests, RequestStep(r) PROVE Activate(r) \/ UNCHANGED status
    BY <1>2 DEF RequestStep, AskClaimCode, AskRecoveryCode, StartAuthentication,
            InsertChallenge, Validate, ResolveActor, ConsumeForRegistration, ConsumeForClaim,
            Recover, ConsumeForLogin, AddPasskey, GetPasskey, UpdateCounter, GetAccount,
            CreateSession, Abort
  <1>3. ASSUME NEW r \in Requests, Activate(r) PROVE status'[a] # "pending_claim"
    BY <1>1, <1>3 DEF Activate
  <1>4. CASE WorldStep
    BY <1>1, <1>4 DEF WorldStep, ChallengeExpires, SessionExpires, RevokeSession, RevokeAll,
                      Suspend, RevokePasskey
  <1> QED
    BY <1>2, <1>3, <1>4 DEF Next, vars

\* A request that claims an account after a step claimed it before, or has
\* just read that the account is pending.
LEMMA ClaimsFrom ==
  ASSUME IInv, [Next]_vars, NEW s \in Requests, Claiming(s)'
  PROVE  /\ req'[s].account = req[s].account
         /\ Claiming(s) \/ status[req[s].account] = "pending_claim"
  <1>0. TypeOK /\ Sound /\ UnclaimedIsUntouched
    BY DEF IInv
  <1>1. CASE UNCHANGED vars
    BY <1>1 DEF vars, Claiming, Buying
  <1>2. CASE WorldStep
    <2>1. ChallengesKept /\ req' = req
      BY <1>0, <1>2, WorldWalks
    <2> QED
      BY <2>1, BuyingStays DEF Claiming
  <1>3. ASSUME NEW r \in Requests, RequestStep(r)
        PROVE  /\ req'[s].account = req[s].account
               /\ Claiming(s) \/ status[req[s].account] = "pending_claim"
    <2>1. CASE req'[r].at # "activate"
      <3>1. ChallengesKept
        <4>1. ASSUME NEW t \in Tokens, GetsSession(r, t) PROVE ChallengesKept
          BY <4>1 DEF GetsSession, ChallengesKept
        <4>2. ASSUME NEW k \in Keys, GetsPasskey(r, k) PROVE ChallengesKept
          BY <4>2 DEF GetsPasskey, ChallengesKept
        <4> QED
          BY <1>0, <1>3, <4>1, <4>2, RequestSteps DEF Walks, Spends
      <3> QED
        BY <1>3, <2>1, <3>1, ClaimsGoOn
    <2>2. CASE req'[r].at = "activate"
      <3>1. GetAccount(r) /\ \A u \in Requests \ {r} : req'[u] = req[u]
        BY <1>0, <1>3, <2>2, Arrivals
      <3>2. GoTo(r, "activate") /\ status[req[r].account] = "pending_claim"
            /\ UNCHANGED challenge
        BY <1>0, <2>2, <3>1, WasRefused DEF GetAccount, Claimable
      <3>3. s # r => req'[s] = req[s] /\ Claiming(s)
        BY <3>1, <3>2 DEF Claiming, Buying
      <3> QED
        BY <1>0, <3>2, <3>3, WentTo
    <2> QED
      BY <2>1, <2>2
  <1> QED
    BY <1>1, <1>2, <1>3 DEF Next

\* A session a claim code bought was there before, or a claim that was let
\* through has bought it for its account.
LEMMA BoughtFrom ==
  ASSUME IInv, [Next]_vars, NEW t \in Tokens, Bought(t)'
  PROVE  Bought(t) \/ \E r \in Requests : Claiming(r) /\ session'[t].account = req[r].account
  <1>0. TypeOK /\ Sound /\ UnclaimedIsUntouched
    BY DEF IInv
  <1>1. CASE UNCHANGED vars
    BY <1>1 DEF vars, Bought
  <1>2. CASE ChallengesKept /\ SameSessions
    BY <1>2, BoughtStays DEF SameSessions
  <1>3. CASE WorldStep
    BY <1>0, <1>2, <1>3, WorldWalks
  <1>4. ASSUME NEW r \in Requests, NEW u \in Tokens, GetsSession(r, u)
        PROVE  Bought(t) \/ (Claiming(r) /\ session'[t].account = req[r].account)
    <2>1. /\ challenge' = challenge /\ req[r].at = "createSession"
          /\ session'[u].by = req[r].challenge /\ session'[u].account = req[r].account
          /\ t # u => session'[t] = session[t]
      BY <1>4 DEF GetsSession
    <2>2. CASE t = u
      <3>1. challenge[req[r].challenge].purpose = "claim_account"
        BY <2>1, <2>2 DEF Bought
      <3> QED
        BY <2>1, <2>2, <3>1 DEF Claiming, Buying
    <2>3. CASE t # u
      BY <2>1, <2>3 DEF Bought
    <2> QED
      BY <2>2, <2>3
  <1>5. ASSUME NEW r \in Requests, RequestStep(r)
        PROVE  \/ ChallengesKept /\ SameSessions
               \/ \E u \in Tokens : GetsSession(r, u)
    <2>1. ASSUME NEW k \in Keys, GetsPasskey(r, k) PROVE ChallengesKept /\ SameSessions
      BY <2>1 DEF GetsPasskey, ChallengesKept, SameSessions, SameSession
    <2> QED
      BY <1>0, <1>5, <2>1, RequestSteps DEF Walks, Spends
  <1> QED
    BY <1>1, <1>2, <1>3, <1>4, <1>5 DEF Next

(* Once an account is not pending any more and no claim of it is under way *)
(* past the reading of its status, no claim code ever buys a session for   *)
(* it, whatever runs beside it; so of the codes of an account only those   *)
(* that were presented together can buy (claimAccount, which reads the     *)
(* status and writes it in two statements).                                *)
THEOREM ClaimsClose == Spec => ClaimsSettle
  <1>1. ASSUME IInv, [Next]_vars, NEW a \in Accounts, Claimed(a)
        PROVE  /\ Claimed(a)'
               /\ \A t \in Tokens : Bought(t)' /\ session'[t].account = a => Bought(t)
    <2>1. \A s \in Requests : req'[s].account = a => ~ Claiming(s)'
      BY <1>1, ClaimsFrom DEF Claimed
    <2>2. status'[a] # "pending_claim"
      BY <1>1, PendingNoMore DEF Claimed
    <2>3. \A t \in Tokens : Bought(t)' /\ session'[t].account = a => Bought(t)
      BY <1>1, BoughtFrom DEF Claimed
    <2> QED
      BY <2>1, <2>2, <2>3 DEF Claimed
  <1>2. IInv /\ [Next]_vars =>
          [\A a \in Accounts : Claimed(a) =>
             /\ Claimed(a)'
             /\ \A t \in Tokens : Bought(t)' /\ session'[t].account = a => Bought(t)]_vars
    BY <1>1
  <1> QED
    BY <1>2, Invariance, PTL DEF Spec, ClaimsSettle

------------------------------------------------------------------------------
(* Logins with one key.  The counter is compared with the row that was     *)
(* read and written later, whatever it has become by then.                 *)

\* What a step of a request does to the keys.
LEMMA KeysWritten ==
  ASSUME TypeOK, NEW r \in Requests, RequestStep(r)
  PROVE  \/ UNCHANGED passkey
         \/ UpdateCounter(r)
         \/ \E k \in Keys, n \in 0..MaxCounter : AddPasskey(r, k, n)
  BY DEF RequestStep, AskClaimCode, AskRecoveryCode, StartAuthentication, InsertChallenge,
         Validate, ResolveActor, ConsumeForRegistration, ConsumeForClaim, Recover,
         ConsumeForLogin, GetPasskey, GetAccount, Activate, CreateSession, Abort

\* A login that goes on holds a counter its key accepts.
LEMMA LoginAccepted ==
  ASSUME TypeOK, NEW r \in Requests, GetPasskey(r), req'[r].at = "updateCounter"
  PROVE  /\ UNCHANGED passkey
         /\ CounterAccepted(req'[r].counter, passkey[req'[r].key].counter)
  <1> DEFINE k == req[r].key
             q == [[req[r] EXCEPT !.at = "updateCounter"] EXCEPT !.account = passkey[k].account]
  <1>1. q.key = k /\ q.counter = req[r].counter
    BY DEF TypeOK, Request
  <1>2. ~Refuse(r)
    BY WasRefused
  <1>3. /\ CounterAccepted(req[r].counter, passkey[k].counter)
        /\ req' = [req EXCEPT ![r] = q]
        /\ UNCHANGED passkey
    BY <1>2 DEF GetPasskey, TypeOK
  <1> HIDE DEF k, q
  <1>4. req'[r] = q
    BY <1>3, Written
  <1> QED
    BY <1>1, <1>3, <1>4

\* The counter that is written is that of the login.
LEMMA CounterWritten ==
  ASSUME IInv, NEW r \in Requests, UpdateCounter(r)
  PROVE  /\ req[r].at = "updateCounter" /\ req[r].key \in Keys
         /\ passkey'[req[r].key].state = passkey[req[r].key].state
         /\ passkey'[req[r].key].counter = req[r].counter
         /\ \A k \in Keys : k # req[r].key => passkey'[k] = passkey[k]
  <1> DEFINE k == req[r].key
             p == [passkey[k] EXCEPT !.counter = req[r].counter]
  <1>1. /\ req[r].at = "updateCounter" /\ k \in Keys /\ passkey \in [Keys -> Passkey]
    BY DEF UpdateCounter, IInv, Sound, RequestSound, TypeOK
  <1>2. passkey' = [passkey EXCEPT ![k] = p]
    BY <1>1 DEF UpdateCounter
  <1>3. p.state = passkey[k].state /\ p.counter = req[r].counter
    BY <1>1 DEF Passkey
  <1> HIDE DEF p
  <1>4. passkey'[k] = p /\ \A l \in Keys : l # k => passkey'[l] = passkey[l]
    BY <1>1, <1>2
  <1> QED
    BY <1>1, <1>3, <1>4

\* A key that exists stays, and its counter is written by logins alone.
LEMMA CountersStep ==
  ASSUME IInv, [Next]_vars, NEW k \in Keys, passkey[k].state # "absent"
  PROVE  /\ passkey'[k].state # "absent"
         /\ \/ passkey'[k].counter = passkey[k].counter
            \/ \E r \in Requests : /\ req[r].at = "updateCounter" /\ req[r].key = k
                                   /\ passkey'[k].counter = req[r].counter
  <1>0. TypeOK /\ passkey \in [Keys -> Passkey]
    BY DEF IInv, TypeOK
  <1>1. CASE UNCHANGED passkey
    BY <1>1
  <1>2. ASSUME NEW r \in Requests, UpdateCounter(r)
        PROVE  /\ passkey'[k].state # "absent"
               /\ \/ passkey'[k].counter = passkey[k].counter
                  \/ /\ req[r].at = "updateCounter" /\ req[r].key = k
                     /\ passkey'[k].counter = req[r].counter
    BY <1>2, CounterWritten
  <1>3. ASSUME NEW r \in Requests, NEW l \in Keys, NEW n \in 0..MaxCounter,
               AddPasskey(r, l, n)
        PROVE  passkey'[k] = passkey[k]
    BY <1>0, <1>3 DEF AddPasskey
  <1>4. ASSUME NEW l \in Keys, RevokePasskey(l)
        PROVE  passkey'[k].state # "absent" /\ passkey'[k].counter = passkey[k].counter
    <2> DEFINE p == [passkey[l] EXCEPT !.state = "revoked"]
    <2>1. passkey' = [passkey EXCEPT ![l] = p]
      BY <1>0, <1>4 DEF RevokePasskey
    <2>2. p.state = "revoked" /\ p.counter = passkey[l].counter
      BY <1>0 DEF Passkey
    <2> HIDE DEF p
    <2>3. passkey'[k] = passkey[k] \/ (k = l /\ passkey'[k] = p)
      BY <1>0, <2>1
    <2> QED
      BY <2>2, <2>3
  <1>5. CASE WorldStep
    BY <1>1, <1>4, <1>5 DEF WorldStep, ChallengeExpires, SessionExpires, RevokeSession,
                            RevokeAll, Suspend
  <1>6. ASSUME NEW r \in Requests, RequestStep(r)
        PROVE  \/ UNCHANGED passkey
               \/ UpdateCounter(r)
               \/ \E l \in Keys, n \in 0..MaxCounter : AddPasskey(r, l, n)
    BY <1>0, <1>6, KeysWritten
  <1> QED
    BY <1>1, <1>2, <1>3, <1>5, <1>6 DEF Next, vars

\* A login about to write its counter was so before, or has just compared it.
LEMMA LoginsFrom ==
  ASSUME IInv, [Next]_vars, NEW s \in Requests, req'[s].at = "updateCounter"
  PROVE  req'[s] = req[s] \/ GetPasskey(s)
  <1>0. TypeOK
    BY DEF IInv
  <1>1. ASSUME NEW r \in Requests, RequestStep(r) PROVE req'[s] = req[s] \/ GetPasskey(s)
    BY <1>0, <1>1, Arrivals
  <1>2. CASE WorldStep
    BY <1>2 DEF WorldStep, ChallengeExpires, SessionExpires, RevokeSession, RevokeAll,
                Suspend, RevokePasskey
  <1> QED
    BY <1>1, <1>2 DEF Next, vars

(* The counter of a key never falls below a count that it and every login  *)
(* about to write it have reached, for any number of logins and keys, so   *)
(* only a login that was let through together with another can set it back *)
(* (PasskeyService.ts:169).                                                *)
THEOREM CountersStay == Spec => CountersSettle
  <1>1. ASSUME IInv, [Next]_vars, NEW k \in Keys, NEW n \in 0..MaxCounter, Reached(k, n)
        PROVE  Reached(k, n)'
    <2>0. /\ TypeOK /\ n \in Nat
          /\ \A l \in Keys : passkey[l].counter \in Nat
          /\ \A s \in Requests : req[s].counter \in Nat
      BY <1>1, IdentityAssumption DEF IInv, TypeOK, Passkey, Request
    <2>1. passkey'[k].state # "absent" /\ passkey'[k].counter >= n
      BY <1>1, CountersStep DEF Reached
    <2>2. ASSUME NEW s \in Requests, req'[s].at = "updateCounter", req'[s].key = k
          PROVE  req'[s].counter >= n
      <3>1. CASE req'[s] = req[s]
        BY <1>1, <2>2, <3>1 DEF Reached
      <3>2. CASE GetPasskey(s)
        <4>1. CounterAccepted(req'[s].counter, passkey[k].counter)
          BY <2>0, <2>2, <3>2, LoginAccepted
        <4>2. req'[s].counter \in Nat
          <5>1. TypeOK'
            BY <1>1, StepInvariant DEF IInv
          <5> QED
            BY <5>1, IdentityAssumption DEF TypeOK, Request
        <4> QED
          BY <1>1, <2>0, <4>1, <4>2 DEF Reached, CounterAccepted
      <3> QED
        BY <1>1, <2>2, <3>1, <3>2, LoginsFrom
    <2> QED
      BY <2>1, <2>2 DEF Reached
  <1>2. IInv /\ [Next]_vars =>
          [\A k \in Keys, n \in 0..MaxCounter : Reached(k, n) => Reached(k, n)']_vars
    BY <1>1
  <1> QED
    BY <1>2, Invariance, PTL DEF Spec, CountersSettle
=============================================================================

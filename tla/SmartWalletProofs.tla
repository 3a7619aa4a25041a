------------------------- MODULE SmartWalletProofs --------------------------
(***************************************************************************)
(* Proofs about SmartWallet for any number of tabs, accounts, contracts    *)
(* and operations.                                                         *)
(*                                                                         *)
(* A window never counts fewer requests than it let through, which bounds  *)
(* what it lets through by the limit.  A contract is on its way in at most *)
(* one tab; before the tab has sent it nobody uses it, and afterwards only *)
(* the account of that tab does, so no address is linked that the ledger   *)
(* does not have or that is another account's.                             *)
(***************************************************************************)
EXTENDS SmartWallet, SequenceTheorems, TLAPS

Sending   == {"rate", "check", "budget", "send"}
Linking   == {"link", "readWallet", "writeWallet", "saveClaim"}
Waiting   == {"wait", "poll", "readOp", "stopped"}

Counted(w) == IF window[w] = None THEN 0 ELSE window[w].count

LimitsSound ==
  /\ window \in [Windows -> Window \cup {None}]
  /\ passed \in [Windows -> [Uses -> 0 .. MaxHits]]
  /\ \A w \in Windows, u \in Uses : /\ passed[w][u] <= Counted(w)
                                    /\ passed[w][u] <= Limit(u)

\* The addresses an account uses.
UsedBy(a) == {account[a]} \cup {wallets[a][k] : k \in DOMAIN wallets[a]}
               \cup {c \in Contracts : <<c, a>> \in claims}

\* What a tab in state q knows.
TabSound(q) ==
  /\ q.flow = "deploy" <=> q.tx # None
  /\ q.tx # None => q.at \in Sending \cup Linking
  /\ q.tx # None /\ q.at \in {"budget", "send"} => q.tx.wasm \in Allowlist
  /\ q.tx # None /\ q.at \in Sending => code[q.tx.contract] = None
  /\ q.at \in Linking => q.tx # None /\ code[q.tx.contract] \in Allowlist
  /\ q.flow \in {"submit", "poll"} => q.op \in Ops /\ op[q.op] # None
  /\ q.at \in Waiting => q.flow = "poll"

\* A contract is deployed by one tab, for one account.
OneDeployer ==
  \A t, u \in Tabs : tab[t].tx # None /\ tab[u].tx # None /\ t # u =>
    tab[t].tx.contract # tab[u].tx.contract

NotForeign ==
  \A t \in Tabs : tab[t].tx # None =>
    \A b \in Accounts \ {AccountOf[t]} : tab[t].tx.contract \notin UsedBy(b)

UsedDeployed ==
  \A a \in Accounts : \A c \in UsedBy(a) \ {None} :
    /\ code[c] \in Allowlist
    /\ \A b \in Accounts \ {a} : c \notin UsedBy(b)

ActorsDeployed == \A o \in Ops : op[o] # None => code[op[o].actor] \in Allowlist

IInv ==
  /\ TypeOK
  /\ LimitsSound
  /\ \A t \in Tabs : TabSound(tab[t])
  /\ OneDeployer
  /\ NotForeign
  /\ UsedDeployed
  /\ ActorsDeployed

------------------------------------------------------------------------------
(* Counting.                                                               *)

\* The numbers of the configuration.
LEMMA Numbers ==
  /\ RateLimit \in Nat \ {0} /\ PollLimit \in Nat \ {0} /\ Budget \in Nat \ {0}
  /\ RateWindow \in Nat \ {0} /\ BudgetWindow \in Nat \ {0}
  /\ MaxAttempts \in Nat \ {0} /\ MaxBackoff \in Nat \ {0}
  /\ MaxTime \in Nat \ {0} /\ MaxHits \in Nat \ {0}
BY SmartWalletAssumption

\* Every limit is a positive number.
LEMMA LimitTyped == \A u \in Uses : Limit(u) \in Nat \ {0}
BY Numbers DEF Uses, Limit

\* A window counts a request and lets it through or not.
LEMMA CountHitSound ==
  ASSUME IInv, NEW w \in Windows, NEW u \in Uses, NEW length \in Nat, NEW now \in Times,
         CountHit(w, u, HitLimit(w, length, now))
  PROVE  LimitsSound'
<1> DEFINE hit == HitLimit(w, length, now)
           begun == IF hit.count = 1 THEN [x \in Uses |-> 0] ELSE passed[w]
           let == [begun EXCEPT ![u] = @ + IF Over(u, hit) THEN 0 ELSE 1]
<1>1. hit.count <= MaxHits /\ window' = [window EXCEPT ![w] = hit]
      /\ passed' = [passed EXCEPT ![w] = let]
  BY DEF CountHit
<1>2. /\ window[w] \in Window \cup {None} /\ passed[w] \in [Uses -> 0 .. MaxHits]
      /\ \A x \in Uses : passed[w][x] <= Counted(w) /\ passed[w][x] <= Limit(x)
  BY DEF IInv, LimitsSound
<1>3. now \in Nat /\ None \notin Window
  BY SmartWalletAssumption, Numbers DEF Times
<1>4. /\ hit \in [count : Nat \ {0}, resetAt : Nat]
      /\ hit.count # 1 => Counted(w) \in Nat /\ hit.count = Counted(w) + 1
  <2>1. CASE window[w] = None \/ window[w].resetAt <= now
    <3>1. hit = [count |-> 1, resetAt |-> now + length]
      BY <2>1 DEF HitLimit
    <3> QED  BY <1>3, <3>1
  <2>2. CASE ~ (window[w] = None \/ window[w].resetAt <= now)
    <3>1. window[w] \in Window /\ hit = [window[w] EXCEPT !.count = @ + 1]
      BY <1>2, <2>2 DEF HitLimit
    <3>2. window[w].count \in Nat \ {0} /\ Counted(w) = window[w].count
      BY <1>3, <2>2, <3>1, Numbers DEF Window, Counted
    <3> QED  BY <3>1, <3>2 DEF Window
  <2> QED  BY <2>1, <2>2
<1> HIDE DEF hit
<1>5. /\ begun \in [Uses -> 0 .. MaxHits]
      /\ \A x \in Uses : begun[x] <= Limit(x) /\ begun[x] <= hit.count - 1
  <2>1. CASE hit.count = 1
    BY <2>1, LimitTyped, Numbers
  <2>2. CASE hit.count # 1
    <3>1. begun = passed[w] /\ hit.count - 1 = Counted(w)
      BY <1>4, <2>2
    <3> QED  BY <1>2, <3>1
  <2> QED  BY <2>1, <2>2
<1>6. \A x \in Uses : x # u => let[x] = begun[x]
  BY <1>5
<1>7. /\ let[u] \in 0 .. MaxHits
      /\ let[u] <= hit.count /\ let[u] <= Limit(u)
  <2>1. CASE Over(u, hit)
    BY <1>1, <1>4, <1>5, <2>1, LimitTyped, Numbers
  <2>2. CASE ~ Over(u, hit)
    <3>1. hit.count <= Limit(u)
      BY <1>4, <2>2, LimitTyped DEF Over
    <3>2. let[u] = begun[u] + 1
      BY <1>5, <2>2
    <3> QED  BY <1>1, <1>4, <1>5, <3>1, <3>2, LimitTyped, Numbers
  <2> QED  BY <2>1, <2>2
<1>8. let \in [Uses -> 0 .. MaxHits]
  BY <1>5, <1>6, <1>7
<1>9. \A x \in Uses : let[x] <= hit.count /\ let[x] <= Limit(x)
  BY <1>4, <1>5, <1>6, <1>7, Numbers
<1> HIDE DEF let
<1>10. hit \in Window
  BY <1>1, <1>4, Numbers DEF Window
<1>11. window' \in [Windows -> Window \cup {None}] /\ passed' \in [Windows -> [Uses -> 0 .. MaxHits]]
  BY <1>1, <1>8, <1>10 DEF IInv, LimitsSound
<1>12. ASSUME NEW v \in Windows, NEW x \in Uses
       PROVE  passed'[v][x] <= Counted(v)' /\ passed'[v][x] <= Limit(x)
  <2>1. CASE v = w
    <3>1. window'[w] = hit /\ passed'[w] = let /\ hit # None
      BY <1>1, <1>3, <1>10 DEF IInv, LimitsSound
    <3> QED  BY <1>9, <2>1, <3>1 DEF Counted
  <2>2. CASE v # w
    BY <1>1, <2>2 DEF Counted, IInv, LimitsSound
  <2> QED  BY <2>1, <2>2
<1> QED  BY <1>11, <1>12 DEF LimitsSound, Limit

------------------------------------------------------------------------------
(* A step of one tab.                                                      *)

\* A tab that does nothing goes on knowing what it did.
LEMMA TabKeeps ==
  ASSUME NEW q \in Tab, TabSound(q),
         q.tx # None => code'[q.tx.contract] = code[q.tx.contract],
         \A o \in Ops : op[o] # None => op'[o] # None
  PROVE  TabSound(q)'
BY DEF TabSound, Linking, Sending

\* A page without a request.
LEMMA NewTabSound ==
  ASSUME NEW w \in Contracts \cup {None}
  PROVE  /\ NewTab(w) \in Tab /\ NewTab(w).tx = None
         /\ NewTab(w).wallet = w /\ TabSound(NewTab(w))
<1>1. NewTab(w) \in Tab
  BY Numbers DEF NewTab, Tab, Steps, Times
<1>2. /\ NewTab(w).flow = "none" /\ NewTab(w).tx = None /\ NewTab(w).at = "idle"
      /\ NewTab(w).wallet = w
  BY DEF NewTab
<1> QED  BY <1>1, <1>2 DEF TabSound, Sending, Linking, Waiting

\* What a tab is.
LEMMA TabTyped ==
  ASSUME IInv, NEW t \in Tabs
  PROVE  /\ tab \in [Tabs -> Tab] /\ tab[t] \in Tab /\ TabSound(tab[t])
         /\ AccountOf[t] \in Accounts
         /\ account[AccountOf[t]] \in Contracts \cup {None}
         /\ clock \in Times
BY SmartWalletAssumption DEF IInv, TypeOK

\* A tab that writes no table keeps the invariant when it still knows what it
\* should and takes up no other contract.
LEMMA Written ==
  ASSUME IInv, NEW t \in Tabs, NEW q \in Tab, TabSound(q), q.tx \in {None, tab[t].tx},
         tab' = [tab EXCEPT ![t] = q], UNCHANGED <<tables, op, clock>>, LimitsSound'
  PROVE  IInv'
<1>1. /\ tab' \in [Tabs -> Tab] /\ tab'[t] = q
      /\ \A u \in Tabs \ {t} : tab'[u] = tab[u]
  BY DEF IInv, TypeOK
<1>2. UNCHANGED <<account, wallets, claims, code, op, clock>>
  BY DEF tables
<1>3. TypeOK'
  BY <1>1, <1>2 DEF IInv, TypeOK, LimitsSound
<1>4. ASSUME NEW u \in Tabs PROVE TabSound(tab[u])'
  <2>1. PICK p \in Tab : p = tab'[u] /\ TabSound(p)
    BY <1>1, TabTyped
  <2>2. TabSound(p)'
    BY <1>2, <2>1, TabKeeps
  <2> QED  BY <2>1, <2>2 DEF TabSound
<1>5. \A u \in Tabs : tab'[u].tx # None => tab'[u].tx = tab[u].tx
  BY <1>1
<1>6. OneDeployer'
  BY <1>5 DEF IInv, OneDeployer
<1>7. \A a \in Accounts : UsedBy(a)' = UsedBy(a)
  BY <1>2 DEF UsedBy
<1>8. NotForeign'
  BY <1>5, <1>7 DEF IInv, NotForeign
<1>9. UsedDeployed'
  BY <1>2, <1>7 DEF IInv, UsedDeployed
<1>10. ActorsDeployed'
  BY <1>2 DEF IInv, ActorsDeployed
<1> QED  BY <1>3, <1>4, <1>6, <1>8, <1>9, <1>10 DEF IInv

\* A request that ended.
LEMMA FinishSound ==
  ASSUME IInv, NEW t \in Tabs, Finish(t), UNCHANGED <<tables, op, clock>>, LimitsSound'
  PROVE  IInv'
<1>1. tab[t].wallet \in Contracts \cup {None}
  BY TabTyped DEF Tab
<1>2. tab' = [tab EXCEPT ![t] = NewTab(tab[t].wallet)]
  BY DEF Finish
<1> QED  BY <1>1, <1>2, NewTabSound, Written

\* A request that goes on at step s.
LEMMA GotoSound ==
  ASSUME IInv, NEW t \in Tabs, NEW s \in Steps, Goto(t, s),
         UNCHANGED <<tables, op, clock>>, LimitsSound',
         TabSound([tab[t] EXCEPT !.at = s])
  PROVE  IInv'
<1> DEFINE q == [tab[t] EXCEPT !.at = s]
<1>1. tab[t] \in Tab
  BY TabTyped
<1>2. q \in Tab /\ q.tx = tab[t].tx
  BY <1>1 DEF Tab
<1>3. tab' = [tab EXCEPT ![t] = q]
  BY DEF Goto
<1> HIDE DEF q
<1> QED  BY <1>2, <1>3, Written DEF q

\* Nothing was counted.
LEMMA LimitsStay ==
  ASSUME IInv, UNCHANGED limits
  PROVE  LimitsSound'
BY DEF IInv, LimitsSound, limits, Counted, Limit

\* A refused request drops its transaction.
LEMMA RefuseSound ==
  ASSUME IInv, NEW t \in Tabs, Refuse(t), UNCHANGED <<tables, op, clock>>, LimitsSound'
  PROVE  IInv'
<1>1. CASE tab[t].flow = "submit"
  <2> DEFINE q == [tab[t] EXCEPT !.at = "wait", !.flow = "poll"]
  <2>1. tab[t] \in Tab /\ TabSound(tab[t])
    BY TabTyped
  <2>2. q \in Tab /\ q.tx = tab[t].tx /\ q.at = "wait" /\ q.flow = "poll" /\ q.op = tab[t].op
    BY <2>1 DEF Tab, Steps
  <2>3. tab' = [tab EXCEPT ![t] = q]
    BY <1>1, TabTyped DEF Refuse
  <2> HIDE DEF q
  <2>4. TabSound(q)
    BY <1>1, <2>1, <2>2 DEF TabSound, Sending, Linking, Waiting
  <2> QED  BY <2>2, <2>3, <2>4, Written
<1>2. CASE tab[t].flow # "submit"
  BY <1>2, FinishSound DEF Refuse
<1> QED  BY <1>1, <1>2

------------------------------------------------------------------------------
(* Steps that write no table.                                              *)

\* A page that is loaded again drops nothing it was doing.
LEMMA RefreshKeeps ==
  ASSUME IInv, NEW t \in Tabs, Refresh(t)
  PROVE  IInv'
<1> DEFINE q == [tab[t] EXCEPT !.wallet = account[AccountOf[t]]]
<1>1. q \in Tab
  BY TabTyped DEF Tab
<1>2. q.tx = tab[t].tx /\ q.at = tab[t].at /\ q.flow = tab[t].flow /\ q.op = tab[t].op
  BY TabTyped DEF Tab
<1>3. tab' = [tab EXCEPT ![t] = q]
  BY TabTyped DEF Refresh
<1> HIDE DEF q
<1>4. TabSound(q)
  BY <1>2, TabTyped DEF TabSound
<1>5. LimitsSound'
  BY LimitsStay DEF Refresh
<1> QED  BY <1>1, <1>2, <1>3, <1>4, <1>5, Written DEF Refresh

\* The windows of an account.
LEMMA WindowsTyped ==
  /\ \A a \in Accounts : <<a, "rate">> \in Windows /\ <<a, "budget">> \in Windows
  /\ \A c \in Contracts : <<c, "rate">> \in Windows
BY DEF Windows, Keys

\* The rate limit counts a request and lets it on to its checks, or refuses it.
LEMMA RateKeeps ==
  ASSUME IInv, NEW t \in Tabs, AssertRateLimit(t)
  PROVE  IInv'
<1>1. tab[t] \in Tab /\ TabSound(tab[t]) /\ AccountOf[t] \in Accounts
  BY TabTyped
<1>2. tab[t].at = "rate" /\ tab[t].now \in Times
  BY <1>1 DEF AssertRateLimit, At, Tab
<1>3. LimitsSound'
  BY <1>1, <1>2, CountHitSound, WindowsTyped, Numbers DEF AssertRateLimit, Uses
<1>4. UNCHANGED <<tables, op, clock>>
  BY DEF AssertRateLimit
<1>5. CASE Refuse(t)
  BY <1>3, <1>4, <1>5, RefuseSound
<1>6. CASE Goto(t, "check")
  <2> DEFINE q == [tab[t] EXCEPT !.at = "check"]
  <2>1. q.at = "check" /\ q.tx = tab[t].tx /\ q.flow = tab[t].flow /\ q.op = tab[t].op
    BY <1>1 DEF Tab
  <2> HIDE DEF q
  <2>2. TabSound(q)
    BY <1>1, <1>2, <2>1 DEF TabSound, Sending, Linking, Waiting
  <2>3. "check" \in Steps
    BY DEF Steps
  <2> QED  BY <1>3, <1>4, <1>6, <2>2, <2>3, GotoSound DEF q
<1> QED  BY <1>5, <1>6 DEF AssertRateLimit

\* The budget counts a request and lets it on to the network, or refuses it.
LEMMA BudgetKeeps ==
  ASSUME IInv, NEW t \in Tabs, AssertRelayerBudget(t)
  PROVE  IInv'
<1>1. tab[t] \in Tab /\ TabSound(tab[t]) /\ AccountOf[t] \in Accounts
  BY TabTyped
<1>2. tab[t].at = "budget" /\ tab[t].now \in Times
  BY <1>1 DEF AssertRelayerBudget, At, Tab
<1>3. LimitsSound'
  BY <1>1, <1>2, CountHitSound, WindowsTyped, Numbers DEF AssertRelayerBudget, Uses
<1>4. UNCHANGED <<tables, op, clock>>
  BY DEF AssertRelayerBudget
<1>5. CASE Refuse(t)
  BY <1>3, <1>4, <1>5, RefuseSound
<1>6. CASE Goto(t, "send")
  <2> DEFINE q == [tab[t] EXCEPT !.at = "send"]
  <2>1. q.at = "send" /\ q.tx = tab[t].tx /\ q.flow = tab[t].flow /\ q.op = tab[t].op
    BY <1>1 DEF Tab
  <2> HIDE DEF q
  <2>2. TabSound(q)
    BY <1>1, <1>2, <2>1 DEF TabSound, Sending, Linking, Waiting
  <2>3. "send" \in Steps
    BY DEF Steps
  <2> QED  BY <1>3, <1>4, <1>6, <2>2, <2>3, GotoSound DEF q
<1> QED  BY <1>5, <1>6 DEF AssertRelayerBudget

\* A check that a tab with time n has passed.
LEMMA BudgetNext ==
  ASSUME IInv, NEW t \in Tabs, At(t, "check"),
         tab' = [tab EXCEPT ![t].at = "budget", ![t].now = clock],
         tab[t].tx # None => tab[t].tx.wasm \in Allowlist,
         UNCHANGED <<tables, limits, op, clock>>
  PROVE  IInv'
<1> DEFINE q == [tab[t] EXCEPT !.at = "budget", !.now = clock]
<1>1. tab[t] \in Tab /\ TabSound(tab[t]) /\ clock \in Times
  BY TabTyped
<1>2. q \in Tab
  BY <1>1 DEF Tab, Steps
<1>3. q.at = "budget" /\ q.tx = tab[t].tx /\ q.flow = tab[t].flow /\ q.op = tab[t].op
  BY <1>1 DEF Tab
<1>4. tab' = [tab EXCEPT ![t] = q]
  BY TabTyped
<1> HIDE DEF q
<1>5. TabSound(q)
  BY <1>1, <1>3 DEF At, TabSound, Sending, Linking, Waiting
<1> QED  BY <1>2, <1>3, <1>4, <1>5, Written, LimitsStay

\* A transaction that passes the check installs an approved code.
LEMMA CheckDeployKeeps ==
  ASSUME IInv, NEW t \in Tabs, CheckDeploy(t)
  PROVE  IInv'
<1>1. CASE AssertDeployable(tab[t].tx)
  BY <1>1, BudgetNext DEF CheckDeploy, AssertDeployable, WasmHashes
<1>2. CASE ~ AssertDeployable(tab[t].tx)
  BY <1>2, FinishSound, LimitsStay DEF CheckDeploy
<1> QED  BY <1>1, <1>2

\* A signed operation carries no transaction of a wallet.
LEMMA CheckSubmitKeeps ==
  ASSUME IInv, NEW t \in Tabs, CheckSubmit(t)
  PROVE  IInv'
<1>1. tab[t].flow = "submit" /\ TabSound(tab[t])
  BY TabTyped DEF CheckSubmit
<1>2. tab[t].tx = None
  BY <1>1 DEF TabSound
<1>3. CASE tab' = [tab EXCEPT ![t].at = "budget", ![t].now = clock]
  BY <1>2, <1>3, BudgetNext DEF CheckSubmit
<1>4. CASE Refuse(t)
  BY <1>4, RefuseSound, LimitsStay DEF CheckSubmit
<1> QED  BY <1>3, <1>4 DEF CheckSubmit

\* Reading the newest wallet changes only what the tab has seen.
LEMMA ReadWalletKeeps ==
  ASSUME IInv, NEW t \in Tabs, ReadWallet(t)
  PROVE  IInv'
<1>1. tab[t] \in Tab /\ TabSound(tab[t]) /\ AccountOf[t] \in Accounts
  BY TabTyped
<1>2. Len(wallets[AccountOf[t]]) \in Nat
  BY <1>1 DEF IInv, TypeOK
<1> DEFINE q == [tab[t] EXCEPT !.at = "writeWallet", !.seen = Len(wallets[AccountOf[t]])]
<1>3. q \in Tab
  BY <1>1, <1>2 DEF Tab, Steps
<1>4. q.at = "writeWallet" /\ q.tx = tab[t].tx /\ q.flow = tab[t].flow /\ q.op = tab[t].op
  BY <1>1 DEF Tab
<1>5. tab' = [tab EXCEPT ![t] = q]
  BY TabTyped DEF ReadWallet
<1> HIDE DEF q
<1>6. TabSound(q)
  BY <1>1, <1>4 DEF ReadWallet, At, TabSound, Sending, Linking, Waiting
<1> QED  BY <1>3, <1>4, <1>5, <1>6, Written, LimitsStay DEF ReadWallet

\* A signature starts a request for the operation the page had.
LEMMA SignKeeps ==
  ASSUME IInv, NEW t \in Tabs, SignAndSubmit(t)
  PROVE  IInv'
<1>1. /\ tab[t] \in Tab /\ TabSound(tab[t]) /\ clock \in Times
      /\ account[AccountOf[t]] \in Contracts \cup {None}
  BY TabTyped
<1> DEFINE q == [tab[t] EXCEPT !.at = "rate", !.flow = "submit", !.tx = None,
                   !.op = tab[t].op, !.actor = account[AccountOf[t]], !.now = clock]
<1>2. q \in Tab
  BY <1>1 DEF Tab, Steps
<1>3. q.at = "rate" /\ q.tx = None /\ q.flow = "submit" /\ q.op = tab[t].op
  BY <1>1 DEF Tab
<1>4. tab' = [tab EXCEPT ![t] = q]
  BY TabTyped DEF SignAndSubmit, Arrive
<1> HIDE DEF q
<1>5. TabSound(q)
  BY <1>1, <1>3 DEF SignAndSubmit, At, TabSound, Sending, Linking, Waiting
<1> QED  BY <1>2, <1>3, <1>4, <1>5, Written, LimitsStay DEF SignAndSubmit

\* A power of two is a number, and so is the time of the next poll.
LEMMA BackoffTyped == \A n \in 0 .. MaxAttempts : NextBackoff(n) \in Int
<1>1. \A n \in Nat : 2 ^ n \in Int
  BY SMT
<1> QED  BY <1>1, Numbers DEF NextBackoff

\* A tab that waits for the next poll, or stops waiting.
LEMMA WaitSound ==
  ASSUME IInv, NEW t \in Tabs, NEW q \in Tab, tab' = [tab EXCEPT ![t] = q],
         tab[t].at \in Waiting, q.at \in Waiting,
         q.tx = tab[t].tx, q.flow = tab[t].flow, q.op = tab[t].op,
         UNCHANGED <<tables, op, clock>>, LimitsSound'
  PROVE  IInv'
<1>1. tab[t].tx = None /\ tab[t].flow = "poll"
  BY TabTyped DEF TabSound
<1>2. TabSound(q)
  BY <1>1, TabTyped DEF TabSound, Sending, Linking, Waiting
<1> QED  BY <1>1, <1>2, Written

\* A poll starts or the poller gives up.
LEMMA PollKeeps ==
  ASSUME IInv, NEW t \in Tabs, Poll(t)
  PROVE  IInv'
<1>1. /\ tab[t] \in Tab /\ tab[t].at = "wait" /\ clock \in Times
      /\ account[AccountOf[t]] \in Contracts \cup {None}
  BY TabTyped DEF Poll, At
<1>2. LimitsSound' /\ UNCHANGED <<tables, op, clock>>
  BY LimitsStay DEF Poll
<1>3. CASE tab[t].attempt + 1 > MaxAttempts
  <2> DEFINE q == [tab[t] EXCEPT !.at = "stopped"]
  <2>1. /\ q \in Tab /\ q.at = "stopped" /\ q.tx = tab[t].tx /\ q.flow = tab[t].flow
        /\ q.op = tab[t].op
    BY <1>1 DEF Tab, Steps
  <2>2. tab' = [tab EXCEPT ![t] = q]
    BY <1>3, TabTyped DEF Poll, Goto
  <2> HIDE DEF q
  <2> QED  BY <1>1, <1>2, <2>1, <2>2, WaitSound DEF Waiting
<1>4. CASE ~ (tab[t].attempt + 1 > MaxAttempts)
  <2> DEFINE q == [tab[t] EXCEPT !.at = "poll", !.attempt = tab[t].attempt + 1,
                     !.actor = account[AccountOf[t]], !.now = clock]
  <2>1. tab[t].attempt + 1 \in 0 .. MaxAttempts
    BY <1>1, <1>4, Numbers DEF Tab
  <2>2. /\ q \in Tab /\ q.at = "poll" /\ q.tx = tab[t].tx /\ q.flow = tab[t].flow
        /\ q.op = tab[t].op
    BY <1>1, <2>1 DEF Tab, Steps
  <2>3. tab' = [tab EXCEPT ![t] = q]
    <3>1. tab' = [tab EXCEPT ![t] = [@ EXCEPT !.at = "poll", !.attempt = tab[t].attempt + 1,
                    !.actor = account[AccountOf[t]], !.now = clock]]
      BY <1>4 DEF Poll
    <3> QED  BY <3>1, TabTyped
  <2> HIDE DEF q
  <2> QED  BY <1>1, <1>2, <2>2, <2>3, WaitSound DEF Waiting
<1> QED  BY <1>3, <1>4

\* A poll that failed waits for the next.
LEMMA RetryKeeps ==
  ASSUME IInv, NEW t \in Tabs, tab[t].at \in {"poll", "readOp"}, Retry(t),
         UNCHANGED <<tables, op, clock>>, LimitsSound'
  PROVE  IInv'
<1> DEFINE q == [tab[t] EXCEPT !.at = "wait", !.polled = clock,
                               !.due = clock + NextBackoff(tab[t].attempt)]
<1>1. tab[t] \in Tab /\ clock \in Times
  BY TabTyped
<1>2. clock + NextBackoff(tab[t].attempt) \in Int
  BY <1>1, BackoffTyped, Numbers DEF Tab, Times
<1>3. /\ q \in Tab /\ q.at = "wait" /\ q.tx = tab[t].tx /\ q.flow = tab[t].flow
      /\ q.op = tab[t].op
  BY <1>1, <1>2 DEF Tab, Steps
<1>4. tab' = [tab EXCEPT ![t] = q]
  BY TabTyped DEF Retry
<1> HIDE DEF q
<1> QED  BY <1>3, <1>4, WaitSound DEF Waiting

\* A poll is counted like a request, and waits when it is refused.
LEMMA CountPollKeeps ==
  ASSUME IInv, NEW t \in Tabs, CountPoll(t)
  PROVE  IInv'
<1>1. tab[t] \in Tab /\ AccountOf[t] \in Accounts
  BY TabTyped
<1>2. tab[t].at = "poll" /\ tab[t].now \in Times
  BY <1>1 DEF CountPoll, At, Tab
<1> DEFINE w == <<IF tab[t].actor # None THEN tab[t].actor ELSE AccountOf[t], "rate">>
<1>3. w \in Windows
  BY <1>1, WindowsTyped DEF Tab
<1>4. CountHit(w, "poll", HitLimit(w, RateWindow, tab[t].now))
  BY DEF CountPoll
<1> HIDE DEF w
<1>5. LimitsSound'
  BY <1>2, <1>3, <1>4, CountHitSound, Numbers DEF Uses
<1>6. UNCHANGED <<tables, op, clock>>
  BY DEF CountPoll
<1>7. CASE Retry(t)
  BY <1>2, <1>5, <1>6, <1>7, RetryKeeps
<1>8. CASE Goto(t, "readOp")
  <2> DEFINE q == [tab[t] EXCEPT !.at = "readOp"]
  <2>1. /\ q \in Tab /\ q.at = "readOp" /\ q.tx = tab[t].tx /\ q.flow = tab[t].flow
        /\ q.op = tab[t].op
    BY <1>1 DEF Tab, Steps
  <2>2. tab' = [tab EXCEPT ![t] = q]
    BY <1>8, TabTyped DEF Goto
  <2> HIDE DEF q
  <2> QED  BY <1>2, <1>5, <1>6, <2>1, <2>2, WaitSound DEF Waiting
<1> QED  BY <1>7, <1>8 DEF CountPoll

\* The answer of a poll ends it or starts the next.
LEMMA ReadOperationKeeps ==
  ASSUME IInv, NEW t \in Tabs, ReadOperation(t)
  PROVE  IInv'
<1>1. tab[t] \in Tab /\ tab[t].at = "readOp" /\ clock \in Times
  BY TabTyped DEF ReadOperation, At
<1>2. LimitsSound' /\ UNCHANGED <<tables, op, clock>>
  BY LimitsStay DEF ReadOperation
<1>3. CASE Retry(t)
  BY <1>1, <1>2, <1>3, RetryKeeps
<1>4. CASE Restart(t)
  <2> DEFINE q == [tab[t] EXCEPT !.at = "wait", !.polled = clock,
                                 !.due = clock, !.attempt = 0]
  <2>1. clock \in Int /\ 0 \in 0 .. MaxAttempts
    BY <1>1, Numbers DEF Times
  <2>2. /\ q \in Tab /\ q.at = "wait" /\ q.tx = tab[t].tx /\ q.flow = tab[t].flow
        /\ q.op = tab[t].op
    BY <1>1, <2>1 DEF Tab, Steps
  <2>3. tab' = [tab EXCEPT ![t] = q]
    BY <1>4, TabTyped DEF Restart
  <2> HIDE DEF q
  <2> QED  BY <1>1, <1>2, <2>2, <2>3, WaitSound DEF Waiting
<1>5. CASE Finish(t)
  BY <1>2, <1>5, FinishSound
<1> QED  BY <1>3, <1>4, <1>5 DEF ReadOperation

\* A request that dies has written nothing more.
LEMMA DropKeeps ==
  ASSUME IInv, NEW t \in Tabs, Drop(t)
  PROVE  IInv'
<1>1. LimitsSound' /\ UNCHANGED <<tables, op, clock>>
  BY LimitsStay DEF Drop
<1> QED  BY <1>1, FinishSound, RetryKeeps DEF Drop

------------------------------------------------------------------------------
(* Steps that write the tables or the ledger.                              *)

\* A contract the ledger does not have is not used.
LEMMA UnusedUntilDeployed ==
  ASSUME IInv, NEW c \in Contracts, code[c] = None, NEW a \in Accounts
  PROVE  c \notin UsedBy(a)
BY SmartWalletAssumption DEF IInv, UsedDeployed

\* A new contract is in no other tab and is used by nobody.
LEMMA CreateWalletKeeps ==
  ASSUME IInv, NEW t \in Tabs, NEW x \in Deploy, CreateWallet(t, x)
  PROVE  IInv'
<1>1. /\ tab[t] \in Tab /\ clock \in Times /\ tab \in [Tabs -> Tab]
      /\ account[AccountOf[t]] \in Contracts \cup {None}
  BY TabTyped
<1> DEFINE q == [tab[t] EXCEPT !.at = "rate", !.flow = "deploy", !.tx = x,
                   !.op = None, !.actor = account[AccountOf[t]], !.now = clock]
<1>2. q \in Tab
  BY <1>1 DEF Tab, Steps
<1>3. q.at = "rate" /\ q.tx = x /\ q.flow = "deploy"
  BY <1>1 DEF Tab
<1>4. tab' = [tab EXCEPT ![t] = q]
  BY TabTyped DEF CreateWallet, Arrive
<1> HIDE DEF q
<1>5. /\ tab' \in [Tabs -> Tab] /\ tab'[t] = q
      /\ \A u \in Tabs \ {t} : tab'[u] = tab[u]
  BY <1>1, <1>2, <1>4
<1>6. UNCHANGED <<account, wallets, claims, code, op, clock>> /\ LimitsSound'
  BY LimitsStay DEF CreateWallet, tables
<1>7. /\ x.contract \in Contracts /\ code[x.contract] = None /\ x # None
      /\ \A u \in Tabs : tab[u].tx # None => tab[u].tx.contract # x.contract
  BY SmartWalletAssumption DEF CreateWallet, Unmade, Deploy
<1>8. TypeOK'
  BY <1>5, <1>6 DEF IInv, TypeOK, LimitsSound
<1>9. TabSound(q)
  BY <1>3, <1>7 DEF TabSound, Sending, Linking, Waiting
<1>10. ASSUME NEW u \in Tabs PROVE TabSound(tab[u])'
  <2>1. PICK p \in Tab : p = tab'[u] /\ TabSound(p)
    BY <1>2, <1>5, <1>9, TabTyped
  <2>2. TabSound(p)'
    BY <1>6, <2>1, TabKeeps
  <2> QED  BY <2>1, <2>2 DEF TabSound
<1>11. OneDeployer'
  <2> SUFFICES ASSUME NEW u \in Tabs, NEW v \in Tabs, tab'[u].tx # None, tab'[v].tx # None,
                      u # v
               PROVE  tab'[u].tx.contract # tab'[v].tx.contract
    BY DEF OneDeployer
  <2>1. CASE u = t
    BY <1>3, <1>5, <1>7, <2>1
  <2>2. CASE v = t
    BY <1>3, <1>5, <1>7, <2>2
  <2>3. CASE u # t /\ v # t
    BY <1>5, <2>3 DEF IInv, OneDeployer
  <2> QED  BY <2>1, <2>2, <2>3
<1>12. \A a \in Accounts : UsedBy(a)' = UsedBy(a)
  BY <1>6 DEF UsedBy
<1>13. NotForeign'
  <2> SUFFICES ASSUME NEW u \in Tabs, tab'[u].tx # None, NEW b \in Accounts \ {AccountOf[u]}
               PROVE  tab'[u].tx.contract \notin UsedBy(b)
    BY <1>12 DEF NotForeign
  <2>1. CASE u = t
    BY <1>3, <1>5, <1>7, <2>1, UnusedUntilDeployed
  <2>2. CASE u # t
    BY <1>5, <2>2 DEF IInv, NotForeign
  <2> QED  BY <2>1, <2>2
<1>14. UsedDeployed'
  BY <1>6, <1>12 DEF IInv, UsedDeployed
<1>15. ActorsDeployed'
  BY <1>6 DEF IInv, ActorsDeployed
<1> QED  BY <1>6, <1>8, <1>10, <1>11, <1>13, <1>14, <1>15 DEF IInv

\* The ledger takes the contract of a tab, or not; no other one changes.
LEMMA DeployedSound ==
  ASSUME IInv, NEW t \in Tabs, NEW q \in Tab, tab' = [tab EXCEPT ![t] = q],
         tab[t].tx # None, tab[t].tx.wasm \in Allowlist, code[tab[t].tx.contract] = None,
         code' \in {code, [code EXCEPT ![tab[t].tx.contract] = tab[t].tx.wasm]},
         TabSound(q)', q.tx \in {None, tab[t].tx},
         UNCHANGED <<account, wallets, claims, op, clock>>, LimitsSound'
  PROVE  IInv'
<1> DEFINE c == tab[t].tx.contract
<1>1. /\ tab' \in [Tabs -> Tab] /\ tab'[t] = q
      /\ \A u \in Tabs \ {t} : tab'[u] = tab[u]
  BY TabTyped
<1>2. c \in Contracts /\ tab[t].tx.wasm \in ClientWasms
  <2>1. tab[t].tx \in Deploy
    BY TabTyped DEF Tab
  <2> QED  BY <2>1 DEF Deploy
<1>3. /\ code' \in [Contracts -> ClientWasms \cup {None}]
      /\ \A x \in Contracts \ {c} : code'[x] = code[x]
  BY <1>2 DEF IInv, TypeOK
<1>4. TypeOK'
  BY <1>1, <1>3 DEF IInv, TypeOK, LimitsSound
<1>5. ASSUME NEW u \in Tabs PROVE TabSound(tab[u])'
  <2>1. CASE u = t
    BY <1>1, <2>1 DEF TabSound
  <2>2. CASE u # t
    <3>1. PICK p \in Tab : p = tab'[u] /\ p = tab[u] /\ TabSound(p)
      BY <1>1, <2>2, TabTyped
    <3>2. ASSUME p.tx # None PROVE code'[p.tx.contract] = code[p.tx.contract]
      <4>1. p.tx \in Deploy /\ p.tx.contract # c
        BY <2>2, <3>1, <3>2 DEF Tab, IInv, OneDeployer
      <4> QED  BY <1>3, <4>1 DEF Deploy
    <3>3. TabSound(p)'
      BY <3>1, <3>2, TabKeeps
    <3> QED  BY <3>1, <3>3 DEF TabSound
  <2> QED  BY <2>1, <2>2
<1>6. \A u \in Tabs : tab'[u].tx # None => tab'[u].tx = tab[u].tx
  BY <1>1
<1>7. OneDeployer'
  BY <1>6 DEF IInv, OneDeployer
<1>8. \A a \in Accounts : UsedBy(a)' = UsedBy(a)
  BY DEF UsedBy
<1>9. NotForeign'
  BY <1>6, <1>8 DEF IInv, NotForeign
<1>10. \A x \in Contracts : code[x] \in Allowlist => code'[x] \in Allowlist
  BY <1>2, <1>3, SmartWalletAssumption
<1>11. \A a \in Accounts : UsedBy(a) \subseteq Contracts \cup {None}
  BY DEF UsedBy, IInv, TypeOK
<1>12. UsedDeployed'
  BY <1>8, <1>10, <1>11 DEF IInv, UsedDeployed
<1>13. ActorsDeployed'
  BY <1>10, SmartWalletAssumption DEF IInv, TypeOK, ActorsDeployed, Operation
<1> QED  BY <1>4, <1>5, <1>7, <1>9, <1>12, <1>13 DEF IInv

\* The relayer deploys the contract, whether or not it says so.
LEMMA SendKeeps ==
  ASSUME IInv, NEW t \in Tabs, Send(t)
  PROVE  IInv'
<1> DEFINE deployed == [code EXCEPT ![tab[t].tx.contract] = tab[t].tx.wasm]
<1>1. /\ tab[t] \in Tab /\ TabSound(tab[t]) /\ tab[t].at = "send" /\ tab[t].flow = "deploy"
  BY TabTyped DEF Send, At
<1>2. /\ tab[t].tx # None /\ tab[t].tx.wasm \in Allowlist
      /\ code[tab[t].tx.contract] = None
  BY <1>1 DEF TabSound, Sending
<1>3. UNCHANGED <<account, wallets, claims, op, clock>> /\ LimitsSound'
  BY LimitsStay DEF Send
<1>4. CASE code' = deployed /\ Goto(t, "link")
  <2>1. PICK q \in Tab : /\ tab' = [tab EXCEPT ![t] = q]
                         /\ q.at = "link" /\ q.tx = tab[t].tx
                         /\ q.flow = tab[t].flow /\ q.op = tab[t].op
    <3> DEFINE q == [tab[t] EXCEPT !.at = "link"]
    <3>1. /\ q \in Tab /\ q.at = "link" /\ q.tx = tab[t].tx /\ q.flow = tab[t].flow
          /\ q.op = tab[t].op
      BY <1>1 DEF Tab, Steps
    <3>2. tab' = [tab EXCEPT ![t] = q]
      BY <1>4, TabTyped DEF Goto
    <3> QED  BY <3>1, <3>2
  <2>2. q.tx \in Deploy
    BY <1>2, <2>1 DEF Tab
  <2>3. code'[q.tx.contract] \in Allowlist
    BY <1>2, <1>4, <2>1, <2>2 DEF Deploy, IInv, TypeOK
  <2>4. TabSound(q)'
    BY <1>1, <1>2, <1>3, <2>1, <2>3 DEF TabSound, Sending, Linking, Waiting
  <2> QED  BY <1>2, <1>3, <1>4, <2>1, <2>4, DeployedSound
<1>5. CASE code' \in {deployed, code} /\ Finish(t)
  <2>1. tab[t].wallet \in Contracts \cup {None}
    BY <1>1 DEF Tab
  <2>2. PICK q \in Tab : tab' = [tab EXCEPT ![t] = q] /\ q.tx = None /\ TabSound(q)
    BY <1>5, <2>1, NewTabSound DEF Finish
  <2>3. TabSound(q)'
    BY <1>3, <2>2, TabKeeps
  <2> QED  BY <1>2, <1>3, <1>5, <2>2, <2>3, DeployedSound
<1> QED  BY <1>4, <1>5 DEF Send

\* The account of a tab takes up the contract the tab has deployed.
LEMMA LinkedSound ==
  ASSUME IInv, NEW t \in Tabs, NEW q \in Tab, tab' = [tab EXCEPT ![t] = q],
         tab[t].at \in Linking, q.at \in Linking \cup {"idle"},
         q.at \in Linking => q.tx = tab[t].tx /\ q.flow = tab[t].flow,
         q.at = "idle" => TabSound(q) /\ q.tx = None,
         account' \in [Accounts -> Contracts \cup {None}],
         wallets' \in [Accounts -> Seq(Contracts)],
         claims' \subseteq Contracts \X Accounts,
         \A b \in Accounts : UsedBy(b)' \subseteq UsedBy(b) \cup {tab[t].tx.contract},
         \A b \in Accounts \ {AccountOf[t]} : UsedBy(b)' \subseteq UsedBy(b),
         UNCHANGED <<code, op, clock>>, LimitsSound'
  PROVE  IInv'
<1> DEFINE c == tab[t].tx.contract
<1>1. /\ tab' \in [Tabs -> Tab] /\ tab'[t] = q
      /\ \A u \in Tabs \ {t} : tab'[u] = tab[u]
  BY TabTyped
<1>2. /\ tab[t].tx # None /\ code[c] \in Allowlist /\ TabSound(tab[t])
      /\ tab[t].flow = "deploy"
  BY TabTyped DEF TabSound
<1>3. TypeOK'
  BY <1>1 DEF IInv, TypeOK, LimitsSound
<1>4. TabSound(q)
  BY <1>2 DEF TabSound, Sending, Linking, Waiting
<1>5. ASSUME NEW u \in Tabs PROVE TabSound(tab[u])'
  <2>1. PICK p \in Tab : p = tab'[u] /\ TabSound(p)
    BY <1>1, <1>4, TabTyped
  <2>2. TabSound(p)'
    BY <2>1, TabKeeps
  <2> QED  BY <2>1, <2>2 DEF TabSound
<1>6. \A u \in Tabs : tab'[u].tx # None => tab'[u].tx = tab[u].tx
  BY <1>1
<1>7. OneDeployer'
  BY <1>6 DEF IInv, OneDeployer
<1>8. NotForeign'
  <2> SUFFICES ASSUME NEW u \in Tabs, tab'[u].tx # None, NEW b \in Accounts \ {AccountOf[u]}
               PROVE  tab'[u].tx.contract \notin UsedBy(b)'
    BY DEF NotForeign
  <2>1. tab'[u].tx = tab[u].tx /\ tab[u].tx.contract \notin UsedBy(b)
    BY <1>6 DEF IInv, NotForeign
  <2>2. CASE u = t
    BY <2>1, <2>2
  <2>3. CASE u # t
    BY <1>2, <2>1, <2>3 DEF IInv, OneDeployer
  <2> QED  BY <2>2, <2>3
<1>9. UsedDeployed'
  <2> SUFFICES ASSUME NEW a \in Accounts, NEW x \in UsedBy(a)' \ {None}
               PROVE  /\ code[x] \in Allowlist
                      /\ \A b \in Accounts \ {a} : x \notin UsedBy(b)'
    BY DEF UsedDeployed
  <2>1. CASE x = c
    <3>1. \A b \in Accounts \ {AccountOf[t]} : c \notin UsedBy(b)'
      BY <1>2 DEF IInv, NotForeign
    <3> QED  BY <1>2, <2>1, <3>1
  <2>2. CASE x # c
    <3>1. x \in UsedBy(a) \ {None}
      BY <2>2
    <3> QED  BY <2>2, <3>1 DEF IInv, UsedDeployed
  <2> QED  BY <2>1, <2>2
<1>10. ActorsDeployed'
  BY DEF IInv, ActorsDeployed
<1> QED  BY <1>3, <1>5, <1>7, <1>8, <1>9, <1>10 DEF IInv

\* What the tab that links a contract has in hand.
LEMMA LinkingTab ==
  ASSUME IInv, NEW t \in Tabs, tab[t].at \in Linking
  PROVE  /\ tab[t].tx \in Deploy /\ tab[t].tx.contract \in Contracts
         /\ NewTab(tab[t].wallet) \in Tab
         /\ NewTab(tab[t].wallet).tx = None /\ NewTab(tab[t].wallet).at = "idle"
         /\ TabSound(NewTab(tab[t].wallet))
         /\ account \in [Accounts -> Contracts \cup {None}]
         /\ wallets \in [Accounts -> Seq(Contracts)]
         /\ claims \subseteq Contracts \X Accounts
<1>1. tab[t].tx \in Deploy /\ tab[t].wallet \in Contracts \cup {None}
  BY TabTyped DEF Tab, TabSound
<1>2. NewTab(tab[t].wallet).at = "idle"
  BY DEF NewTab
<1> QED  BY <1>1, <1>2, NewTabSound DEF Deploy, IInv, TypeOK

\* What a tab is that goes on linking.
LEMMA LinkingGoes ==
  ASSUME IInv, NEW t \in Tabs, NEW s \in Linking, Goto(t, s)
  PROVE  \E q \in Tab : /\ tab' = [tab EXCEPT ![t] = q] /\ q.at = s
                        /\ q.tx = tab[t].tx /\ q.flow = tab[t].flow
<1> DEFINE q == [tab[t] EXCEPT !.at = s]
<1>1. q \in Tab /\ q.at = s /\ q.tx = tab[t].tx /\ q.flow = tab[t].flow
  BY TabTyped DEF Tab, Steps, Linking
<1>2. tab' = [tab EXCEPT ![t] = q]
  BY TabTyped DEF Goto
<1> QED  BY <1>1, <1>2

\* The account takes the address of its tab.
LEMMA LinkAccountKeeps ==
  ASSUME IInv, NEW t \in Tabs, LinkAccount(t)
  PROVE  IInv'
<1>1. tab[t].at \in Linking /\ AccountOf[t] \in Accounts
  BY TabTyped DEF LinkAccount, At, Linking
<1> DEFINE c == tab[t].tx.contract
<1>2. account' = [account EXCEPT ![AccountOf[t]] = c] /\ UNCHANGED <<wallets, claims, code, op, clock>>
      /\ LimitsSound'
  BY LimitsStay DEF LinkAccount
<1>3. account' \in [Accounts -> Contracts \cup {None}]
  BY <1>1, <1>2, LinkingTab
<1>4. /\ \A b \in Accounts : UsedBy(b)' \subseteq UsedBy(b) \cup {c}
      /\ \A b \in Accounts \ {AccountOf[t]} : UsedBy(b)' \subseteq UsedBy(b)
  BY <1>1, <1>2, LinkingTab DEF UsedBy
<1>5. CASE Finish(t)
  BY <1>1, <1>2, <1>3, <1>4, <1>5, LinkingTab, LinkedSound DEF Finish, Linking
<1>6. CASE Goto(t, "readWallet")
  <2>1. PICK q \in Tab : /\ tab' = [tab EXCEPT ![t] = q] /\ q.at = "readWallet"
                         /\ q.tx = tab[t].tx /\ q.flow = tab[t].flow
    BY <1>6, LinkingGoes DEF Linking
  <2> QED  BY <1>1, <1>2, <1>3, <1>4, <2>1, LinkingTab, LinkedSound DEF Linking
<1> QED  BY <1>5, <1>6 DEF LinkAccount

\* The newest wallet is replaced by the tab's, or another row is added.
LEMMA WriteWalletKeeps ==
  ASSUME IInv, NEW t \in Tabs, WriteWallet(t)
  PROVE  IInv'
<1>1. tab[t].at \in Linking /\ AccountOf[t] \in Accounts
  BY TabTyped DEF WriteWallet, At, Linking
<1> DEFINE c == tab[t].tx.contract
           a == AccountOf[t]
<1>2. UNCHANGED <<account, claims, code, op, clock>> /\ LimitsSound'
  BY LimitsStay DEF WriteWallet
<1>3. c \in Contracts /\ wallets[a] \in Seq(Contracts)
  BY <1>1, LinkingTab
<1>4. PICK s \in Seq(Contracts) : /\ wallets' = [wallets EXCEPT ![a] = s]
                                  /\ \A k \in DOMAIN s : s[k] = c \/ s[k] \in UsedBy(a)
  <2>1. CASE tab[t].seen = 0
    <3> DEFINE s == Append(wallets[a], c)
    <3>1. s \in Seq(Contracts) /\ DOMAIN s = 1 .. Len(wallets[a]) + 1
      BY <1>3
    <3>2. \A k \in DOMAIN s : s[k] = c \/ (k \in DOMAIN wallets[a] /\ s[k] = wallets[a][k])
      BY <1>3, <3>1
    <3>3. wallets' = [wallets EXCEPT ![a] = s]
      BY <1>1, <2>1, LinkingTab DEF WriteWallet
    <3> QED  BY <3>1, <3>2, <3>3 DEF UsedBy
  <2>2. CASE tab[t].seen # 0
    <3> DEFINE s == [wallets[a] EXCEPT ![tab[t].seen] = c]
    <3>1. s \in Seq(Contracts) /\ DOMAIN s = DOMAIN wallets[a]
      <4>1. CASE tab[t].seen \in 1 .. Len(wallets[a])
        BY <1>3, <4>1, ExceptSeq
      <4>2. CASE tab[t].seen \notin 1 .. Len(wallets[a])
        <5>1. s = wallets[a]
          BY <1>3, <4>2
        <5> QED  BY <1>3, <5>1
      <4> QED  BY <4>1, <4>2
    <3>2. \A k \in DOMAIN s : s[k] = c \/ s[k] = wallets[a][k]
      BY <1>3, <3>1
    <3>3. wallets' = [wallets EXCEPT ![a] = s]
      BY <1>1, <2>2, LinkingTab DEF WriteWallet
    <3> QED  BY <3>1, <3>2, <3>3 DEF UsedBy
  <2> QED  BY <2>1, <2>2
<1>5. wallets' \in [Accounts -> Seq(Contracts)]
  BY <1>1, <1>4, LinkingTab
<1>6. /\ \A b \in Accounts : UsedBy(b)' \subseteq UsedBy(b) \cup {c}
      /\ \A b \in Accounts \ {a} : UsedBy(b)' \subseteq UsedBy(b)
  BY <1>1, <1>2, <1>4, LinkingTab DEF UsedBy
<1>7. PICK q \in Tab : /\ tab' = [tab EXCEPT ![t] = q] /\ q.at = "saveClaim"
                       /\ q.tx = tab[t].tx /\ q.flow = tab[t].flow
  BY LinkingGoes DEF WriteWallet, Linking
<1> QED  BY <1>1, <1>2, <1>5, <1>6, <1>7, LinkingTab, LinkedSound DEF Linking

\* The claim names the account of the tab.
LEMMA SaveClaimKeeps ==
  ASSUME IInv, NEW t \in Tabs, SaveSmartWalletClaim(t)
  PROVE  IInv'
<1>1. tab[t].at \in Linking /\ AccountOf[t] \in Accounts
  BY TabTyped DEF SaveSmartWalletClaim, At, Linking
<1> DEFINE c == tab[t].tx.contract
<1>2. /\ claims' = claims \cup {<<c, AccountOf[t]>>}
      /\ UNCHANGED <<account, wallets, code, op, clock>> /\ LimitsSound'
  BY LimitsStay DEF SaveSmartWalletClaim
<1>3. claims' \subseteq Contracts \X Accounts
  BY <1>1, <1>2, LinkingTab
<1>4. /\ \A b \in Accounts : UsedBy(b)' \subseteq UsedBy(b) \cup {c}
      /\ \A b \in Accounts \ {AccountOf[t]} : UsedBy(b)' \subseteq UsedBy(b)
  BY <1>2 DEF UsedBy
<1> QED  BY <1>1, <1>2, <1>3, <1>4, LinkingTab, LinkedSound
            DEF SaveSmartWalletClaim, Finish, Linking

\* Steps of an operation: it stays that of its actor.
LEMMA OperationSound ==
  ASSUME IInv, NEW t \in Tabs, NEW q \in Tab, tab' = [tab EXCEPT ![t] = q],
         q.tx = None, q.flow = "poll", q.op \in Ops, op'[q.op] # None, q.at = "wait",
         op' \in [Ops -> Operation \cup {None}],
         \A o \in Ops : op[o] # None => op'[o] # None,
         \A o \in Ops : op'[o] # None => code[op'[o].actor] \in Allowlist,
         UNCHANGED <<tables, clock>>, LimitsSound'
  PROVE  IInv'
<1>1. /\ tab' \in [Tabs -> Tab] /\ tab'[t] = q
      /\ \A u \in Tabs \ {t} : tab'[u] = tab[u]
  BY TabTyped
<1>2. UNCHANGED <<account, wallets, claims, code, clock>>
  BY DEF tables
<1>3. TypeOK'
  BY <1>1, <1>2 DEF IInv, TypeOK, LimitsSound
<1>4. TabSound(q)'
  BY DEF TabSound, Sending, Linking, Waiting
<1>5. ASSUME NEW u \in Tabs PROVE TabSound(tab[u])'
  <2>1. CASE u = t
    BY <1>1, <1>4, <2>1 DEF TabSound
  <2>2. CASE u # t
    <3>1. PICK p \in Tab : p = tab'[u] /\ TabSound(p)
      BY <1>1, <2>2, TabTyped
    <3>2. TabSound(p)'
      BY <1>2, <3>1, TabKeeps
    <3> QED  BY <3>1, <3>2 DEF TabSound
  <2> QED  BY <2>1, <2>2
<1>6. \A u \in Tabs : tab'[u].tx # None => tab'[u].tx = tab[u].tx
  BY <1>1
<1>7. \A a \in Accounts : UsedBy(a)' = UsedBy(a)
  BY <1>2 DEF UsedBy
<1>8. OneDeployer' /\ NotForeign'
  BY <1>6, <1>7 DEF IInv, OneDeployer, NotForeign
<1>9. UsedDeployed' /\ ActorsDeployed'
  BY <1>2, <1>7 DEF IInv, UsedDeployed, ActorsDeployed
<1> QED  BY <1>3, <1>5, <1>8, <1>9 DEF IInv

\* A page that watches an operation.
LEMMA WatchTyped ==
  ASSUME IInv, NEW t \in Tabs, NEW o \in Ops, Watch(t, o)
  PROVE  \E q \in Tab : /\ tab' = [tab EXCEPT ![t] = q] /\ q.tx = None
                        /\ q.flow = "poll" /\ q.op = o /\ q.at = "wait"
<1> DEFINE n == NewTab(tab[t].wallet)
           q == [n EXCEPT !.at = "wait", !.flow = "poll", !.op = o, !.due = clock]
<1>1. tab[t].wallet \in Contracts \cup {None} /\ clock \in Int
  BY TabTyped, Numbers DEF Tab, Times
<1>2. n \in Tab /\ n.tx = None
  BY <1>1, NewTabSound
<1>3. tab' = [tab EXCEPT ![t] = q]
  BY TabTyped DEF Watch
<1> HIDE DEF n
<1>4. q \in Tab /\ q.tx = None /\ q.flow = "poll" /\ q.op = o /\ q.at = "wait"
  BY <1>1, <1>2 DEF Tab, Steps
<1> QED  BY <1>3, <1>4

\* An operation is prepared for a wallet that is deployed.
LEMMA PrepareKeeps ==
  ASSUME IInv, NEW t \in Tabs, NEW o \in Ops, Prepare(t, o)
  PROVE  IInv'
<1> DEFINE w == account[AccountOf[t]]
           new == [actor |-> w, phase |-> "prepared"]
<1>1. w \in Contracts /\ code[w] \in Allowlist
  <2>1. w \in Contracts \cup {None} /\ w # None /\ AccountOf[t] \in Accounts
    BY TabTyped DEF Prepare
  <2>2. w \in UsedBy(AccountOf[t])
    BY DEF UsedBy
  <2> QED  BY <2>1, <2>2 DEF IInv, UsedDeployed
<1>2. op' = [op EXCEPT ![o] = new] /\ new \in Operation /\ new # None /\ op[o] = None
  BY <1>1, SmartWalletAssumption DEF Prepare, Operation
<1>3. /\ op' \in [Ops -> Operation \cup {None}]
      /\ \A x \in Ops : op[x] # None => op'[x] # None
      /\ \A x \in Ops : op'[x] # None => code[op'[x].actor] \in Allowlist
      /\ op'[o] # None
  BY <1>1, <1>2 DEF IInv, TypeOK, ActorsDeployed
<1>4. UNCHANGED <<tables, clock>> /\ LimitsSound' /\ Watch(t, o)
  BY LimitsStay DEF Prepare
<1> QED  BY <1>3, <1>4, WatchTyped, OperationSound

\* Moving an operation on leaves its actor.
LEMMA Moved ==
  ASSUME IInv, NEW o \in Ops, op[o] # None, NEW phase \in {"prepared", "submitted", "settled"},
         op' = [op EXCEPT ![o].phase = phase]
  PROVE  /\ op' \in [Ops -> Operation \cup {None}]
         /\ \A x \in Ops : op[x] # None => op'[x] # None
         /\ \A x \in Ops : op'[x] # None => code[op'[x].actor] \in Allowlist
<1> DEFINE moved == [op[o] EXCEPT !.phase = phase]
<1>1. op[o] \in Operation
  BY DEF IInv, TypeOK
<1>2. moved \in Operation /\ moved.actor = op[o].actor /\ moved # None
  BY <1>1, SmartWalletAssumption DEF Operation
<1>3. op' = [op EXCEPT ![o] = moved]
  BY DEF IInv, TypeOK
<1> HIDE DEF moved
<1> QED  BY <1>2, <1>3 DEF IInv, TypeOK, ActorsDeployed

\* Submitting moves an operation on and its page watches it.
LEMMA SubmitKeeps ==
  ASSUME IInv, NEW t \in Tabs, Submit(t)
  PROVE  IInv'
<1> DEFINE o == tab[t].op
           phase == IF op[o].phase = "prepared" THEN "submitted" ELSE op[o].phase
<1>1. o \in Ops /\ op[o] # None /\ op[o] \in Operation
  BY TabTyped DEF Submit, TabSound, IInv, TypeOK
<1>2. phase \in {"prepared", "submitted", "settled"}
  BY <1>1 DEF Operation
<1>3. op' = [op EXCEPT ![o].phase = phase]
  BY <1>1 DEF Submit, IInv, TypeOK
<1>4. UNCHANGED <<tables, clock>> /\ LimitsSound' /\ Watch(t, o)
  BY LimitsStay DEF Submit
<1>5. PICK q \in Tab : /\ tab' = [tab EXCEPT ![t] = q] /\ q.tx = None
                       /\ q.flow = "poll" /\ q.op = o /\ q.at = "wait"
  BY <1>1, <1>4, WatchTyped
<1> HIDE DEF phase
<1>6. /\ op' \in [Ops -> Operation \cup {None}]
      /\ \A x \in Ops : op[x] # None => op'[x] # None
      /\ \A x \in Ops : op'[x] # None => code[op'[x].actor] \in Allowlist
  BY <1>1, <1>2, <1>3, Moved
<1> QED  BY <1>1, <1>4, <1>5, <1>6, OperationSound

\* Steps of nobody's tab.
LEMMA SettleKeeps ==
  ASSUME IInv, NEW o \in Ops, Settle(o)
  PROVE  IInv'
<1>1. op[o] # None /\ op' = [op EXCEPT ![o].phase = "settled"]
      /\ UNCHANGED <<account, wallets, claims, code, window, passed, tab, clock>> /\ LimitsSound'
  BY LimitsStay DEF Settle, tables, limits
<1>2. /\ op' \in [Ops -> Operation \cup {None}]
      /\ \A x \in Ops : op[x] # None => op'[x] # None
      /\ \A x \in Ops : op'[x] # None => code[op'[x].actor] \in Allowlist
  BY <1>1, Moved
<1>3. TypeOK'
  BY <1>1, <1>2 DEF IInv, TypeOK
<1>4. ASSUME NEW u \in Tabs PROVE TabSound(tab[u])'
  BY <1>1, <1>2 DEF IInv, TabSound
<1>5. \A a \in Accounts : UsedBy(a)' = UsedBy(a)
  BY <1>1 DEF UsedBy
<1>6. OneDeployer' /\ NotForeign'
  BY <1>1, <1>5 DEF IInv, OneDeployer, NotForeign
<1>7. UsedDeployed' /\ ActorsDeployed'
  BY <1>1, <1>2, <1>5 DEF IInv, UsedDeployed, ActorsDeployed
<1> QED  BY <1>1, <1>3, <1>4, <1>6, <1>7 DEF IInv

\* The clock moves nothing but itself.
LEMMA TimeKeeps ==
  ASSUME IInv, Tick \/ UNCHANGED vars
  PROVE  IInv'
<1>1. /\ UNCHANGED <<account, wallets, claims, code, window, passed, tab, op>>
      /\ clock' \in Times /\ LimitsSound'
  BY LimitsStay, Numbers DEF Tick, vars, tables, limits, IInv, TypeOK, Times
<1>2. TypeOK'
  BY <1>1 DEF IInv, TypeOK
<1>3. ASSUME NEW u \in Tabs PROVE TabSound(tab[u])'
  BY <1>1 DEF IInv, TabSound
<1>4. \A a \in Accounts : UsedBy(a)' = UsedBy(a)
  BY <1>1 DEF UsedBy
<1>5. OneDeployer' /\ NotForeign'
  BY <1>1, <1>4 DEF IInv, OneDeployer, NotForeign
<1>6. UsedDeployed' /\ ActorsDeployed'
  BY <1>1, <1>4 DEF IInv, UsedDeployed, ActorsDeployed
<1> QED  BY <1>1, <1>2, <1>3, <1>5, <1>6 DEF IInv

------------------------------------------------------------------------------
(* Theorems.                                                               *)

\* Nothing is linked and nothing counted at the start.
LEMMA InitSound == Init => IInv
<1> SUFFICES ASSUME Init PROVE IInv
  OBVIOUS
<1>1. NewTab(None) \in Tab /\ NewTab(None).tx = None /\ TabSound(NewTab(None))
  BY NewTabSound
<1>2. tab \in [Tabs -> Tab] /\ \A t \in Tabs : tab[t] = NewTab(None)
  BY <1>1 DEF Init
<1>3. TypeOK
  BY <1>2, Numbers DEF Init, TypeOK, Times
<1>4. LimitsSound
  BY LimitTyped, Numbers DEF Init, LimitsSound, Counted
<1>5. \A t \in Tabs : TabSound(tab[t])
  BY <1>1, <1>2
<1>6. OneDeployer /\ NotForeign
  BY <1>1, <1>2 DEF OneDeployer, NotForeign
<1>7. \A a \in Accounts : UsedBy(a) \subseteq {None}
  BY DEF Init, UsedBy
<1>8. UsedDeployed /\ ActorsDeployed
  BY <1>7 DEF Init, UsedDeployed, ActorsDeployed
<1> QED  BY <1>3, <1>4, <1>5, <1>6, <1>8 DEF IInv

\* Every step keeps the invariant.
LEMMA StepSound == IInv /\ [Next]_vars => IInv'
<1> SUFFICES ASSUME IInv, [Next]_vars PROVE IInv'
  OBVIOUS
<1>1. ASSUME NEW t \in Tabs, Refresh(t) \/ (\E x \in Deploy : CreateWallet(t, x))
      PROVE  IInv'
  BY <1>1, RefreshKeeps, CreateWalletKeeps
<1>2. ASSUME NEW t \in Tabs, AssertRateLimit(t) \/ AssertRelayerBudget(t) \/ CheckDeploy(t)
      PROVE  IInv'
  BY <1>2, RateKeeps, BudgetKeeps, CheckDeployKeeps
<1>3. ASSUME NEW t \in Tabs, Send(t) \/ LinkAccount(t) \/ ReadWallet(t) \/ WriteWallet(t)
                              \/ SaveSmartWalletClaim(t)
      PROVE  IInv'
  BY <1>3, SendKeeps, LinkAccountKeeps, ReadWalletKeeps, WriteWalletKeeps, SaveClaimKeeps
<1>4. ASSUME NEW t \in Tabs, (\E o \in Ops : Prepare(t, o)) \/ SignAndSubmit(t)
                              \/ CheckSubmit(t) \/ Submit(t)
      PROVE  IInv'
  BY <1>4, PrepareKeeps, SignKeeps, CheckSubmitKeeps, SubmitKeeps
<1>5. ASSUME NEW t \in Tabs, Poll(t) \/ CountPoll(t) \/ ReadOperation(t) \/ Drop(t)
      PROVE  IInv'
  BY <1>5, PollKeeps, CountPollKeeps, ReadOperationKeeps, DropKeeps
<1>6. CASE (\E o \in Ops : Settle(o)) \/ Tick \/ UNCHANGED vars
  BY <1>6, SettleKeeps, TimeKeeps
<1> QED  BY <1>1, <1>2, <1>3, <1>4, <1>5, <1>6 DEF Next

\* The invariant holds for ever.
LEMMA Invariance == Spec => []IInv
BY InitSound, StepSound, PTL DEF Spec

\* Accounts, wallets, windows, operations and pages keep their shapes, however
\* many tabs an account has open.
THEOREM TypeCorrect == Spec => []TypeOK
<1>1. IInv => TypeOK
  BY DEF IInv
<1> QED  BY Invariance, <1>1, PTL

\* No window lets through more than its limit, although requests are counted
\* later than they came and several instances share the window.
THEOREM LimitsHold == Spec => []WindowAdmitsLimit
<1>1. IInv => WindowAdmitsLimit
  BY DEF IInv, LimitsSound, WindowAdmitsLimit
<1> QED  BY Invariance, <1>1, PTL

\* Wherever a request dies, an address an account or an operation has is that
\* of a deployed contract with an approved code, and nobody else's.
THEOREM LinkedAreDeployed == Spec => []WalletsWereDeployed
<1>1. IInv => WalletsWereDeployed
  BY DEF IInv, UsedDeployed, ActorsDeployed, UsedBy, WalletsWereDeployed
<1> QED  BY Invariance, <1>1, PTL
------------------------------------------------------------------------------
(* The rows of an account in wallets, which has no unique key for a person. *)

\* A tab comes to the write from the reading and from nowhere else.
LEMMA Upserts ==
  ASSUME IInv, Next, NEW t \in Tabs, tab'[t] # tab[t], tab'[t].at = "writeWallet"
  PROVE  ReadWallet(t)
<1>1. tab \in [Tabs -> Tab]
  BY DEF IInv, TypeOK
<1>2. ASSUME NEW u \in Tabs, NEW q, q.at # "writeWallet", tab' = [tab EXCEPT ![u] = q]
      PROVE  FALSE
  BY <1>1, <1>2
<1>3. ASSUME NEW u \in Tabs, NEW s, s # "writeWallet", Goto(u, s) PROVE FALSE
  <2> DEFINE q == [tab[u] EXCEPT !.at = s]
  <2>1. q.at # "writeWallet" /\ tab' = [tab EXCEPT ![u] = q]
    BY <1>1, <1>3 DEF Goto, Tab
  <2> HIDE DEF q
  <2> QED  BY <1>2, <2>1
<1>4. ASSUME NEW u \in Tabs, Finish(u) PROVE FALSE
  <2>1. NewTab(tab[u].wallet).at # "writeWallet"
    BY DEF NewTab
  <2> QED  BY <1>2, <1>4, <2>1 DEF Finish
<1>5. ASSUME NEW u \in Tabs, Refuse(u) PROVE FALSE
  <2> DEFINE q == [tab[u] EXCEPT !.at = "wait", !.flow = "poll"]
  <2>1. q.at # "writeWallet"
    BY <1>1 DEF Tab
  <2>2. tab' = [tab EXCEPT ![u] = q] \/ Finish(u)
    BY <1>1, <1>5 DEF Refuse
  <2> HIDE DEF q
  <2> QED  BY <1>2, <1>4, <2>1, <2>2
<1>6. ASSUME NEW u \in Tabs, NEW f, NEW x, NEW o, NEW s, s # "writeWallet",
             Arrive(u, f, x, o, s)
      PROVE  FALSE
  <2> DEFINE q == [tab[u] EXCEPT !.at = s, !.flow = f, !.tx = x, !.op = o,
                                 !.actor = account[AccountOf[u]], !.now = clock]
  <2>1. q.at # "writeWallet" /\ tab' = [tab EXCEPT ![u] = q]
    BY <1>1, <1>6 DEF Arrive, Tab
  <2> HIDE DEF q
  <2> QED  BY <1>2, <2>1
<1>7. ASSUME NEW u \in Tabs, NEW o, Watch(u, o) PROVE FALSE
  <2> DEFINE q == [NewTab(tab[u].wallet) EXCEPT
                     !.at = "wait", !.flow = "poll", !.op = o, !.due = clock]
  <2>1. q.at # "writeWallet"
    BY DEF NewTab
  <2>2. tab' = [tab EXCEPT ![u] = q]
    BY <1>1, <1>7 DEF Watch
  <2> HIDE DEF q
  <2> QED  BY <1>2, <2>1, <2>2
<1>8. ASSUME NEW u \in Tabs, Retry(u) \/ Restart(u) PROVE FALSE
  <2> DEFINE q1 == [tab[u] EXCEPT !.at = "wait", !.polled = clock,
                                  !.due = clock + NextBackoff(tab[u].attempt)]
             q2 == [tab[u] EXCEPT !.at = "wait", !.polled = clock, !.due = clock,
                                  !.attempt = 0]
  <2>1. q1.at # "writeWallet" /\ q2.at # "writeWallet"
    BY <1>1 DEF Tab
  <2>2. tab' = [tab EXCEPT ![u] = q1] \/ tab' = [tab EXCEPT ![u] = q2]
    BY <1>1, <1>8 DEF Retry, Restart
  <2> HIDE DEF q1, q2
  <2> QED  BY <1>2, <2>1, <2>2
<1>9. ASSUME NEW u \in Tabs, Refresh(u) PROVE FALSE
  <2> DEFINE q == [tab[u] EXCEPT !.wallet = account[AccountOf[u]]]
  <2>1. q.at # "writeWallet" /\ tab' = [tab EXCEPT ![u] = q]
    BY <1>1, <1>9 DEF Refresh, At, Tab
  <2> HIDE DEF q
  <2> QED  BY <1>2, <2>1
<1>10. ASSUME NEW u \in Tabs, CheckDeploy(u) \/ CheckSubmit(u) PROVE FALSE
  <2> DEFINE q == [tab[u] EXCEPT !.at = "budget", !.now = clock]
  <2>1. q.at # "writeWallet"
    BY <1>1 DEF Tab
  <2>2. tab' = [tab EXCEPT ![u] = q] \/ Finish(u) \/ Refuse(u)
    BY <1>1, <1>10 DEF CheckDeploy, CheckSubmit
  <2> HIDE DEF q
  <2> QED  BY <1>2, <1>4, <1>5, <2>1, <2>2
<1>11. ASSUME NEW u \in Tabs, Poll(u) PROVE FALSE
  <2> DEFINE q == [tab[u] EXCEPT !.at = "poll", !.attempt = tab[u].attempt + 1,
                                 !.actor = account[AccountOf[u]], !.now = clock]
  <2>1. q.at # "writeWallet"
    BY <1>1 DEF Tab
  <2>2. tab' = [tab EXCEPT ![u] = q] \/ Goto(u, "stopped")
    BY <1>1, <1>11 DEF Poll
  <2> HIDE DEF q
  <2> QED  BY <1>2, <1>3, <2>1, <2>2
<1>12. ASSUME NEW u \in Tabs,
              \/ \E x \in Deploy : CreateWallet(u, x)
              \/ SignAndSubmit(u) \/ Submit(u)
              \/ \E o \in Ops : Prepare(u, o)
       PROVE  FALSE
  BY <1>6, <1>7, <1>12 DEF CreateWallet, SignAndSubmit, Submit, Prepare
<1>13. ASSUME NEW u \in Tabs, AssertRateLimit(u) \/ AssertRelayerBudget(u) PROVE FALSE
  <2>1. Refuse(u) \/ Goto(u, "check") \/ Goto(u, "send")
    BY <1>13 DEF AssertRateLimit, AssertRelayerBudget
  <2> QED  BY <1>3, <1>5, <2>1
<1>14. ASSUME NEW u \in Tabs, Send(u) \/ LinkAccount(u) \/ WriteWallet(u)
                                \/ SaveSmartWalletClaim(u)
       PROVE  FALSE
  <2>1. Finish(u) \/ Goto(u, "link") \/ Goto(u, "readWallet") \/ Goto(u, "saveClaim")
    BY <1>14 DEF Send, LinkAccount, WriteWallet, SaveSmartWalletClaim
  <2> QED  BY <1>3, <1>4, <2>1
<1>15. ASSUME NEW u \in Tabs, CountPoll(u) \/ ReadOperation(u) \/ Drop(u) PROVE FALSE
  <2>1. Retry(u) \/ Restart(u) \/ Finish(u) \/ Goto(u, "readOp")
    BY <1>15 DEF CountPoll, ReadOperation, Drop
  <2> QED  BY <1>3, <1>4, <1>8, <2>1
<1>16. ASSUME NEW u \in Tabs, ReadWallet(u) PROVE u = t
  BY <1>1, <1>16 DEF ReadWallet
<1>17. CASE (\E o \in Ops : Settle(o)) \/ Tick
  BY <1>17 DEF Settle, Tick
<1> QED
  BY <1>9, <1>10, <1>11, <1>12, <1>13, <1>14, <1>15, <1>16, <1>17 DEF Next

\* Only the write touches the table.
LEMMA WalletWriters ==
  ASSUME Next
  PROVE  UNCHANGED wallets \/ \E t \in Tabs : WriteWallet(t)
<1>1. ASSUME NEW t \in Tabs,
             \/ Refresh(t) \/ (\E x \in Deploy : CreateWallet(t, x))
             \/ AssertRateLimit(t) \/ AssertRelayerBudget(t) \/ CheckDeploy(t)
             \/ Send(t) \/ LinkAccount(t) \/ ReadWallet(t) \/ SaveSmartWalletClaim(t)
             \/ (\E o \in Ops : Prepare(t, o)) \/ SignAndSubmit(t) \/ CheckSubmit(t)
             \/ Submit(t) \/ Poll(t) \/ CountPoll(t) \/ ReadOperation(t) \/ Drop(t)
      PROVE  UNCHANGED wallets
  BY <1>1 DEF Refresh, CreateWallet, AssertRateLimit, AssertRelayerBudget, CheckDeploy, Send,
              LinkAccount, ReadWallet, SaveSmartWalletClaim, Prepare, SignAndSubmit,
              CheckSubmit, Submit, Poll, CountPoll, ReadOperation, Drop, tables
<1>2. CASE (\E o \in Ops : Settle(o)) \/ Tick
  BY <1>2 DEF Settle, Tick, tables
<1> QED  BY <1>1, <1>2 DEF Next

\* Replacing a row that was seen leaves the number of rows, seen or not.
LEMMA RowReplaced ==
  ASSUME NEW rows \in Seq(Contracts), NEW k \in Nat, NEW c \in Contracts
  PROVE  Len([rows EXCEPT ![k] = c]) = Len(rows)
<1>1. CASE k \in 1 .. Len(rows)
  BY <1>1, ExceptSeq
<1>2. CASE k \notin 1 .. Len(rows)
  <2>1. DOMAIN rows = 1 .. Len(rows)
    BY LenProperties
  <2>2. [rows EXCEPT ![k] = c] = rows
    BY <1>2, <2>1
  <2> QED  BY <2>2
<1> QED  BY <1>1, <1>2

\* A write changes the rows of its own account only, and their number only
\* when it saw none.
LEMMA RowsWritten ==
  ASSUME IInv, NEW t \in Tabs, WriteWallet(t), NEW a \in Accounts, HasItsRow(a)
  PROVE  Len(wallets'[a]) = Len(wallets[a])
<1>1. /\ wallets \in [Accounts -> Seq(Contracts)] /\ tab[t] \in Tab
      /\ AccountOf[t] \in Accounts
  BY SmartWalletAssumption DEF IInv, TypeOK
<1>2. tab[t].tx.contract \in Contracts /\ tab[t].seen \in Nat
  <2>1. tab[t].tx # None
    BY DEF IInv, TabSound, Linking, WriteWallet, At
  <2> QED  BY <1>1, <2>1 DEF Tab, Deploy
<1>3. CASE a = AccountOf[t]
  <2> DEFINE c == tab[t].tx.contract
             k == tab[t].seen
             rows == wallets[a]
  <2>1. k # 0
    BY <1>3 DEF HasItsRow, WriteWallet
  <2>2. wallets' = [wallets EXCEPT ![a][k] = c]
    BY <1>3, <2>1 DEF WriteWallet
  <2>3. wallets'[a] = [rows EXCEPT ![k] = c]
    BY <1>1, <2>2
  <2>4. rows \in Seq(Contracts)
    BY <1>1
  <2> HIDE DEF rows, k, c
  <2>5. Len([rows EXCEPT ![k] = c]) = Len(rows)
    BY <1>2, <2>4, RowReplaced DEF c, k
  <2> QED  BY <2>3, <2>5 DEF rows
<1>4. CASE a # AccountOf[t]
  BY <1>1, <1>4 DEF WriteWallet
<1> QED  BY <1>3, <1>4

\* Once an account has a row in wallets and no tab of it is about to insert
\* one, it never gets another, whatever its tabs do, and wherever they die.
\* (PostgreSQLIdentityStore.ts:335)
THEOREM RowsStay == Spec => RowsSettle
<1>1. ASSUME IInv, Next, NEW a \in Accounts, HasItsRow(a)
      PROVE  HasItsRow(a)' /\ Len(wallets'[a]) = Len(wallets[a])
  <2>1. wallets \in [Accounts -> Seq(Contracts)] /\ wallets' \in [Accounts -> Seq(Contracts)]
    BY <1>1, StepSound DEF IInv, TypeOK
  <2>2. Len(wallets'[a]) = Len(wallets[a])
    <3>1. CASE UNCHANGED wallets
      BY <3>1
    <3> QED  BY <1>1, <3>1, RowsWritten, WalletWriters
  <2>3. Len(wallets[a]) # 0
    BY <1>1, <2>1, EmptySeq DEF HasItsRow
  <2>4. wallets'[a] # <<>>
    BY <2>2, <2>3, EmptySeq
  <2>5. ASSUME NEW t \in Tabs, tab'[t].at = "writeWallet", AccountOf[t] = a
        PROVE  tab'[t].seen # 0
    <3>1. CASE tab'[t] = tab[t]
      BY <1>1, <2>5, <3>1 DEF HasItsRow, At
    <3>2. CASE tab'[t] # tab[t]
      <4>1. ReadWallet(t)
        BY <1>1, <2>5, <3>2, Upserts
      <4> DEFINE n == Len(wallets[a])
                 q == [tab[t] EXCEPT !.at = "writeWallet", !.seen = n]
      <4>2. tab \in [Tabs -> Tab] /\ tab' = [tab EXCEPT ![t] = q]
        BY <1>1, <2>5, <4>1 DEF ReadWallet, IInv, TypeOK
      <4>3. q.seen = n
        BY <4>2 DEF Tab
      <4> HIDE DEF n, q
      <4> QED  BY <2>3, <4>2, <4>3 DEF n
    <3> QED  BY <3>1, <3>2
  <2> QED  BY <2>2, <2>4, <2>5 DEF HasItsRow, At
<1>2. IInv /\ [Next]_vars =>
        [\A a \in Accounts : HasItsRow(a) =>
           HasItsRow(a)' /\ Len(wallets'[a]) = Len(wallets[a])]_vars
  BY <1>1
<1> QED  BY <1>2, Invariance, PTL DEF Spec, RowsSettle
==============================================================================

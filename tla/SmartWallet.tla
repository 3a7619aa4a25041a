----------------------------- MODULE SmartWallet ------------------------------
(***************************************************************************)
(* The smart wallet of an account and the requests made with it.  The      *)
(* browser signs the deployment of a passkey contract; the server checks   *)
(* it, relays it and links the contract to the account, each statement a   *)
(* transaction of its own.  The same wallet then signs prepared operations *)
(* and the page polls them.  The three routes count requests in windows    *)
(* shared by all instances.                                                *)
(*                                                                         *)
(* A page keeps the wallet it was loaded with and a request the actor its  *)
(* session had when it came in, whatever other tabs do meanwhile; a        *)
(* request may die at any step.  The fate of a submitted operation is the  *)
(* subject of StellarOutbox: here it settles some time later.              *)
(***************************************************************************)
EXTENDS Integers, Sequences, FiniteSets

CONSTANTS
  Tabs,        \* open pages
  Accounts, AccountOf,   \* and the account logged in on each
  PersonOf,    \* the person of an account, or None
  Contracts,   \* addresses of smart wallets
  Ops,         \* operations
  None,        \* null
  ClientWasms, \* wallet codes a page may be built with
  Networks,    \* and passphrases
  Network, Allowlist, Accepted,    \* configuration of server and browser
  RateLimit, PollLimit, Budget,    \* 120 and 240 a minute, 500 a day
  RateWindow, BudgetWindow,        \* the minute and the day, in ticks
  MaxAttempts, MaxBackoff,         \* of the poller: 60 polls, 30 seconds
  MaxTime,     \* bound: ticks of the clock
  MaxHits      \* bound: requests counted in one window

VARIABLES
  account,   \* accounts: wallet_contract_address
  wallets,   \* wallets of each account's person, in the order they were created
  claims,    \* smart_wallet_claims
  code,      \* the ledger: the WASM of a deployed contract
  window,    \* rate_budget_windows
  passed,    \* requests let through since each window began
  op,        \* operations: the actor of the intent, and whether it is settled
  tab,       \* the pages and their requests
  clock

tables == <<account, wallets, claims, code>>
limits == <<window, passed>>
vars   == <<tables, limits, op, tab, clock>>

Times   == 0 .. MaxTime
Keys    == Accounts \cup Contracts
Windows == {<<k, "rate">> : k \in Keys} \cup {<<a, "budget">> : a \in Accounts}
Uses    == {"request", "poll", "budget"}
Window  == [count : 1 .. MaxHits, resetAt : Nat]
Deploy  == [contract : Contracts, network : Networks, wasm : ClientWasms]
Operation == [actor : Contracts, phase : {"prepared", "submitted", "settled"}]

ASSUME SmartWalletAssumption ==
  /\ AccountOf \in [Tabs -> Accounts]
  /\ None \notin Accounts \cup Contracts \cup Ops \cup ClientWasms \cup Allowlist
                  \cup Deploy \cup Window \cup Operation
  /\ {RateLimit, PollLimit, Budget, RateWindow, BudgetWindow, MaxAttempts,
      MaxBackoff, MaxTime, MaxHits} \subseteq Nat \ {0}

Steps == {"idle", "rate", "check", "budget", "send", "link", "readWallet",
          "writeWallet", "saveClaim", "wait", "poll", "readOp", "stopped"}

\* wallet: the address the page was rendered with; actor: the wallet the session
\* of the request had; now: Date.now() before the count; seen: the wallets row
\* that was read; attempt, due and polled: of the poller.
Tab == [at : Steps, flow : {"none", "deploy", "submit", "poll"},
        wallet : Contracts \cup {None}, actor : Contracts \cup {None},
        tx : Deploy \cup {None}, op : Ops \cup {None}, now : Times,
        seen : Nat, attempt : 0 .. MaxAttempts,
        due : Int, polled : Times \cup {None}]

NewTab(w) == [at |-> "idle", flow |-> "none", wallet |-> w, actor |-> None, tx |-> None,
              op |-> None, now |-> 0, seen |-> 0, attempt |-> 0, due |-> 0, polled |-> None]

Limit(use) == CASE use = "request" -> RateLimit
                [] use = "poll"    -> PollLimit
                [] use = "budget"  -> Budget

TypeOK ==
  /\ account \in [Accounts -> Contracts \cup {None}]
  /\ wallets \in [Accounts -> Seq(Contracts)]
  /\ claims \subseteq Contracts \X Accounts
  /\ code \in [Contracts -> ClientWasms \cup {None}]
  /\ window \in [Windows -> Window \cup {None}]
  /\ passed \in [Windows -> [Uses -> 0 .. MaxHits]]
  /\ op \in [Ops -> Operation \cup {None}]
  /\ tab \in [Tabs -> Tab]
  /\ clock \in Times

Init ==
  /\ account = [a \in Accounts |-> None]
  /\ wallets = [a \in Accounts |-> <<>>]
  /\ claims = {}
  /\ code = [c \in Contracts |-> None]
  /\ window = [w \in Windows |-> None]
  /\ passed = [w \in Windows |-> [u \in Uses |-> 0]]
  /\ op = [o \in Ops |-> None]
  /\ tab = [t \in Tabs |-> NewTab(None)]
  /\ clock = 0

At(t, s)   == tab[t].at = s
Goto(t, s) == tab' = [tab EXCEPT ![t].at = s]

\* The page drops what it was doing.
Finish(t)  == tab' = [tab EXCEPT ![t] = NewTab(tab[t].wallet)]

\* A request is refused; a page that submitted still has its operation, and
\* polls it.
Refuse(t) ==
  IF tab[t].flow = "submit"
  THEN tab' = [tab EXCEPT ![t] = [@ EXCEPT !.at = "wait", !.flow = "poll"]]
  ELSE Finish(t)

------------------------------------------------------------------------------
(* Windows.                                                                *)

\* One upsert: a window that is over starts again with this request.
HitLimit(w, length, now) ==
  IF window[w] = None \/ window[w].resetAt <= now
  THEN [count |-> 1, resetAt |-> now + length]
  ELSE [window[w] EXCEPT !.count = @ + 1]

OverByOne(use, hit) == hit.count > Limit(use) + 1                  \* mutant
Over(use, hit) == hit.count > Limit(use)

\* Counts a request; passed is what was let through in the same window.
CountHit(w, use, hit) ==
  LET begun == IF hit.count = 1 THEN [u \in Uses |-> 0] ELSE passed[w]
  IN /\ hit.count <= MaxHits
     /\ window' = [window EXCEPT ![w] = hit]
     /\ passed' = [passed EXCEPT ![w] =
          [begun EXCEPT ![use] = @ + IF Over(use, hit) THEN 0 ELSE 1]]

\* A request with a session reads its actor and the time.
Arrive(t, flow, tx, o, step) ==
  tab' = [tab EXCEPT ![t] = [@ EXCEPT !.at = step, !.flow = flow, !.tx = tx, !.op = o,
                              !.actor = account[AccountOf[t]], !.now = clock]]

\* assertRateLimit of the two POST routes counts for the account.
AssertRateLimit(t) ==
  LET w == <<AccountOf[t], "rate">>
      hit == HitLimit(w, RateWindow, tab[t].now)
  IN /\ At(t, "rate")
     /\ CountHit(w, "request", hit)
     /\ IF Over("request", hit) THEN Refuse(t) ELSE Goto(t, "check")
     /\ UNCHANGED <<tables, op, clock>>

AssertRelayerBudget(t) ==
  LET w == <<AccountOf[t], "budget">>
      hit == HitLimit(w, BudgetWindow, tab[t].now)
  IN /\ At(t, "budget")
     /\ CountHit(w, "budget", hit)
     /\ IF Over("budget", hit) THEN Refuse(t) ELSE Goto(t, "send")
     /\ UNCHANGED <<tables, op, clock>>

------------------------------------------------------------------------------
(* The deployment.                                                         *)

\* router.refresh, or another visit.
Refresh(t) ==
  /\ At(t, "idle") /\ tab[t].wallet # account[AccountOf[t]]
  /\ tab' = [tab EXCEPT ![t].wallet = account[AccountOf[t]]]
  /\ UNCHANGED <<tables, limits, op, clock>>

\* Every wallet is made for a new passkey, at an address of its own.
Unmade == {c \in Contracts : code[c] = None /\
             \A t \in Tabs : tab[t].tx # None => tab[t].tx.contract # c}

\* The page offers a wallet when it was rendered without one.
CreateWallet(t, tx) ==
  /\ At(t, "idle") /\ tab[t].wallet = None
  /\ tx \in Deploy /\ tx.contract \in Unmade
  /\ Arrive(t, "deploy", tx, None, "rate")
  /\ UNCHANGED <<tables, limits, op, clock>>

\* The code the transaction installs.
WasmHashes(tx) == {tx.wasm}

\* The address depends on the passphrase it is derived with.
DerivedContract(tx) == IF tx.network = Network THEN tx.contract ELSE None

AssertDeployable(tx) ==
  /\ Allowlist # {} /\ WasmHashes(tx) \subseteq Allowlist
  /\ DerivedContract(tx) = tx.contract

CheckDeploy(t) ==
  /\ At(t, "check") /\ tab[t].flow = "deploy"
  /\ IF AssertDeployable(tab[t].tx)
     THEN tab' = [tab EXCEPT ![t].at = "budget", ![t].now = clock]
     ELSE Finish(t)
  /\ UNCHANGED <<tables, limits, op, clock>>

\* The relayer waits for the transaction.  It may give up on one that is
\* included all the same.
SendWithoutWaiting(t) ==                                           \* mutant
  /\ At(t, "send") /\ tab[t].flow = "deploy"
  /\ \/ code' = [code EXCEPT ![tab[t].tx.contract] = tab[t].tx.wasm]
     \/ code' = code
  /\ Goto(t, "link")
  /\ UNCHANGED <<account, wallets, claims, limits, op, clock>>
Send(t) ==
  LET deployed == [code EXCEPT ![tab[t].tx.contract] = tab[t].tx.wasm]
  IN /\ At(t, "send") /\ tab[t].flow = "deploy"
     /\ \/ code' = deployed /\ Goto(t, "link")
        \/ code' \in {deployed, code} /\ Finish(t)
     /\ UNCHANGED <<account, wallets, claims, limits, op, clock>>

\* updateAccountWalletContractAddress, getAccount
LinkAccount(t) ==
  LET a == AccountOf[t] IN
  /\ At(t, "link")
  /\ account' = [account EXCEPT ![a] = tab[t].tx.contract]
  /\ IF PersonOf[a] = None THEN Finish(t) ELSE Goto(t, "readWallet")
  /\ UNCHANGED <<wallets, claims, code, limits, op, clock>>

\* upsertWallet: the newest row of the person is replaced, if one was seen.
ReadWallet(t) ==
  /\ At(t, "readWallet")
  /\ tab' = [tab EXCEPT ![t].at = "writeWallet", ![t].seen = Len(wallets[AccountOf[t]])]
  /\ UNCHANGED <<tables, limits, op, clock>>

WriteWallet(t) ==
  LET a == AccountOf[t]
      c == tab[t].tx.contract
  IN /\ At(t, "writeWallet")
     /\ wallets' = IF tab[t].seen = 0 THEN [wallets EXCEPT ![a] = Append(@, c)]
                   ELSE [wallets EXCEPT ![a][tab[t].seen] = c]
     /\ Goto(t, "saveClaim")
     /\ UNCHANGED <<account, claims, code, limits, op, clock>>

SaveSmartWalletClaim(t) ==
  /\ At(t, "saveClaim")
  /\ claims' = claims \cup {<<tab[t].tx.contract, AccountOf[t]>>}
  /\ Finish(t)
  /\ UNCHANGED <<account, wallets, code, limits, op, clock>>

------------------------------------------------------------------------------
(* Signing and submitting.                                                 *)

\* A new operation object starts the effect that polls.
Watch(t, o) ==
  tab' = [tab EXCEPT ![t] = [NewTab(@.wallet) EXCEPT
            !.at = "wait", !.flow = "poll", !.op = o, !.due = clock]]

\* A prepared operation is for the wallet the session has now.  The page polls
\* it from here on, except while it submits.
Prepare(t, o) ==
  LET w == account[AccountOf[t]] IN
  /\ At(t, "idle") /\ tab[t].wallet # None /\ w # None /\ op[o] = None
  /\ op' = [op EXCEPT ![o] = [actor |-> w, phase |-> "prepared"]]
  /\ Watch(t, o)
  /\ UNCHANGED <<tables, limits, clock>>

\* connectWallet verifies the code; sign needs an authorization of this wallet.
Signable(t) ==
  /\ code[tab[t].wallet] \in Accepted
  /\ op[tab[t].op].actor = tab[t].wallet

SignAndSubmit(t) ==
  /\ At(t, "wait") \/ At(t, "stopped")
  /\ op[tab[t].op].phase # "settled" /\ Signable(t)
  /\ Arrive(t, "submit", None, tab[t].op, "rate")
  /\ UNCHANGED <<tables, limits, op, clock>>

\* The wallet of the page signed; the request still has its session's.
CheckSubmit(t) ==
  /\ At(t, "check") /\ tab[t].flow = "submit"
  /\ IF tab[t].actor # None /\ op[tab[t].op].actor = tab[t].actor
        /\ tab[t].wallet = tab[t].actor
     THEN tab' = [tab EXCEPT ![t].at = "budget", ![t].now = clock]
     ELSE Refuse(t)
  /\ UNCHANGED <<tables, limits, op, clock>>

\* submitSigned; its answer starts the poller.
Submit(t) ==
  /\ At(t, "send") /\ tab[t].flow = "submit"
  /\ op' = [op EXCEPT ![tab[t].op].phase = IF @ = "prepared" THEN "submitted" ELSE @]
  /\ Watch(t, tab[t].op)
  /\ UNCHANGED <<tables, limits, clock>>

Settle(o) ==
  /\ op[o] # None /\ op[o].phase = "submitted"
  /\ op' = [op EXCEPT ![o].phase = "settled"]
  /\ UNCHANGED <<tables, limits, tab, clock>>

------------------------------------------------------------------------------
(* The poller.                                                             *)

NextBackoff(attempt) == IF 2 ^ (attempt - 1) < MaxBackoff THEN 2 ^ (attempt - 1) ELSE MaxBackoff

PollForever(t) ==                                                  \* mutant
  /\ At(t, "wait") /\ clock >= tab[t].due
  /\ tab' = [tab EXCEPT ![t] = [@ EXCEPT !.at = "poll", !.attempt = @ + 1,
               !.actor = account[AccountOf[t]], !.now = clock]]
  /\ UNCHANGED <<tables, limits, op, clock>>
Poll(t) ==
  /\ At(t, "wait") /\ clock >= tab[t].due
  /\ IF tab[t].attempt + 1 > MaxAttempts THEN Goto(t, "stopped")
     ELSE tab' = [tab EXCEPT ![t] = [@ EXCEPT !.at = "poll", !.attempt = tab[t].attempt + 1,
                    !.actor = account[AccountOf[t]], !.now = clock]]
  /\ UNCHANGED <<tables, limits, op, clock>>

Retry(t) ==
  tab' = [tab EXCEPT ![t] = [@ EXCEPT !.at = "wait", !.polled = clock,
                                      !.due = clock + NextBackoff(tab[t].attempt)]]

\* The route counts for the wallet of the session, or for the account.
CountPoll(t) ==
  LET w == <<IF tab[t].actor # None THEN tab[t].actor ELSE AccountOf[t], "rate">>
      hit == HitLimit(w, RateWindow, tab[t].now)
  IN /\ At(t, "poll")
     /\ CountHit(w, "poll", hit)
     /\ IF Over("poll", hit) THEN Retry(t) ELSE Goto(t, "readOp")
     /\ UNCHANGED <<tables, op, clock>>

\* A state that is not terminal becomes the new state of the page, and the
\* effect that polls starts again for it: at once, from the first attempt.
Restart(t) ==
  tab' = [tab EXCEPT ![t] = [@ EXCEPT !.at = "wait", !.polled = clock,
                                      !.due = clock, !.attempt = 0]]

ReadOperation(t) ==
  LET o == op[tab[t].op] IN
  /\ At(t, "readOp")
  /\ \/ tab[t].actor # o.actor /\ Retry(t)
     \/ tab[t].actor = o.actor /\ o.phase # "settled" /\ Restart(t)
     \/ tab[t].actor = o.actor /\ o.phase = "settled" /\ Finish(t)
  /\ UNCHANGED <<tables, limits, op, clock>>

------------------------------------------------------------------------------
\* A request dies or its answer is lost, the network of a poll fails, or the
\* page goes away.
Drop(t) ==
  /\ tab[t].at # "idle"
  /\ \/ Finish(t)
     \/ tab[t].at \in {"poll", "readOp"} /\ Retry(t)
  /\ UNCHANGED <<tables, limits, op, clock>>

Tick ==
  /\ clock < MaxTime
  /\ clock' = clock + 1
  /\ UNCHANGED <<tables, limits, op, tab>>

Next ==
  \/ \E t \in Tabs :
       \/ Refresh(t)
       \/ \E tx \in Deploy : CreateWallet(t, tx)
       \/ AssertRateLimit(t) \/ AssertRelayerBudget(t)
       \/ CheckDeploy(t) \/ Send(t) \/ LinkAccount(t) \/ ReadWallet(t)
       \/ WriteWallet(t) \/ SaveSmartWalletClaim(t)
       \/ \E o \in Ops : Prepare(t, o)
       \/ SignAndSubmit(t) \/ CheckSubmit(t) \/ Submit(t)
       \/ Poll(t) \/ CountPoll(t) \/ ReadOperation(t)
       \/ Drop(t)
  \/ \E o \in Ops : Settle(o)
  \/ Tick

Spec == Init /\ [][Next]_vars

------------------------------------------------------------------------------
(* Properties.                                                             *)

\* However the requests of an account interleave, and however late they are
\* counted, no window lets through more than its limit (perimeter.ts,
\* PostgreSQLRateBudgetStore.hitLimit).
WindowAdmitsLimit ==
  \A w \in Windows, u \in Uses : passed[w][u] <= Limit(u)

\* Whatever the tabs of an account do at once and wherever a request dies, an
\* address in the tables, or in an operation, is that of a contract the ledger
\* has with an approved code, and belongs to one account (the deploy route).
WalletsWereDeployed ==
  LET used(a) == {account[a]} \cup {wallets[a][k] : k \in DOMAIN wallets[a]}
                 \cup {c \in Contracts : <<c, a>> \in claims}
  IN /\ \A a \in Accounts : \A c \in used(a) \ {None} :
          /\ code[c] \in Allowlist
          /\ \A b \in Accounts \ {a} : c \notin used(b)
     /\ \A o \in Ops : op[o] # None => code[op[o].actor] \in Allowlist

\* An account that has a wallets row, and no tab about to insert one because it
\* saw none.
HasItsRow(a) ==
  /\ wallets[a] # <<>>
  /\ \A t \in Tabs : At(t, "writeWallet") /\ AccountOf[t] = a => tab[t].seen # 0

\* Such an account never gets another row: later deployments replace the
\* newest.  So a second row comes only from tabs that had both looked before
\* the first was written (upsertWallet).
RowsSettle ==
  [][\A a \in Accounts : HasItsRow(a) =>
       HasItsRow(a)' /\ Len(wallets'[a]) = Len(wallets[a])]_vars

\* Two polls of an operation are at least a tick apart (useOperationPoller.ts:
\* "Exponential backoff with a cap, both on errors and non-terminal updates").
PollsBackOff ==
  [][\A t \in Tabs : At(t, "wait") /\ tab'[t].at = "poll" /\ tab[t].polled # None
       => clock > tab[t].polled]_vars
==============================================================================

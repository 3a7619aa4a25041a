CONSTANTS
  None = None
  a1 = a1
  p1 = p1
  Tabs = {t1, t2}
  Accounts = {a1}
  AccountOf <- SameAccount
  PersonOf <- OnePerson
  Contracts = {c1, c2}
  Ops = {o1}
  ClientWasms = {wasm, oldWasm}
  Networks = {testnet, mainnet}
  Network = testnet
  Allowlist = {wasm}
  Accepted = {wasm}
  RateLimit = 2
  PollLimit = 2
  Budget = 2
  RateWindow = 1
  BudgetWindow = 1
  MaxAttempts = 1
  MaxBackoff = 1
  MaxTime = 1
  MaxHits = 3
SPECIFICATION Spec
CHECK_DEADLOCK FALSE
PROPERTY PollsBackOff

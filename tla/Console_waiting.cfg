CONSTANTS
  bot = bot
  login_form = login_form
  user_list = user_list
  env_file = env_file
  installer = installer
  Asker = {a1}
  Admin = admin
  MaxPresses = 2
  Budgets <- MCFailure
  Client = {c1}
  Tab = {t1, t2}
  MaxAttempts = 2
  Window = 1
  Cooldown = 3
  Lifetime = 2
  MaxLogins = 2
  MaxRestarts = 1
  Absent = Absent
  Tables <- MCTables
  Queries <- MCQueries
  Later <- MCLater
  MaxWrites = 1
  Required = {"port", "token"}
  Optional = {"log"}
  Exact = {"port"}
  Files <- MCFiles
  MaxLoads = 3
  Unset = Unset
  Dir = {d1, d2}
  Sites <- MCSites
  MaxInstalls = 3
  MaxFaults = 2
  MaxEdits = 1
  Nothing = Nothing
SPECIFICATION MCSpec
INVARIANT WaitingIsAnnounced

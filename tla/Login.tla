-------------------------------- MODULE Login --------------------------------
(***************************************************************************)
(* internal/auth and the login handlers of internal/httpserver: the login  *)
(* limiter, the signed session cookie, and the redirects between the login *)
(* page and the pages behind RequireSession.                               *)
(*                                                                         *)
(* Allow and RecordFailure are two critical sections with bcrypt between   *)
(* them, so login requests of one client overlap.  Time is counted in      *)
(* ticks: a time.Time of the code is kept as its distance from now, and no *)
(* further than it matters.                                                *)
(***************************************************************************)
EXTENDS Integers, Sequences, FiniteSets

CONSTANTS
  Client,       \* addresses (RealIP); a client's tabs share its cookie jar
  Tab,          \* browser tabs: requests that may be in flight together
  MaxAttempts, Window, Cooldown,  \* NewLoginLimiter's parameters
  Lifetime,     \* SessionLifetime
  MaxLogins,    \* bound: successful logins in one behaviour
  MaxRestarts,  \* bound: restarts of the panel in one behaviour
  Absent

\* age: now - windowStart, lock: lockedUntil - now (0 when it has passed).
Attempts == [count : Nat, age : 0 .. Window + 1, lock : 0 .. Cooldown]

\* DefaultMaxAttempts, DefaultWindow, DefaultCooldown and SessionLifetime are 5,
\* 5 minutes, 15 minutes and a day.
ASSUME LoginAssumption ==
  /\ MaxAttempts \in Nat \ {0} /\ Lifetime \in Nat \ {0}
  /\ Window \in Nat /\ Cooldown \in Nat /\ Cooldown > Window
  /\ MaxLogins \in Nat /\ MaxRestarts \in Nat
  /\ IsFiniteSet(Tab) /\ Absent \notin Attempts

VARIABLES
  attempts,  \* the limiter's map; Absent where a key has no entry
  tab,       \* what each tab is doing
  cookie,    \* each client's session cookie, Absent where there is none
  secret,    \* SESSION_SECRET of the running panel
  failed,    \* history: ages of a client's last failures, the newest first
  logins, restarts

loginVars == <<attempts, tab, cookie, secret, failed, logins, restarts>>

\* "root" and "login" are redirects about to be followed, to a page behind
\* RequireSession and to the login form.
TabState == [at : {"rest", "root", "login", "checking"}, client : Client]

\* The cookie is an expiry and its signature; left: expiry - now.
Cookie == [left : 1 .. Lifetime, secret : Nat]

LoginInit ==
  /\ attempts = [k \in Client |-> Absent]
  /\ tab \in [Tab -> [at : {"rest"}, client : Client]]
  /\ cookie = [k \in Client |-> Absent]
  /\ secret = 0
  /\ failed = [k \in Client |-> <<>>]
  /\ logins = 0
  /\ restarts = 0

GoTo(t, page) == tab' = [tab EXCEPT ![t].at = page]

------------------------------------------------------------------------------
(* The limiter.                                                            *)

Locked(k) == attempts[k] # Absent /\ attempts[k].lock > 0

Allow(k) == ~Locked(k)

\* Mutant: the window never ends.
CountsForever(k) ==
  LET st == IF attempts[k] = Absent THEN [count |-> 0, age |-> 0, lock |-> 0]
            ELSE attempts[k]
  IN [count |-> st.count + 1, age |-> st.age,
      lock |-> IF st.count + 1 >= MaxAttempts THEN Cooldown ELSE st.lock]

\* Mutant: the cooldown is added to the lock there is.
LocksLonger(k) ==
  LET fresh == attempts[k] = Absent \/ attempts[k].age > Window
      st == IF fresh THEN [count |-> 0, age |-> 0, lock |-> 0] ELSE attempts[k]
  IN [count |-> st.count + 1, age |-> st.age,
      lock |-> st.lock + (IF st.count + 1 >= MaxAttempts THEN Cooldown ELSE 0)]

\* A failure later than the window starts a new state, even of a locked key.
Failure(k) ==
  LET fresh == attempts[k] = Absent \/ attempts[k].age > Window
      st == IF fresh THEN [count |-> 0, age |-> 0, lock |-> 0] ELSE attempts[k]
  IN [count |-> st.count + 1, age |-> st.age,
      lock |-> IF st.count + 1 >= MaxAttempts THEN Cooldown ELSE st.lock]

RecordFailure(k) ==
  /\ attempts' = [attempts EXCEPT ![k] = Failure(k)]
  /\ failed' = [failed EXCEPT ![k] =
       IF Len(@) < MaxAttempts THEN <<0>> \o @
       ELSE <<0>> \o SubSeq(@, 1, MaxAttempts - 1)]

RecordSuccess(k) ==
  /\ attempts' = [attempts EXCEPT ![k] = Absent]
  /\ failed' = [failed EXCEPT ![k] = <<>>]

------------------------------------------------------------------------------
(* The handlers.                                                           *)

Verify(k) == cookie[k] # Absent /\ cookie[k].secret = secret

\* Mutant: the limiter is not asked.
SubmitsAlways(t) ==
  /\ tab[t].at = "rest"
  /\ GoTo(t, "checking")
  /\ UNCHANGED <<attempts, cookie, secret, failed, logins, restarts>>

\* Mutant: a refused attempt starts the cooldown again.
SubmitExtends(t) ==
  /\ tab[t].at = "rest"
  /\ IF Allow(tab[t].client)
       THEN GoTo(t, "checking") /\ UNCHANGED attempts
       ELSE attempts' = [attempts EXCEPT ![tab[t].client].lock = Cooldown]
            /\ UNCHANGED tab
  /\ UNCHANGED <<cookie, secret, failed, logins, restarts>>

\* Mutant: Allow drops an entry whose window is over.
SubmitEvicts(t) ==
  /\ tab[t].at = "rest"
  /\ LET k == tab[t].client
     IN IF attempts[k] # Absent /\ attempts[k].age > Window
          THEN /\ attempts' = [attempts EXCEPT ![k] = Absent]
               /\ GoTo(t, "checking")
          ELSE Allow(k) /\ GoTo(t, "checking") /\ UNCHANGED attempts
  /\ UNCHANGED <<cookie, secret, failed, logins, restarts>>

\* handleLoginSubmit up to bcrypt; a refused attempt renders the form again.
Submit(t) ==
  /\ tab[t].at = "rest"
  /\ Allow(tab[t].client)
  /\ GoTo(t, "checking")
  /\ UNCHANGED <<attempts, cookie, secret, failed, logins, restarts>>

LoginFails(t) ==
  /\ tab[t].at = "checking"
  /\ RecordFailure(tab[t].client)
  /\ GoTo(t, "rest")
  /\ UNCHANGED <<cookie, secret, logins, restarts>>

LoginSucceeds(t) ==
  /\ tab[t].at = "checking"
  /\ logins < MaxLogins
  /\ logins' = logins + 1
  /\ RecordSuccess(tab[t].client)
  /\ cookie' = [cookie EXCEPT ![tab[t].client] =
                  [left |-> Lifetime, secret |-> secret]]
  /\ GoTo(t, "root")
  /\ UNCHANGED <<secret, restarts>>

Open(t) ==
  /\ tab[t].at = "rest"
  /\ \E page \in {"root", "login"} : GoTo(t, page)
  /\ UNCHANGED <<attempts, cookie, secret, failed, logins, restarts>>

\* RequireSession.
FollowRoot(t) ==
  /\ tab[t].at = "root"
  /\ GoTo(t, IF Verify(tab[t].client) THEN "rest" ELSE "login")
  /\ UNCHANGED <<attempts, cookie, secret, failed, logins, restarts>>

\* handleLoginForm: who has a session is sent on to the panel.
FollowLogin(t) ==
  /\ tab[t].at = "login"
  /\ GoTo(t, IF Verify(tab[t].client) THEN "root" ELSE "rest")
  /\ UNCHANGED <<attempts, cookie, secret, failed, logins, restarts>>

Logout(t) ==
  /\ tab[t].at = "rest"
  /\ cookie' = [cookie EXCEPT ![tab[t].client] = Absent]
  /\ GoTo(t, "login")
  /\ UNCHANGED <<attempts, secret, failed, logins, restarts>>

------------------------------------------------------------------------------
(* Time and restarts.                                                      *)

Older(n) == IF n > Window THEN n ELSE n + 1

Sooner(n) == IF n = 0 THEN 0 ELSE n - 1

\* The browser drops a cookie when its Max-Age has passed, which is when the
\* expiry it carries has.
Tick ==
  /\ attempts' = [k \in Client |->
       IF attempts[k] = Absent THEN Absent
       ELSE [attempts[k] EXCEPT !.age = Older(@), !.lock = Sooner(@)]]
  /\ failed' = [k \in Client |->
       [i \in 1 .. Len(failed[k]) |-> Older(failed[k][i])]]
  /\ cookie' = [k \in Client |->
       IF cookie[k] = Absent \/ cookie[k].left = 1 THEN Absent
       ELSE [cookie[k] EXCEPT !.left = @ - 1]]
  /\ UNCHANGED <<tab, secret, logins, restarts>>

\* The limiter is in memory, sessions are in the cookies; the administrator may
\* have changed SESSION_SECRET.
Restart ==
  /\ restarts < MaxRestarts
  /\ restarts' = restarts + 1
  /\ secret' \in {secret, secret + 1}
  /\ attempts' = [k \in Client |-> Absent]
  /\ failed' = [k \in Client |-> <<>>]
  /\ tab' = [t \in Tab |-> [tab[t] EXCEPT !.at = "rest"]]
  /\ UNCHANGED <<cookie, logins>>

Answer(t) == LoginFails(t) \/ LoginSucceeds(t)

Follow(t) == FollowRoot(t) \/ FollowLogin(t)

LoginNext ==
  \/ \E t \in Tab : Submit(t) \/ Answer(t) \/ Open(t) \/ Follow(t) \/ Logout(t)
  \/ Tick
  \/ Restart

\* Time passes, bcrypt ends, browsers follow redirects.
LoginFairness ==
  /\ WF_loginVars(Tick)
  /\ \A t \in Tab : WF_loginVars(Answer(t)) /\ WF_loginVars(Follow(t))

LoginSpec == LoginInit /\ [][LoginNext]_loginVars /\ LoginFairness

------------------------------------------------------------------------------
(* Properties.                                                             *)

\* Counts, ages, locks and cookies stay in the ranges their types describe.
LoginTypeOK ==
  /\ attempts \in [Client -> Attempts \cup {Absent}]
  /\ tab \in [Tab -> TabState]
  /\ cookie \in [Client -> Cookie \cup {Absent}]
  /\ secret \in 0 .. restarts
  /\ failed \in [Client -> Seq(0 .. Window + 1)]
  /\ logins \in 0 .. MaxLogins /\ restarts \in 0 .. MaxRestarts

\* RecordFailure locks a key "once maxAttempts failures have landed inside the
\* current window": whoever becomes locked has failed MaxAttempts times, without
\* a success in between, within the last Window.
LockIsEarned ==
  [][\A k \in Client :
       (~Locked(k) /\ Locked(k)') =>
         /\ Len(failed'[k]) = MaxAttempts
         /\ failed'[k][MaxAttempts] <= Window]_loginVars

\* Requests that Allow admitted together overshoot the limit by less than their
\* number: what one window counts stays below MaxAttempts + |Tab|.
Checking(k) == {t \in Tab : tab[t].at = "checking" /\ tab[t].client = k}

OvershootBounded ==
  \A k \in Client :
    attempts[k] # Absent => attempts[k].count < MaxAttempts + Cardinality(Tab)

\* A lock lasts its cooldown.  Besides time only an answer to a request that was
\* admitted before the lock, or a restart, ends it early.
LockLeft(k) == IF Locked(k) THEN attempts[k].lock ELSE 0

LockHolds ==
  [][\A k \in Client :
       LockLeft(k)' < LockLeft(k) - 1 =>
         \/ restarts' # restarts
         \/ \E t \in Checking(k) : t \notin Checking(k)']_loginVars

\* A locked client is let in again some day, however often it keeps trying.
LockEnds == \A k \in Client : Locked(k) ~> ~Locked(k)
==============================================================================

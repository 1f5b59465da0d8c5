------------------------------ MODULE LoginProofs ------------------------------
EXTENDS Login, FiniteSetTheorems, SequenceTheorems, TLAPS

\* What the limiter knows of client k: while its window lasts a full counter keeps
\* the lock, every request that may still be counted has been admitted before,
\* and the failures it has counted are the last ones there were.
Counted(k) ==
  attempts[k] # Absent =>
    LET st == attempts[k]
    IN /\ st.count >= MaxAttempts => st.age > Window \/ st.age + st.lock >= Cooldown
       /\ (st.count >= MaxAttempts /\ st.age <= Window) =>
            st.count + Cardinality(Checking(k)) < MaxAttempts + Cardinality(Tab)
       /\ st.count < MaxAttempts + Cardinality(Tab)

Remembered(k) ==
  /\ Len(failed[k]) <= MaxAttempts
  /\ (attempts[k] # Absent /\ attempts[k].age <= Window) =>
       \A i \in 1 .. MaxAttempts :
         i <= attempts[k].count =>
           i <= Len(failed[k]) /\ failed[k][i] <= attempts[k].age

LoginInv == LoginTypeOK /\ \A k \in Client : Counted(k) /\ Remembered(k)
------------------------------------------------------------------------------
(* Types.                                                                  *)

\* The entry RecordFailure leaves, for a new window and for one that goes on.
FreshWindow(k) == attempts[k] = Absent \/ attempts[k].age > Window

LEMMA FailureCounts ==
  ASSUME NEW k \in Client, LoginTypeOK
  PROVE  /\ Failure(k) \in Attempts
         /\ FreshWindow(k) =>
              /\ Failure(k).count = 1 /\ Failure(k).age = 0
              /\ 1 >= MaxAttempts => Failure(k).lock = Cooldown
              /\ 1 < MaxAttempts => Failure(k).lock = 0
         /\ ~FreshWindow(k) =>
              /\ attempts[k] \in Attempts
              /\ Failure(k).count = attempts[k].count + 1
              /\ Failure(k).age = attempts[k].age
              /\ attempts[k].count + 1 >= MaxAttempts => Failure(k).lock = Cooldown
              /\ attempts[k].count + 1 < MaxAttempts =>
                   Failure(k).lock = attempts[k].lock
<1> DEFINE zero == [count |-> 0, age |-> 0, lock |-> 0]
<1>1. Window \in Nat /\ Cooldown \in Nat /\ MaxAttempts \in Nat
  BY LoginAssumption
<1>2. zero \in Attempts
  BY <1>1 DEF Attempts
<1>3. CASE FreshWindow(k)
  <2>1. Failure(k) = [count |-> zero.count + 1, age |-> zero.age,
           lock |-> IF zero.count + 1 >= MaxAttempts THEN Cooldown ELSE zero.lock]
    BY <1>3 DEF Failure, FreshWindow
  <2>2. QED
    BY <1>1, <1>2, <1>3, <2>1 DEF Attempts
<1>4. CASE ~FreshWindow(k)
  <2>1. attempts[k] \in Attempts
    BY <1>4 DEF LoginTypeOK, FreshWindow
  <2>2. Failure(k) =
          [count |-> attempts[k].count + 1, age |-> attempts[k].age,
           lock |-> IF attempts[k].count + 1 >= MaxAttempts THEN Cooldown
                    ELSE attempts[k].lock]
    BY <1>4 DEF Failure, FreshWindow
  <2>3. QED
    BY <1>1, <1>4, <2>1, <2>2 DEF Attempts
<1>5. QED
  BY <1>3, <1>4

\* A tab stays a tab wherever it goes.
LEMMA TabGoes ==
  ASSUME LoginTypeOK, NEW t \in Tab,
         NEW at \in {"rest", "root", "login", "checking"}, GoTo(t, at)
  PROVE  tab' \in [Tab -> TabState]
<1>1. [tab[t] EXCEPT !.at = at] \in TabState
  BY DEF LoginTypeOK, TabState
<1>2. QED
  BY <1>1 DEF LoginTypeOK, GoTo

\* What is remembered of failures stays a sequence of ages.
LEMMA FailedGrows ==
  ASSUME LoginTypeOK, NEW k \in Client, RecordFailure(k)
  PROVE  /\ failed' \in [Client -> Seq(0 .. Window + 1)]
         /\ failed'[k] = <<0>> \o (IF Len(failed[k]) < MaxAttempts THEN failed[k]
                                   ELSE SubSeq(failed[k], 1, MaxAttempts - 1))
<1> DEFINE old == IF Len(failed[k]) < MaxAttempts THEN failed[k]
                  ELSE SubSeq(failed[k], 1, MaxAttempts - 1)
<1>1. failed[k] \in Seq(0 .. Window + 1) /\ MaxAttempts \in Nat \ {0}
      /\ 0 \in 0 .. Window + 1
  BY LoginAssumption DEF LoginTypeOK
<1>2. old \in Seq(0 .. Window + 1)
  <2>1. CASE Len(failed[k]) < MaxAttempts
    BY <1>1, <2>1
  <2>2. CASE ~(Len(failed[k]) < MaxAttempts)
    <3>1. MaxAttempts - 1 \in 0 .. Len(failed[k])
      BY <1>1, <2>2
    <3>2. \A i \in 1 .. MaxAttempts - 1 : failed[k][i] \in 0 .. Window + 1
      <4>1. Len(failed[k]) \in Nat
        BY <1>1, LenProperties
      <4>2. \A i \in 1 .. MaxAttempts - 1 : i \in 1 .. Len(failed[k])
        BY <1>1, <3>1, <4>1
      <4>3. QED
        BY <1>1, <4>2, ElementOfSeq
    <3>3. 1 \in Int /\ MaxAttempts - 1 \in Int
      BY <1>1
    <3>4. SubSeq(failed[k], 1, MaxAttempts - 1) \in Seq(0 .. Window + 1)
      BY <3>2, <3>3, SubSeqProperties
    <3>5. QED
      BY <2>2, <3>4
  <2>3. QED
    BY <2>1, <2>2
<1>3. <<0>> \o old \in Seq(0 .. Window + 1)
  BY <1>1, <1>2
<1>4. failed' = [failed EXCEPT ![k] = <<0>> \o old]
  BY DEF RecordFailure
<1>5. QED
  BY <1>3, <1>4 DEF LoginTypeOK

LEMMA TickTypes ==
  ASSUME LoginTypeOK, Tick
  PROVE  LoginTypeOK'
<1>1. Window \in Nat /\ Cooldown \in Nat /\ Lifetime \in Nat
  BY LoginAssumption
<1>2. \A n \in 0 .. Window + 1 : Older(n) \in 0 .. Window + 1
  BY <1>1 DEF Older
<1>3. \A n \in 0 .. Cooldown : Sooner(n) \in 0 .. Cooldown
  BY <1>1 DEF Sooner
<1>4. attempts' \in [Client -> Attempts \cup {Absent}]
  <2>1. ASSUME NEW k \in Client, attempts[k] # Absent
        PROVE  [attempts[k] EXCEPT !.age = Older(@), !.lock = Sooner(@)] \in Attempts
    <3>1. attempts[k] \in Attempts
      BY <2>1 DEF LoginTypeOK
    <3>2. QED
      BY <1>2, <1>3, <3>1 DEF Attempts
  <2>2. QED
    BY <2>1 DEF Tick
<1>5. failed' \in [Client -> Seq(0 .. Window + 1)]
  <2>1. ASSUME NEW k \in Client
        PROVE  [i \in 1 .. Len(failed[k]) |-> Older(failed[k][i])]
                 \in Seq(0 .. Window + 1)
    <3>1. failed[k] \in Seq(0 .. Window + 1)
      BY DEF LoginTypeOK
    <3>2. \A i \in 1 .. Len(failed[k]) : Older(failed[k][i]) \in 0 .. Window + 1
      BY <1>2, <3>1, ElementOfSeq
    <3>3. Len(failed[k]) \in Nat
      BY <3>1, LenProperties
    <3>4. [i \in 1 .. Len(failed[k]) |-> Older(failed[k][i])]
            \in [1 .. Len(failed[k]) -> 0 .. Window + 1]
      BY <3>2
    <3>5. QED
      BY <3>3, <3>4, SeqDef
  <2>2. QED
    BY <2>1 DEF Tick
<1>6. cookie' \in [Client -> Cookie \cup {Absent}]
  <2>1. ASSUME NEW k \in Client, cookie[k] # Absent, cookie[k].left # 1
        PROVE  [cookie[k] EXCEPT !.left = @ - 1] \in Cookie
    <3>1. cookie[k] \in Cookie
      BY <2>1 DEF LoginTypeOK
    <3>2. cookie[k].left \in 1 .. Lifetime
      BY <3>1 DEF Cookie
    <3>3. cookie[k].left - 1 \in 1 .. Lifetime
      BY <1>1, <2>1, <3>2
    <3>4. QED
      BY <3>1, <3>3 DEF Cookie
  <2>2. QED
    BY <2>1 DEF Tick
<1>7. QED
  BY <1>4, <1>5, <1>6 DEF LoginTypeOK, Tick

LEMMA LoginKeepsTypes ==
  ASSUME LoginTypeOK, [LoginNext]_loginVars
  PROVE  LoginTypeOK'
<1> USE DEF LoginTypeOK
<1>1. ASSUME NEW t \in Tab, Submit(t) PROVE LoginTypeOK'
  BY <1>1, TabGoes DEF Submit
<1>2. ASSUME NEW t \in Tab, LoginFails(t) PROVE LoginTypeOK'
  <2>1. tab[t].client \in Client
    BY DEF TabState
  <2>2. attempts' \in [Client -> Attempts \cup {Absent}]
    BY <1>2, <2>1, FailureCounts DEF LoginFails, RecordFailure
  <2>3. failed' \in [Client -> Seq(0 .. Window + 1)]
    BY <1>2, <2>1, FailedGrows DEF LoginFails
  <2>4. tab' \in [Tab -> TabState]
    BY <1>2, TabGoes DEF LoginFails
  <2>5. QED
    BY <1>2, <2>2, <2>3, <2>4 DEF LoginFails
<1>3. ASSUME NEW t \in Tab, LoginSucceeds(t) PROVE LoginTypeOK'
  <2>1. tab[t].client \in Client
    BY DEF TabState
  <2>2. attempts' \in [Client -> Attempts \cup {Absent}]
    BY <1>3, <2>1 DEF LoginSucceeds, RecordSuccess
  <2>3. failed' \in [Client -> Seq(0 .. Window + 1)]
    BY <1>3, <2>1 DEF LoginSucceeds, RecordSuccess
  <2>4. tab' \in [Tab -> TabState]
    BY <1>3, TabGoes DEF LoginSucceeds
  <2>5. secret \in Nat /\ restarts \in Nat /\ Lifetime \in 1 .. Lifetime
    BY LoginAssumption
  <2>6. [left |-> Lifetime, secret |-> secret] \in Cookie
    BY <2>5 DEF Cookie
  <2>7. cookie' \in [Client -> Cookie \cup {Absent}]
    BY <1>3, <2>1, <2>6 DEF LoginSucceeds
  <2>8. logins' \in 0 .. MaxLogins
    BY <1>3, LoginAssumption DEF LoginSucceeds
  <2>9. QED
    BY <1>3, <2>2, <2>3, <2>4, <2>7, <2>8 DEF LoginSucceeds
<1>4. ASSUME NEW t \in Tab, Open(t) PROVE LoginTypeOK'
  BY <1>4, TabGoes DEF Open
<1>5. ASSUME NEW t \in Tab, Follow(t) PROVE LoginTypeOK'
  BY <1>5, TabGoes DEF Follow, FollowRoot, FollowLogin
<1>6. ASSUME NEW t \in Tab, Logout(t) PROVE LoginTypeOK'
  <2>1. tab[t].client \in Client
    BY DEF TabState
  <2>2. QED
    BY <1>6, <2>1, TabGoes DEF Logout
<1>7. CASE Tick
  BY <1>7, TickTypes
<1>8. CASE Restart
  <2>1. \A t \in Tab : [tab[t] EXCEPT !.at = "rest"] \in TabState
    BY DEF TabState
  <2>2. tab' \in [Tab -> TabState]
    BY <1>8, <2>1 DEF Restart
  <2>3. restarts' \in 0 .. MaxRestarts /\ secret' \in 0 .. restarts'
    BY <1>8, LoginAssumption DEF Restart
  <2>4. failed' \in [Client -> Seq(0 .. Window + 1)]
    BY <1>8 DEF Restart
  <2>5. QED
    BY <1>8, <2>2, <2>3, <2>4 DEF Restart
<1>9. CASE UNCHANGED loginVars
  BY <1>9 DEF loginVars
<1>10. QED
  BY <1>1, <1>2, <1>3, <1>4, <1>5, <1>6, <1>7, <1>8, <1>9 DEF LoginNext, Answer

LEMMA LoginStartsTyped == LoginInit => LoginTypeOK
<1> SUFFICES ASSUME LoginInit PROVE LoginTypeOK
  OBVIOUS
<1>1. tab \in [Tab -> TabState]
  BY DEF LoginInit, TabState
<1>2. failed \in [Client -> Seq(0 .. Window + 1)]
  BY DEF LoginInit
<1>3. QED
  BY <1>1, <1>2, LoginAssumption DEF LoginInit, LoginTypeOK

\* Every reachable state of the login has the values the types describe.
THEOREM LoginTypes == LoginSpec => []LoginTypeOK
<1>1. QED
  BY LoginStartsTyped, LoginKeepsTypes, PTL DEF LoginSpec
------------------------------------------------------------------------------
(* The limiter.                                                            *)

\* The requests in flight are no more than the tabs, and one that is answered
\* makes them one less.
LEMMA InFlight ==
  ASSUME NEW k \in Client
  PROVE  /\ IsFiniteSet(Checking(k))
         /\ Cardinality(Checking(k)) \in Nat /\ Cardinality(Tab) \in Nat
         /\ Cardinality(Checking(k)) <= Cardinality(Tab)
         /\ \A t \in Checking(k) :
              Cardinality(Checking(k) \ {t}) = Cardinality(Checking(k)) - 1
<1>1. IsFiniteSet(Tab) /\ Checking(k) \in SUBSET Tab
  BY LoginAssumption DEF Checking
<1>2. IsFiniteSet(Checking(k)) /\ Cardinality(Checking(k)) <= Cardinality(Tab)
  BY <1>1, FS_Subset
<1>3. Cardinality(Checking(k)) \in Nat /\ Cardinality(Tab) \in Nat
  BY <1>1, <1>2, FS_CardinalityType
<1>4. \A t \in Checking(k) :
        Cardinality(Checking(k) \ {t}) = Cardinality(Checking(k)) - 1
  BY <1>2, FS_RemoveElement
<1>5. QED
  BY <1>2, <1>3, <1>4

\* Nothing that leaves the limiter alone and admits nobody disturbs a counter.
LEMMA CountedStays ==
  ASSUME LoginTypeOK, NEW k \in Client, Counted(k),
         attempts'[k] = attempts[k], Checking(k)' \subseteq Checking(k)
  PROVE  Counted(k)'
<1>1. Cardinality(Checking(k)') <= Cardinality(Checking(k))
      /\ Cardinality(Checking(k)') \in Nat
  BY InFlight, FS_Subset, FS_CardinalityType
<1>2. Cardinality(Checking(k)) \in Nat /\ Cardinality(Tab) \in Nat
      /\ MaxAttempts \in Nat
  BY InFlight, LoginAssumption
<1>3. QED
  <2>1. CASE attempts[k] = Absent
    BY <2>1 DEF Counted
  <2>2. CASE attempts[k] # Absent
    <3>1. attempts[k] \in Attempts
      BY <2>2 DEF LoginTypeOK
    <3>2. attempts[k].count \in Nat
      BY <3>1 DEF Attempts
    <3>3. QED
      BY <1>1, <1>2, <2>2, <3>2 DEF Counted
  <2>3. QED
    BY <2>1, <2>2

\* A client that was locked and whose counter is full admits no request.
LEMMA FullIsLocked ==
  ASSUME LoginTypeOK, NEW k \in Client, Counted(k), attempts[k] # Absent,
         attempts[k].count >= MaxAttempts, attempts[k].age <= Window
  PROVE  ~Allow(k)
<1>1. attempts[k] \in Attempts
  BY DEF LoginTypeOK
<1>2. attempts[k].age \in Nat /\ attempts[k].lock \in Nat /\ Window \in Nat
      /\ Cooldown \in Nat /\ Cooldown > Window
  BY <1>1, LoginAssumption DEF Attempts
<1>3. attempts[k].age + attempts[k].lock >= Cooldown
  BY <1>2 DEF Counted
<1>4. QED
  BY <1>2, <1>3 DEF Allow, Locked

LEMMA FailureCounted ==
  ASSUME LoginTypeOK, NEW t \in Tab, NEW k \in Client, Counted(k), LoginFails(t)
  PROVE  Counted(k)'
<1> DEFINE c == tab[t].client
           n == Cardinality(Checking(k))
           n1 == Cardinality(Checking(k)')
<1>1. c \in Client /\ t \in Checking(c)
  BY DEF LoginTypeOK, TabState, LoginFails, Checking
<1>2. tab' = [tab EXCEPT ![t].at = "rest"]
  BY DEF LoginFails, GoTo
<1>3. CASE k # c
  <2>1. attempts'[k] = attempts[k]
    BY <1>3 DEF LoginFails, RecordFailure, LoginTypeOK
  <2>2. Checking(k)' \subseteq Checking(k)
    BY <1>2 DEF Checking, LoginTypeOK, TabState
  <2>3. QED
    BY <2>1, <2>2, CountedStays
<1>4. CASE k = c
  <2>1. attempts'[k] = Failure(k)
    BY <1>4 DEF LoginFails, RecordFailure, LoginTypeOK
  <2>2. Checking(k)' = Checking(k) \ {t}
    BY <1>1, <1>2, <1>4 DEF Checking, LoginTypeOK, TabState
  <2>3. n1 = n - 1 /\ n \in Nat /\ Cardinality(Tab) \in Nat
        /\ n <= Cardinality(Tab) /\ n1 \in Nat
    <3>1. n1 = n - 1 /\ n \in Nat /\ Cardinality(Tab) \in Nat
          /\ n <= Cardinality(Tab)
      BY <1>1, <1>4, <2>2, InFlight
    <3>2. IsFiniteSet(Checking(k)')
      BY <2>2, InFlight, FS_RemoveElement
    <3>3. n1 \in Nat
      BY <3>2, FS_CardinalityType
    <3>4. QED
      BY <3>1, <3>3
  <2>4. MaxAttempts \in Nat \ {0} /\ Window \in Nat /\ Cooldown \in Nat
    BY LoginAssumption
  <2>5. Failure(k) \in Attempts
    BY FailureCounts
  <2>6. CASE FreshWindow(k)
    <3>1. /\ Failure(k).count = 1 /\ Failure(k).age = 0
          /\ 1 >= MaxAttempts => Failure(k).lock = Cooldown
      BY <2>6, FailureCounts
    <3>2. QED
      BY <2>1, <2>3, <2>4, <3>1 DEF Counted
  <2>7. CASE ~FreshWindow(k)
    <3> DEFINE st == attempts[k]
    <3>1. /\ st \in Attempts
          /\ Failure(k).count = st.count + 1
          /\ Failure(k).age = st.age
          /\ st.count + 1 >= MaxAttempts => Failure(k).lock = Cooldown
      BY <2>7, FailureCounts
    <3>2. st.count \in Nat /\ st.age \in Nat /\ st # Absent /\ st.age <= Window
      BY <2>4, <2>7, <3>1 DEF Attempts, FreshWindow
    <3>3. st.count + 1 < MaxAttempts + Cardinality(Tab)
          /\ (st.count + 1 >= MaxAttempts =>
                st.count + 1 + n1 < MaxAttempts + Cardinality(Tab))
      <4>1. CASE st.count >= MaxAttempts
        <5>1. st.count + n < MaxAttempts + Cardinality(Tab)
          BY <3>2, <4>1 DEF Counted
        <5>2. QED
          BY <2>3, <2>4, <3>2, <5>1
      <4>2. CASE ~(st.count >= MaxAttempts)
        BY <2>3, <2>4, <3>2, <4>2
      <4>3. QED
        BY <4>1, <4>2
    <3>4. (st.count + 1 >= MaxAttempts) => st.age + Failure(k).lock >= Cooldown
      BY <2>4, <3>1, <3>2
    <3>5. QED
      BY <2>1, <3>1, <3>3, <3>4 DEF Counted
  <2>8. QED
    BY <2>6, <2>7
<1>5. QED
  BY <1>3, <1>4

LEMMA TickCounted ==
  ASSUME LoginTypeOK, NEW k \in Client, Counted(k), Tick
  PROVE  Counted(k)'
<1>1. CASE attempts[k] = Absent
  BY <1>1 DEF Tick, Counted
<1>2. CASE attempts[k] # Absent
  <2> DEFINE st == attempts[k]
  <2>1. st \in Attempts
    BY <1>2 DEF LoginTypeOK
  <2>2. st.count \in Nat /\ st.age \in Nat /\ st.lock \in Nat
        /\ Window \in Nat /\ Cooldown \in Nat /\ MaxAttempts \in Nat
    BY <2>1, LoginAssumption DEF Attempts
  <2>3. attempts'[k] = [st EXCEPT !.age = Older(@), !.lock = Sooner(@)]
    BY <1>2 DEF Tick
  <2>4. /\ attempts'[k].count = st.count
        /\ attempts'[k].age = Older(st.age)
        /\ attempts'[k].lock = Sooner(st.lock)
    BY <2>1, <2>3 DEF Attempts
  <2>5. Checking(k)' = Checking(k)
    BY DEF Tick, Checking
  <2>6. QED
    BY <1>2, <2>2, <2>4, <2>5 DEF Counted, Older, Sooner
<1>3. QED
  BY <1>1, <1>2

LEMMA StepCounted ==
  ASSUME LoginTypeOK, \A k \in Client : Counted(k), [LoginNext]_loginVars
  PROVE  \A k \in Client : Counted(k)'
<1> SUFFICES ASSUME NEW k \in Client PROVE Counted(k)'
  OBVIOUS
<1>0. Counted(k)
  OBVIOUS
<1>1. ASSUME NEW t \in Tab, Submit(t) PROVE Counted(k)'
  <2>1. CASE tab[t].client = k
    <3>1. Allow(k) /\ attempts' = attempts
      BY <1>1, <2>1 DEF Submit
    <3>2. CASE attempts[k] = Absent
      BY <3>1, <3>2 DEF Counted
    <3>3. CASE attempts[k] # Absent
      <4>1. ~(attempts[k].count >= MaxAttempts /\ attempts[k].age <= Window)
        BY <1>0, <3>1, <3>3, FullIsLocked
      <4>2. QED
        BY <1>0, <3>1, <3>3, <4>1 DEF Counted
    <3>4. QED
      BY <3>2, <3>3
  <2>2. CASE tab[t].client # k
    <3>1. tab' = [tab EXCEPT ![t].at = "checking"] /\ attempts' = attempts
      BY <1>1 DEF Submit, GoTo
    <3>2. Checking(k)' \subseteq Checking(k)
      BY <2>2, <3>1 DEF Checking, LoginTypeOK, TabState
    <3>3. QED
      BY <1>0, <3>1, <3>2, CountedStays
  <2>3. QED
    BY <2>1, <2>2
<1>2. ASSUME NEW t \in Tab, LoginFails(t) PROVE Counted(k)'
  BY <1>0, <1>2, FailureCounted
<1>3. ASSUME NEW t \in Tab, LoginSucceeds(t) PROVE Counted(k)'
  <2>1. CASE tab[t].client = k
    BY <1>3, <2>1 DEF LoginSucceeds, RecordSuccess, Counted, LoginTypeOK
  <2>2. CASE tab[t].client # k
    <3>1. attempts'[k] = attempts[k] /\ tab' = [tab EXCEPT ![t].at = "root"]
      BY <1>3, <2>2 DEF LoginSucceeds, RecordSuccess, GoTo, LoginTypeOK
    <3>2. Checking(k)' \subseteq Checking(k)
      BY <3>1 DEF Checking, LoginTypeOK, TabState
    <3>3. QED
      BY <1>0, <3>1, <3>2, CountedStays
  <2>3. QED
    BY <2>1, <2>2
<1>4. ASSUME NEW t \in Tab, Open(t) \/ Follow(t) \/ Logout(t) PROVE Counted(k)'
  <2>1. PICK at \in {"rest", "root", "login"} : GoTo(t, at)
    BY <1>4 DEF Open, Follow, FollowRoot, FollowLogin, Logout
  <2>2. attempts' = attempts
    BY <1>4 DEF Open, Follow, FollowRoot, FollowLogin, Logout
  <2>3. Checking(k)' \subseteq Checking(k)
    BY <2>1 DEF GoTo, Checking, LoginTypeOK, TabState
  <2>4. QED
    BY <1>0, <2>2, <2>3, CountedStays
<1>5. CASE Tick
  BY <1>0, <1>5, TickCounted
<1>6. CASE Restart
  BY <1>6 DEF Restart, Counted
<1>7. CASE UNCHANGED loginVars
  BY <1>0, <1>7 DEF loginVars, Counted, Checking
<1>8. QED
  BY <1>1, <1>2, <1>3, <1>4, <1>5, <1>6, <1>7 DEF LoginNext, Answer
LEMMA CountedToBegin == LoginInit => \A k \in Client : Counted(k)
BY DEF LoginInit, Counted

\* Requests admitted together do not count beyond MaxAttempts + |Tab| - 1 failures
\* in one window, for any number of clients and tabs and any of the durations.
THEOREM OvershootIsBounded == LoginSpec => []OvershootBounded
<1> DEFINE Inv == LoginTypeOK /\ \A k \in Client : Counted(k)
<1>1. LoginInit => Inv
  BY LoginStartsTyped, CountedToBegin
<1>2. Inv /\ [LoginNext]_loginVars => Inv'
  BY LoginKeepsTypes, StepCounted
<1>3. Inv => OvershootBounded
  BY DEF Counted, OvershootBounded
<1>4. QED
  BY <1>1, <1>2, <1>3, PTL DEF LoginSpec

------------------------------------------------------------------------------
(* What a lock was earned by.                                              *)

\* A failure goes to the front of what is remembered.
LEMMA FailureRemembered ==
  ASSUME LoginTypeOK, NEW k \in Client, Remembered(k), RecordFailure(k)
  PROVE  /\ Len(failed'[k]) \in Nat /\ Len(failed'[k]) <= MaxAttempts
         /\ Len(failed'[k]) >= 1 /\ failed'[k][1] = 0
         /\ \A i \in 1 .. MaxAttempts :
              (i > 1 /\ i - 1 <= Len(failed[k])) =>
                i <= Len(failed'[k]) /\ failed'[k][i] = failed[k][i - 1]
<1> DEFINE ages == 0 .. Window + 1
           old == IF Len(failed[k]) < MaxAttempts THEN failed[k]
                  ELSE SubSeq(failed[k], 1, MaxAttempts - 1)
<1>1. failed[k] \in Seq(ages) /\ MaxAttempts \in Nat \ {0} /\ 0 \in ages
  BY LoginAssumption DEF LoginTypeOK
<1>2. Len(failed[k]) \in Nat /\ Len(failed[k]) <= MaxAttempts
  BY <1>1, LenProperties DEF Remembered
<1>3. /\ old \in Seq(ages)
      /\ Len(old) \in Nat /\ Len(old) <= MaxAttempts - 1
      /\ \A i \in 1 .. MaxAttempts - 1 :
           i <= Len(failed[k]) => i <= Len(old) /\ old[i] = failed[k][i]
  <2>1. CASE Len(failed[k]) < MaxAttempts
    BY <1>1, <1>2, <2>1
  <2>2. CASE ~(Len(failed[k]) < MaxAttempts)
    <3> DEFINE n == MaxAttempts - 1
    <3>1. n \in Int /\ 1 \in Int /\ n <= Len(failed[k]) /\ n >= 0
      BY <1>1, <1>2, <2>2
    <3>2. \A i \in 1 .. n : i \in 1 .. Len(failed[k])
      BY <1>2, <3>1
    <3>3. \A i \in 1 .. n : failed[k][i] \in ages
      BY <1>1, <3>2, ElementOfSeq
    <3> HIDE DEF n
    <3>4. /\ SubSeq(failed[k], 1, n) \in Seq(ages)
          /\ Len(SubSeq(failed[k], 1, n)) = IF 1 <= n THEN n - 1 + 1 ELSE 0
          /\ \A i \in 1 .. n - 1 + 1 :
               SubSeq(failed[k], 1, n)[i] = failed[k][1 + i - 1]
      BY <3>1, <3>3, SubSeqProperties
    <3>5. Len(SubSeq(failed[k], 1, n)) = n
      BY <3>1, <3>4
    <3>6. \A i \in 1 .. n : SubSeq(failed[k], 1, n)[i] = failed[k][i]
      <4>1. \A i \in 1 .. n : i \in 1 .. n - 1 + 1 /\ 1 + i - 1 = i
        BY <3>1
      <4>2. QED
        BY <3>4, <4>1
    <3>7. old = SubSeq(failed[k], 1, n)
      BY <2>2 DEF n
    <3>8. n = MaxAttempts - 1
      BY DEF n
    <3> HIDE DEF old
    <3>9. old \in Seq(ages) /\ Len(old) \in Nat /\ Len(old) <= MaxAttempts - 1
      BY <3>1, <3>4, <3>5, <3>7, <3>8
    <3>10. \A i \in 1 .. MaxAttempts - 1 : i <= Len(old) /\ old[i] = failed[k][i]
      <4>1. Len(old) = n
        BY <3>5, <3>7
      <4>2. \A i \in 1 .. n : i <= n
        BY <3>1
      <4>3. QED
        BY <3>6, <3>7, <3>8, <4>1, <4>2
    <3>11. QED
      BY <3>9, <3>10
  <2>3. QED
    BY <2>1, <2>2
<1>4. <<0>> \in Seq(ages) /\ Len(<<0>>) = 1 /\ <<0>>[1] = 0
  BY <1>1
<1>5. failed'[k] = <<0>> \o old
  BY FailedGrows
<1> HIDE DEF old, ages
<1>6. /\ Len(<<0>> \o old) = 1 + Len(old)
      /\ \A i \in 1 .. 1 + Len(old) :
           (<<0>> \o old)[i] = IF i <= 1 THEN <<0>>[i] ELSE old[i - 1]
  BY <1>3, <1>4, ConcatProperties
<1>7. Len(failed'[k]) = 1 + Len(old) /\ failed'[k][1] = 0
  BY <1>3, <1>4, <1>5, <1>6
<1>8. ASSUME NEW i \in 1 .. MaxAttempts, i > 1, i - 1 <= Len(failed[k])
      PROVE  i <= Len(failed'[k]) /\ failed'[k][i] = failed[k][i - 1]
  <2>1. i - 1 \in 1 .. MaxAttempts - 1
    BY <1>1, <1>8
  <2>2. i - 1 <= Len(old) /\ old[i - 1] = failed[k][i - 1]
    BY <1>3, <1>8, <2>1
  <2>3. i \in 1 .. 1 + Len(old) /\ ~(i <= 1)
    BY <1>3, <1>8, <2>2
  <2>4. failed'[k][i] = old[i - 1]
    BY <1>5, <1>6, <2>3
  <2>5. QED
    BY <1>3, <1>7, <2>2, <2>3, <2>4
<1>9. QED
  BY <1>1, <1>3, <1>7, <1>8

\* The counter after a failure is backed by failures of the same window.
LEMMA FailureBacked ==
  ASSUME LoginTypeOK, NEW k \in Client, Remembered(k), RecordFailure(k)
  PROVE  /\ attempts'[k] = Failure(k)
         /\ Len(failed'[k]) <= MaxAttempts
         /\ \A i \in 1 .. MaxAttempts :
              i <= Failure(k).count =>
                i <= Len(failed'[k]) /\ failed'[k][i] <= Failure(k).age
<1>1. MaxAttempts \in Nat \ {0} /\ Window \in Nat
  BY LoginAssumption
<1>2. attempts'[k] = Failure(k)
  BY DEF RecordFailure, LoginTypeOK
<1>3. /\ Len(failed'[k]) \in Nat /\ Len(failed'[k]) <= MaxAttempts
      /\ Len(failed'[k]) >= 1 /\ failed'[k][1] = 0
  BY FailureRemembered
<1>4. CASE FreshWindow(k)
  <2>1. Failure(k).count = 1 /\ Failure(k).age = 0
    BY <1>4, FailureCounts
  <2>2. \A i \in 1 .. MaxAttempts : i <= 1 => i = 1
    BY <1>1
  <2>3. QED
    BY <1>2, <1>3, <2>1, <2>2
<1>5. CASE ~FreshWindow(k)
  <2> DEFINE st == attempts[k]
  <2>1. st \in Attempts /\ Failure(k).count = st.count + 1 /\ Failure(k).age = st.age
    BY <1>5, FailureCounts
  <2>2. st.count \in Nat /\ st.age \in Nat /\ st # Absent /\ st.age <= Window
    BY <1>1, <1>5, <2>1 DEF Attempts, FreshWindow
  <2>3. ASSUME NEW i \in 1 .. MaxAttempts, i <= st.count + 1
        PROVE  i <= Len(failed'[k]) /\ failed'[k][i] <= st.age
    <3>1. CASE i = 1
      BY <1>3, <2>2, <3>1
    <3>2. CASE i # 1
      <4>1. i - 1 \in 1 .. MaxAttempts /\ i - 1 <= st.count /\ i > 1
        BY <1>1, <2>2, <2>3, <3>2
      <4>2. i - 1 <= Len(failed[k]) /\ failed[k][i - 1] <= st.age
        BY <2>2, <4>1 DEF Remembered
      <4>3. i <= Len(failed'[k]) /\ failed'[k][i] = failed[k][i - 1]
        BY <4>1, <4>2, FailureRemembered
      <4>4. QED
        BY <4>2, <4>3
    <3>3. QED
      BY <3>1, <3>2
  <2>4. QED
    BY <1>2, <1>3, <2>1, <2>3
<1>6. QED
  BY <1>4, <1>5
LEMMA TickRemembered ==
  ASSUME LoginTypeOK, NEW k \in Client, Remembered(k), Tick
  PROVE  Remembered(k)'
<1>1. failed[k] \in Seq(0 .. Window + 1) /\ MaxAttempts \in Nat \ {0}
      /\ Window \in Nat
  BY LoginAssumption DEF LoginTypeOK
<1>2. Len(failed[k]) \in Nat
  BY <1>1, LenProperties
<1>3. failed'[k] = [i \in 1 .. Len(failed[k]) |-> Older(failed[k][i])]
  BY DEF Tick
<1>4. /\ Len(failed'[k]) = Len(failed[k])
      /\ \A i \in 1 .. Len(failed[k]) : failed'[k][i] = Older(failed[k][i])
  BY <1>2, <1>3
<1>5. \A i \in 1 .. Len(failed[k]) : failed[k][i] \in 0 .. Window + 1
  BY <1>1, ElementOfSeq
<1>6. ASSUME attempts'[k] # Absent, attempts'[k].age <= Window,
             NEW i \in 1 .. MaxAttempts, i <= attempts'[k].count
      PROVE  i <= Len(failed'[k]) /\ failed'[k][i] <= attempts'[k].age
  <2> DEFINE st == attempts[k]
  <2>1. st # Absent
    BY <1>6 DEF Tick
  <2>2. st \in Attempts
    BY <2>1 DEF LoginTypeOK
  <2>3. attempts'[k] = [st EXCEPT !.age = Older(@), !.lock = Sooner(@)]
    BY <2>1 DEF Tick
  <2>4. attempts'[k].count = st.count /\ attempts'[k].age = Older(st.age)
    BY <2>2, <2>3 DEF Attempts
  <2>5. st.age \in Nat /\ st.age <= Window /\ Older(st.age) = st.age + 1
    BY <1>1, <1>6, <2>2, <2>4 DEF Attempts, Older
  <2>6. i <= Len(failed[k]) /\ failed[k][i] <= st.age
    BY <1>6, <2>1, <2>4, <2>5 DEF Remembered
  <2>7. i \in 1 .. Len(failed[k])
    BY <1>1, <1>2, <2>6
  <2>8. failed'[k][i] = Older(failed[k][i]) /\ failed[k][i] \in 0 .. Window + 1
    BY <1>4, <1>5, <2>7
  <2>9. Older(failed[k][i]) = failed[k][i] + 1
    BY <1>1, <2>5, <2>6, <2>8 DEF Older
  <2>10. QED
    BY <1>1, <1>4, <2>4, <2>5, <2>6, <2>8, <2>9
<1>7. Len(failed'[k]) <= MaxAttempts
  BY <1>4 DEF Remembered
<1>8. QED
  BY <1>6, <1>7 DEF Remembered

LEMMA StepRemembered ==
  ASSUME LoginTypeOK, \A k \in Client : Remembered(k), [LoginNext]_loginVars
  PROVE  \A k \in Client : Remembered(k)'
<1> SUFFICES ASSUME NEW k \in Client PROVE Remembered(k)'
  OBVIOUS
<1>0. Remembered(k) /\ MaxAttempts \in Nat \ {0}
  BY LoginAssumption
<1>1. ASSUME NEW t \in Tab, LoginFails(t) PROVE Remembered(k)'
  <2>1. CASE tab[t].client = k
    <3>1. RecordFailure(k)
      BY <1>1, <2>1 DEF LoginFails
    <3>2. QED
      BY <1>0, <3>1, FailureBacked DEF Remembered
  <2>2. CASE tab[t].client # k
    <3>1. attempts'[k] = attempts[k] /\ failed'[k] = failed[k]
      BY <1>1, <2>2 DEF LoginFails, RecordFailure, LoginTypeOK
    <3>2. QED
      BY <1>0, <3>1 DEF Remembered
  <2>3. QED
    BY <2>1, <2>2
<1>2. ASSUME NEW t \in Tab, LoginSucceeds(t) PROVE Remembered(k)'
  <2>1. CASE tab[t].client = k
    <3>1. attempts'[k] = Absent /\ failed'[k] = <<>>
      BY <1>2, <2>1 DEF LoginSucceeds, RecordSuccess, LoginTypeOK
    <3>2. QED
      BY <1>0, <3>1 DEF Remembered
  <2>2. CASE tab[t].client # k
    <3>1. attempts'[k] = attempts[k] /\ failed'[k] = failed[k]
      BY <1>2, <2>2 DEF LoginSucceeds, RecordSuccess, LoginTypeOK
    <3>2. QED
      BY <1>0, <3>1 DEF Remembered
  <2>3. QED
    BY <2>1, <2>2
<1>3. ASSUME NEW t \in Tab, Submit(t) \/ Open(t) \/ Follow(t) \/ Logout(t)
      PROVE  Remembered(k)'
  <2>1. attempts' = attempts /\ failed' = failed
    BY <1>3 DEF Submit, Open, Follow, FollowRoot, FollowLogin, Logout
  <2>2. QED
    BY <1>0, <2>1 DEF Remembered
<1>4. CASE Tick
  BY <1>0, <1>4, TickRemembered
<1>5. CASE Restart
  <2>1. attempts'[k] = Absent /\ failed'[k] = <<>>
    BY <1>5 DEF Restart
  <2>2. QED
    BY <1>0, <2>1 DEF Remembered
<1>6. CASE UNCHANGED loginVars
  BY <1>0, <1>6 DEF loginVars, Remembered
<1>7. QED
  BY <1>1, <1>2, <1>3, <1>4, <1>5, <1>6 DEF LoginNext, Answer

LEMMA RememberedToBegin == LoginInit => \A k \in Client : Remembered(k)
BY LoginAssumption DEF LoginInit, Remembered

\* Only a failure locks, and it does when the counter becomes full.
LEMMA LocksWhenFull ==
  ASSUME LoginTypeOK, NEW k \in Client, Remembered(k), [LoginNext]_loginVars,
         ~Locked(k), Locked(k)'
  PROVE  Len(failed'[k]) = MaxAttempts /\ failed'[k][MaxAttempts] <= Window
<1>0. MaxAttempts \in Nat \ {0} /\ Window \in Nat /\ Cooldown \in Nat
  BY LoginAssumption
<1>1. ASSUME NEW t \in Tab, LoginFails(t), tab[t].client = k
      PROVE  Len(failed'[k]) = MaxAttempts /\ failed'[k][MaxAttempts] <= Window
  <2>1. RecordFailure(k)
    BY <1>1 DEF LoginFails
  <2>2. attempts'[k] = Failure(k) /\ Failure(k) \in Attempts
    BY <2>1, FailureBacked, FailureCounts
  <2>3. Failure(k).lock > 0
    BY <2>2 DEF Locked
  <2>4. Failure(k).count >= MaxAttempts /\ Failure(k).age <= Window
        /\ Failure(k).age \in Nat
    <3>1. CASE FreshWindow(k)
      BY <1>0, <2>3, <3>1, FailureCounts
    <3>2. CASE ~FreshWindow(k)
      <4>1. attempts[k] # Absent /\ attempts[k] \in Attempts
        BY <3>2, FailureCounts DEF FreshWindow
      <4>2. attempts[k].lock \in Nat /\ attempts[k].count \in Nat
            /\ attempts[k].age \in Nat /\ attempts[k].age <= Window
        BY <1>0, <3>2, <4>1 DEF Attempts, FreshWindow
      <4>3. attempts[k].lock = 0
        BY <4>1, <4>2 DEF Locked
      <4>4. QED
        BY <1>0, <2>3, <3>2, <4>2, <4>3, FailureCounts
    <3>3. QED
      BY <3>1, <3>2
  <2>5. MaxAttempts \in 1 .. MaxAttempts
    BY <1>0
  <2>6. /\ Len(failed'[k]) <= MaxAttempts /\ MaxAttempts <= Len(failed'[k])
        /\ failed'[k][MaxAttempts] <= Failure(k).age
    BY <2>1, <2>4, <2>5, FailureBacked
  <2>7. failed' \in [Client -> Seq(0 .. Window + 1)]
    BY <2>1, FailedGrows
  <2>8. Len(failed'[k]) \in Nat
    BY <2>7, LenProperties
  <2>9. failed'[k][MaxAttempts] \in 0 .. Window + 1
    <3>1. MaxAttempts \in 1 .. Len(failed'[k])
      BY <1>0, <2>6, <2>8
    <3>2. QED
      BY <2>7, <3>1, ElementOfSeq
  <2>10. QED
    BY <1>0, <2>4, <2>6, <2>8, <2>9
<1>2. ASSUME NEW t \in Tab, LoginFails(t) \/ LoginSucceeds(t), tab[t].client # k
      PROVE  attempts'[k] = attempts[k]
  BY <1>2 DEF LoginFails, LoginSucceeds, RecordFailure, RecordSuccess, LoginTypeOK
<1>3. ASSUME NEW t \in Tab, LoginSucceeds(t), tab[t].client = k
      PROVE  attempts'[k] = Absent
  BY <1>3 DEF LoginSucceeds, RecordSuccess, LoginTypeOK
<1>4. ASSUME NEW t \in Tab, Submit(t) \/ Open(t) \/ Follow(t) \/ Logout(t)
      PROVE  attempts' = attempts
  BY <1>4 DEF Submit, Open, Follow, FollowRoot, FollowLogin, Logout
<1>5. ASSUME Tick PROVE ~(Locked(k)')
  <2>1. CASE attempts[k] = Absent
    BY <1>5, <2>1 DEF Tick, Locked
  <2>2. CASE attempts[k] # Absent
    <3>1. attempts[k] \in Attempts
      BY <2>2 DEF LoginTypeOK
    <3>2. attempts[k].lock = 0
      BY <1>0, <2>2, <3>1 DEF Attempts, Locked
    <3>3. attempts'[k] = [attempts[k] EXCEPT !.age = Older(@), !.lock = Sooner(@)]
      BY <1>5, <2>2 DEF Tick
    <3>4. attempts'[k].lock = 0
      BY <3>1, <3>2, <3>3 DEF Attempts, Sooner
    <3>5. QED
      BY <3>4 DEF Locked
  <2>3. QED
    BY <2>1, <2>2
<1>6. ASSUME Restart PROVE attempts'[k] = Absent
  BY <1>6 DEF Restart
<1>7. attempts'[k] # attempts[k] /\ attempts'[k] # Absent
  BY DEF Locked
<1>8. ~(UNCHANGED loginVars)
  BY <1>7 DEF loginVars
<1>9. QED
  BY <1>1, <1>2, <1>3, <1>4, <1>5, <1>6, <1>7, <1>8 DEF LoginNext, Answer

\* A client is locked for MaxAttempts failures within one Window only, however
\* many of its requests were in flight.
THEOREM LocksAreEarned == LoginSpec => LockIsEarned
<1> DEFINE Inv == LoginTypeOK /\ \A k \in Client : Remembered(k)
           Earned == \A k \in Client :
                       (~Locked(k) /\ Locked(k)') =>
                         /\ Len(failed'[k]) = MaxAttempts
                         /\ failed'[k][MaxAttempts] <= Window
<1>1. LoginInit => Inv
  BY LoginStartsTyped, RememberedToBegin
<1>2. Inv /\ [LoginNext]_loginVars => Inv'
  BY LoginKeepsTypes, StepRemembered
<1>3. Inv /\ [LoginNext]_loginVars => [Earned]_loginVars
  BY LocksWhenFull
<1>4. QED
  BY <1>1, <1>2, <1>3, PTL DEF LoginSpec, LockIsEarned

------------------------------------------------------------------------------
(* How long locks last.                                                    *)

\* What is left of a lock is a number, and time takes one off.
LEMMA LockTicks ==
  ASSUME LoginTypeOK, NEW k \in Client
  PROVE  /\ LockLeft(k) \in Nat
         /\ Tick => LockLeft(k)' \in {LockLeft(k), LockLeft(k) - 1}
<1>1. CASE attempts[k] = Absent
  BY <1>1 DEF Tick, LockLeft, Locked, LoginTypeOK
<1>2. CASE attempts[k] # Absent
  <2> DEFINE st == attempts[k]
             aged == [st EXCEPT !.age = Older(@), !.lock = Sooner(@)]
  <2>1. /\ st \in Attempts /\ st.lock \in Nat
        /\ aged \in Attempts /\ aged.lock = Sooner(st.lock)
    <3>1. st \in Attempts /\ Window \in Nat /\ Cooldown \in Nat
      BY <1>2, LoginAssumption DEF LoginTypeOK
    <3>2. st.lock \in 0 .. Cooldown /\ st.age \in 0 .. Window + 1
      BY <3>1 DEF Attempts
    <3>3. Sooner(st.lock) \in 0 .. Cooldown /\ Older(st.age) \in 0 .. Window + 1
      BY <3>1, <3>2 DEF Sooner, Older
    <3>4. aged \in Attempts
      BY <3>1, <3>3 DEF Attempts
    <3>5. aged.lock = Sooner(st.lock) /\ st.lock \in Nat
      BY <3>1, <3>2 DEF Attempts
    <3>6. QED
      BY <3>1, <3>4, <3>5
  <2>2. LockLeft(k) = st.lock
    BY <1>2, <2>1 DEF LockLeft, Locked
  <2>3. ASSUME Tick
        PROVE  LockLeft(k)' = Sooner(st.lock)
    <3>1. attempts'[k] = aged
      BY <1>2, <2>3 DEF Tick
    <3>2. attempts'[k] # Absent /\ attempts'[k].lock = Sooner(st.lock)
      BY <2>1, <3>1, LoginAssumption
    <3>3. Sooner(st.lock) \in Nat
      BY <2>1 DEF Sooner
    <3>4. QED
      BY <3>2, <3>3 DEF LockLeft, Locked
  <2>4. QED
    BY <2>1, <2>2, <2>3 DEF Sooner
<1>3. QED
  BY <1>1, <1>2

\* What shortens a lock by more than time does is an answer or a restart.
LEMMA LockShortened ==
  ASSUME LoginTypeOK, NEW k \in Client, [LoginNext]_loginVars,
         LockLeft(k)' < LockLeft(k) - 1
  PROVE  \/ restarts' # restarts
         \/ \E t \in Checking(k) : t \notin Checking(k)'
<1>1. LockLeft(k) \in Nat /\ (Tick => LockLeft(k)' \in {LockLeft(k), LockLeft(k) - 1})
  BY LockTicks
<1>2. ~Tick
  BY <1>1
<1>3. attempts'[k] # attempts[k]
  BY <1>1 DEF LockLeft, Locked
<1>4. CASE Restart
  BY <1>4 DEF Restart, LoginTypeOK
<1>5. ASSUME NEW t \in Tab, Answer(t)
      PROVE  t \in Checking(k) /\ t \notin Checking(k)'
  <2>1. tab[t].at = "checking" /\ tab[t] \in TabState
    BY <1>5 DEF Answer, LoginFails, LoginSucceeds, LoginTypeOK
  <2>2. tab[t].client = k
    BY <1>3, <1>5 DEF Answer, LoginFails, LoginSucceeds, RecordFailure, RecordSuccess,
       LoginTypeOK
  <2>3. GoTo(t, "rest") \/ GoTo(t, "root")
    BY <1>5 DEF Answer, LoginFails, LoginSucceeds
  <2>4. tab'[t].at # "checking"
    BY <2>1, <2>3 DEF GoTo, TabState, LoginTypeOK
  <2>5. QED
    BY <2>1, <2>2, <2>4 DEF Checking
<1>6. CASE \E t \in Tab : Submit(t) \/ Open(t) \/ Follow(t) \/ Logout(t)
  BY <1>3, <1>6 DEF Submit, Open, Follow, FollowRoot, FollowLogin, Logout
<1>7. CASE UNCHANGED loginVars
  BY <1>3, <1>7 DEF loginVars
<1>8. QED
  BY <1>2, <1>4, <1>5, <1>6, <1>7 DEF LoginNext

\* A lock lasts its cooldown, for any limits, clients and tabs: refused attempts
\* neither shorten nor prolong it, and only a request that had been admitted
\* before, or a restart, ends it early.
THEOREM LocksLast == LoginSpec => LockHolds
<1> DEFINE Holds == \A k \in Client :
                      LockLeft(k)' < LockLeft(k) - 1 =>
                        \/ restarts' # restarts
                        \/ \E t \in Checking(k) : t \notin Checking(k)'
<1>1. LoginTypeOK /\ [LoginNext]_loginVars => [Holds]_loginVars
  BY LockShortened
<1>2. QED
  BY <1>1, LoginTypes, PTL DEF LoginSpec, LockHolds
==============================================================================

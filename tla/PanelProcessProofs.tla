-------------------------- MODULE PanelProcessProofs --------------------------
(***************************************************************************)
(* Theorems about the process and its bot: a press is answered once, but   *)
(* for the panic over a row that could not be made pending, a choice made  *)
(* in the panel is kept, and a pending request is put to the               *)
(* administrator, for any number of users, presses, runs and failures.     *)
(***************************************************************************)
EXTENDS PanelProcess, SequenceTheorems, TLAPS

PressRecord ==
  [kind : Kind, by : Asker \cup {Admin}, about : Asker \cup {Admin},
   old : BOOLEAN, confirmed : BOOLEAN, at : Stage, row : Nat, seen : Statuses,
   todo : Seq(Call), acks : Nat]

Decision == {"approve", "deny"}

Answer == {"ack", "alert"}

\* A handler that has said nothing yet.
Working == {"begun", "create", "decide", "reopen", "issue", "issuing", "denying"}

\* The statuses that a user is issued a profile from, and of them those that a
\* request makes pending again.
Issuable == {"pending", "revoked", "denied"}

Reopened == {"revoked", "denied"}

\* The answers that a press is due.
Due(p) == IF p.old /\ p.kind \in Decision THEN 0 ELSE 1

\* What is left to say ends in the answer, and has no other.
AnswerComesLast(calls) ==
  /\ calls[Len(calls)] \in Answer
  /\ \A k \in 1 .. Len(calls) - 1 : calls[k] \notin Answer

\* Which presses get where.
Allowed(at, kind, old, seen) ==
  /\ at \in {"create", "decide", "reopen"} => kind = "get" /\ ~old
  /\ at = "panicked" => kind = "get"
  /\ at \in {"issue", "issuing"} => kind \in {"get", "approve"} /\ ~old
  /\ at = "denying" => kind = "deny" /\ ~old
  /\ at \in {"decide", "issue", "issuing"} => seen \in Issuable
  /\ at \in {"reopen", "panicked"} => seen \in Reopened

\* What a press has got to, and the answers it has had.
PressOK(p) ==
  /\ p.at # "unused" => p.about \in Asker
  /\ p.kind = "other" => ~p.old
  /\ Allowed(p.at, p.kind, p.old, p.seen)
  /\ p.at \notin {"telling", "done", "lost"} => p.acks = 0
  /\ p.at = "telling" =>
       IF p.todo = <<>> THEN p.acks = Due(p)
       ELSE p.acks = 0 /\ Due(p) = 1 /\ AnswerComesLast(p.todo)
  /\ p.at = "done" => p.acks = Due(p)
  /\ p.at = "lost" => p.acks <= 1

\* Ids only grow: the row a press is about came before.
RowKnown(i) == press[i].at # "unused" => press[i].row <= rows[press[i].about]

\* What a panic was due to: the row is gone for good, and failures and runs are
\* counted.
PanicExcused(i) ==
  press[i].at = "panicked" =>
    /\ used.runs >= 1
    /\ ~RowThere(i) \/ used.failures > 0 \/ process # "up" \/ used.runs > 1

\* Only a run that the bounds allow ends, and a process that is up was started.
RunsCounted ==
  /\ process # "up" => used.runs < budget.runs
  /\ process # "down" => used.runs >= 1

\* The inductive invariant.
ProcessInv ==
  /\ ProcessTypeOK
  /\ press \in [Press -> PressRecord]
  /\ used \in [runs : Nat, failures : Nat, sends : Nat]
  /\ RunsCounted
  /\ \A i \in Press : PressOK(press[i])
  /\ \A i \in Press : RowKnown(i) /\ PanicExcused(i)

\* Nothing failed, and the panel, once started, stayed up.
Uneventful ==
  /\ used.failures = 0 /\ used.sends = 0
  /\ used.runs = 0 \/ (used.runs = 1 /\ process = "up")

\* A handler is going to ask the administrator about a user's row, or to issue it.
WillAsk(i, u) ==
  /\ press[i].about = u /\ press[i].row = rows[u]
  /\ \/ press[i].at \in {"decide", "reopen", "issue"}
     \/ press[i].at = "telling" /\ \E k \in DOMAIN press[i].todo : press[i].todo[k] = "ask"

\* PendingIsAnnounced, while handlers run.
Announced ==
  Uneventful =>
    \A u \in Asker :
      account[u] = "pending" => u \in asked \/ \E i \in Press : WillAsk(i, u)

------------------------------------------------------------------------------
(* Presses.                                                                *)

\* What the step of one handler has to keep.
LEMMA OneMoves ==
  ASSUME press \in [Press -> PressRecord], \A j \in Press : PressOK(press[j]),
         NEW i \in Press, NEW p \in PressRecord, PressOK(p),
         press' = [press EXCEPT ![i] = p]
  PROVE  press' \in [Press -> PressRecord] /\ \A j \in Press : PressOK(press'[j])
OBVIOUS

\* A handler that is not telling anything yet has not answered.
LEMMA SaysKeeps ==
  ASSUME press \in [Press -> PressRecord], \A j \in Press : PressOK(press[j]),
         NEW i \in Press, press[i].at \in Working,
         NEW calls \in Seq(Call), Says(i, calls),
         IF calls = <<>> THEN Due(press[i]) = 0
         ELSE Due(press[i]) = 1 /\ AnswerComesLast(calls)
  PROVE  press' \in [Press -> PressRecord] /\ \A j \in Press : PressOK(press'[j])
<1> DEFINE p == press[i]
           q == [p EXCEPT !.at = "telling", !.todo = calls]
<1>1. p \in PressRecord /\ PressOK(p)
  OBVIOUS
<1>2. /\ q \in PressRecord /\ q.at = "telling" /\ q.todo = calls
      /\ q.kind = p.kind /\ q.old = p.old /\ q.acks = p.acks /\ q.about = p.about
  BY <1>1 DEF PressRecord, Stage
<1>3. p.acks = 0 /\ p.about \in Asker /\ (p.kind = "other" => ~p.old)
  BY <1>1 DEF PressOK, Working
<1>4. PressOK(q)
  BY <1>2, <1>3 DEF PressOK, Due, Allowed
<1>5. press' = [press EXCEPT ![i] = q]
  BY <1>1 DEF Says, PressRecord
<1> HIDE DEF q
<1>6. QED
  BY <1>2, <1>4, <1>5, OneMoves

\* What is said on each way ends in one answer.
LEMMA Scripts ==
  /\ \A t \in Text : <<t, "ack">> \in Seq(Call) \ {<<>>} /\ AnswerComesLast(<<t, "ack">>)
  /\ \A a \in Answer : <<a>> \in Seq(Call) \ {<<>>} /\ AnswerComesLast(<<a>>)
  /\ \A c, d \in Call \ Answer :
       <<c, d, "ack">> \in Seq(Call) \ {<<>>} /\ AnswerComesLast(<<c, d, "ack">>)
<1> USE DEF Call, Text, Answer
<1>1. ASSUME NEW t \in Text
      PROVE  <<t, "ack">> \in Seq(Call) \ {<<>>} /\ AnswerComesLast(<<t, "ack">>)
  <2> DEFINE s == <<t, "ack">>
  <2>1. s \in Seq(Call) /\ Len(s) = 2 /\ s[1] = t /\ s[2] = "ack"
    OBVIOUS
  <2> HIDE DEF s
  <2>2. AnswerComesLast(s) /\ s # <<>>
    BY <2>1 DEF AnswerComesLast
  <2>3. QED
    BY <2>1, <2>2 DEF s
<1>2. ASSUME NEW a \in Answer
      PROVE  <<a>> \in Seq(Call) \ {<<>>} /\ AnswerComesLast(<<a>>)
  <2> DEFINE s == <<a>>
  <2>1. s \in Seq(Call) /\ Len(s) = 1 /\ s[1] = a /\ s # <<>>
    OBVIOUS
  <2> HIDE DEF s
  <2>2. AnswerComesLast(s)
    <3>1. s[Len(s)] \in Answer /\ 1 .. Len(s) - 1 = {}
      BY <1>2, <2>1
    <3>2. QED
      BY <3>1 DEF AnswerComesLast
  <2>3. QED
    BY <2>1, <2>2 DEF s
<1>3. ASSUME NEW c \in Call \ Answer, NEW d \in Call \ Answer
      PROVE  <<c, d, "ack">> \in Seq(Call) \ {<<>>} /\ AnswerComesLast(<<c, d, "ack">>)
  <2> DEFINE s == <<c, d, "ack">>
  <2>1. s \in Seq(Call) /\ Len(s) = 3 /\ s[1] = c /\ s[2] = d /\ s[3] = "ack"
    OBVIOUS
  <2> HIDE DEF s
  <2>2. AnswerComesLast(s) /\ s # <<>>
    <3>1. \A k \in 1 .. Len(s) - 1 : k = 1 \/ k = 2
      BY <2>1
    <3>2. s[1] \notin Answer /\ s[2] \notin Answer
      BY <1>3, <2>1
    <3>3. \A k \in 1 .. Len(s) - 1 : s[k] \notin Answer
      BY <3>1, <3>2
    <3>4. s[Len(s)] \in Answer
      BY <2>1
    <3>5. s # <<>>
      BY <2>1
    <3>6. QED
      BY <3>3, <3>4, <3>5 DEF AnswerComesLast
  <2>3. QED
    BY <2>1, <2>2 DEF s
<1>4. QED
  BY <1>1, <1>2, <1>3

\* The calls that are left after the first one.
LEMMA FirstCall ==
  ASSUME NEW s \in Seq(Call), s # <<>>, AnswerComesLast(s)
  PROVE  /\ Tail(s) \in Seq(Call)
         /\ Tail(s) = <<>> => Head(s) \in Answer
         /\ Tail(s) # <<>> => Head(s) \notin Answer /\ AnswerComesLast(Tail(s))
<1> DEFINE t == Tail(s)
           n == Len(s)
<1>1. /\ t \in Seq(Call) /\ Head(s) = s[1] /\ n \in Nat \ {0} /\ Len(t) = n - 1
      /\ \A k \in 1 .. n - 1 : t[k] = s[k + 1]
  BY HeadTailProperties, EmptySeq
<1>2. s[n] \in Answer /\ \A k \in 1 .. n - 1 : s[k] \notin Answer
  BY DEF AnswerComesLast
<1>3. t = <<>> <=> n = 1
  BY <1>1, EmptySeq
<1>4. AnswerComesLast(t) <=> /\ t[Len(t)] \in Answer
                             /\ \A k \in 1 .. Len(t) - 1 : t[k] \notin Answer
  BY DEF AnswerComesLast
<1> HIDE DEF t, n
<1>5. CASE n = 1
  BY <1>1, <1>2, <1>3, <1>5 DEF t
<1>6. CASE n # 1
  <2>1. n - 1 \in 1 .. n - 1 /\ 1 \in 1 .. n - 1 /\ (n - 1) + 1 = n
    BY <1>1, <1>6
  <2>2. t[n - 1] = s[n] /\ Head(s) \notin Answer
    <3>1. t[n - 1] = s[(n - 1) + 1]
      BY <1>1, <2>1
    <3>2. s[1] \notin Answer
      BY <1>2, <2>1
    <3>3. QED
      BY <1>1, <2>1, <3>1, <3>2
  <2>3. ASSUME NEW k \in 1 .. Len(t) - 1
        PROVE  t[k] \notin Answer
    <3>1. k \in 1 .. n - 1 /\ k + 1 \in 1 .. n - 1
      BY <1>1
    <3>2. QED
      BY <1>1, <1>2, <3>1
  <2>4. QED
    BY <1>1, <1>2, <1>3, <1>4, <1>6, <2>2, <2>3 DEF t
<1>7. QED
  BY <1>5, <1>6

\* A call, whether Telegram takes it or not, is the first of those left.
LEMMA SentKeeps ==
  ASSUME press \in [Press -> PressRecord], \A j \in Press : PressOK(press[j]),
         NEW i \in Press, press[i].at = "telling", press[i].todo # <<>>, Sent(i)
  PROVE  press' \in [Press -> PressRecord] /\ \A j \in Press : PressOK(press'[j])
<1> DEFINE p == press[i]
           n == p.acks + IF Head(p.todo) \in Answer THEN 1 ELSE 0
           q == [p EXCEPT !.todo = Tail(p.todo), !.acks = n]
<1>1. p \in PressRecord /\ PressOK(p) /\ p.todo \in Seq(Call)
  BY DEF PressRecord
<1>2. /\ p.acks = 0 /\ Due(p) = 1 /\ AnswerComesLast(p.todo) /\ p.about \in Asker
      /\ p.kind = "other" => ~p.old
  BY <1>1 DEF PressOK
<1>3. /\ Tail(p.todo) \in Seq(Call)
      /\ Tail(p.todo) = <<>> => n = 1
      /\ Tail(p.todo) # <<>> => n = 0 /\ AnswerComesLast(Tail(p.todo))
  BY <1>1, <1>2, FirstCall
<1>4. n \in Nat
  BY <1>2
<1>5. press' = [press EXCEPT ![i] = q]
  BY <1>1 DEF Sent, Answer, PressRecord
<1> HIDE DEF n
<1>6. /\ q \in PressRecord /\ q.at = "telling" /\ q.todo = Tail(p.todo) /\ q.acks = n
      /\ q.kind = p.kind /\ q.old = p.old /\ q.about = p.about
  BY <1>1, <1>3, <1>4 DEF PressRecord
<1>7. PressOK(q)
  BY <1>2, <1>3, <1>6 DEF PressOK, Due, Allowed
<1> HIDE DEF q
<1>8. QED
  BY <1>5, <1>6, <1>7, OneMoves

\* The next statement of a handler that has said nothing yet, or a panic.
LEMMA GoesKeeps ==
  ASSUME press \in [Press -> PressRecord], \A j \in Press : PressOK(press[j]),
         NEW i \in Press, press[i].at \in Working,
         NEW at \in (Working \ {"begun"}) \cup {"panicked"}, NEW st \in Statuses,
         NEW row \in Nat,
         press' = [press EXCEPT ![i].at = at, ![i].seen = st, ![i].row = row],
         Allowed(at, press[i].kind, press[i].old, st)
  PROVE  press' \in [Press -> PressRecord] /\ \A j \in Press : PressOK(press'[j])
<1> DEFINE p == press[i]
           q == [p EXCEPT !.at = at, !.seen = st, !.row = row]
<1>1. p \in PressRecord /\ PressOK(p)
  OBVIOUS
<1>2. /\ q \in PressRecord /\ q.at = at /\ q.kind = p.kind /\ q.old = p.old
      /\ q.acks = p.acks /\ q.about = p.about /\ q.seen = st
  BY <1>1 DEF PressRecord, Stage, Working
<1>3. p.acks = 0 /\ p.about \in Asker /\ (p.kind = "other" => ~p.old)
  BY <1>1 DEF PressOK, Working
<1>4. PressOK(q)
  BY <1>2, <1>3 DEF PressOK, Working
<1>5. press' = [press EXCEPT ![i] = q]
  BY <1>1 DEF PressRecord
<1> HIDE DEF q
<1>6. QED
  BY <1>2, <1>4, <1>5, OneMoves

LEMMA GoesToKeeps ==
  ASSUME press \in [Press -> PressRecord], \A j \in Press : PressOK(press[j]),
         NEW i \in Press, press[i].at \in Working,
         NEW at \in (Working \ {"begun"}) \cup {"panicked"}, GoesTo(i, at),
         Allowed(at, press[i].kind, press[i].old, press[i].seen)
  PROVE  press' \in [Press -> PressRecord] /\ \A j \in Press : PressOK(press'[j])
<1>1. press[i] \in PressRecord
  OBVIOUS
<1>2. press[i].seen \in Statuses /\ press[i].row \in Nat
  BY <1>1 DEF PressRecord
<1>3. press' = [press EXCEPT ![i].at = at, ![i].seen = press[i].seen,
                             ![i].row = press[i].row]
  BY <1>1 DEF GoesTo, PressRecord
<1>4. QED
  BY <1>2, <1>3, GoesKeeps

\* handleCallback.
LEMMA HandlerKeeps ==
  ASSUME ProcessInv, NEW i \in Press, Handles(i) \/ StatementBreaks(i) \/ SendFails(i)
  PROVE  press' \in [Press -> PressRecord] /\ \A j \in Press : PressOK(press'[j])
<1> USE DEF Serves, Executes, Breaks
<1> DEFINE p == press[i]
           Kept == press' \in [Press -> PressRecord] /\ \A j \in Press : PressOK(press'[j])
<1>1. /\ press \in [Press -> PressRecord] /\ \A j \in Press : PressOK(press[j])
      /\ p \in PressRecord /\ PressOK(p) /\ p.kind \in Kind /\ p.old \in BOOLEAN
      /\ p.at # "unused" =>
           /\ p.about \in Asker /\ account[p.about] \in Statuses
           /\ rows[p.about] \in Nat
  BY DEF ProcessInv, ProcessTypeOK, PressRecord, PressOK
<1>2. ASSUME p.at \in Working, Due(p) = 1,
             \/ \E t \in Text : Says(i, <<t, "ack">>)
             \/ \E a \in Answer : Says(i, <<a>>)
             \/ \E c, d \in Call \ Answer : Says(i, <<c, d, "ack">>)
      PROVE  Kept
  BY <1>1, <1>2, Scripts, SaysKeeps
<1>3. ASSUME p.at \in Working, Due(p) = 0, Says(i, <<>>)
      PROVE  Kept
  BY <1>1, <1>3, SaysKeeps, EmptySeq
<1>4. ASSUME p.at \in Working, Due(p) = 1, ReportsError(i)
      PROVE  Kept
  <2>1. "error" \in Text
    BY DEF Text
  <2>2. QED
    BY <1>2, <1>4, <2>1 DEF ReportsError
<1>5. ASSUME p.at \in Working, NEW at \in (Working \ {"begun"}) \cup {"panicked"},
             GoesTo(i, at), Allowed(at, p.kind, p.old, p.seen)
      PROVE  Kept
  BY <1>1, <1>5, GoesToKeeps
<1>6. /\ p.at \in Working \ {"begun"} => ~p.old /\ p.kind \in {"get", "approve", "deny"}
      /\ ~p.old \/ p.kind \in {"get", "other"} => Due(p) = 1
  BY <1>1 DEF PressOK, Allowed, Working, Due, Decision
<1>7. "link" \in Text /\ "waiting" \in Text /\ "error" \in Text /\ "failed" \in Text
      /\ "ack" \in Answer /\ "alert" \in Answer
      /\ "pending" \in Call \ Answer /\ "ask" \in Call \ Answer
      /\ "confirm" \in Call \ Answer /\ "link" \in Call \ Answer
      /\ "denied" \in Call \ Answer
  BY DEF Text, Call, Answer
<1>8. CASE Ignored(i)
  <2>1. p.at = "begun" /\ p.at \in Working
    BY <1>8 DEF Ignored, Working
  <2>2. CASE p.kind \in {"get", "other"}
    <3>1. Says(i, <<"ack">>)
      BY <1>8, <2>2 DEF Ignored
    <3>2. QED
      BY <1>2, <1>6, <1>7, <2>1, <2>2, <3>1
  <2>3. CASE p.kind \notin {"get", "other"}
    <3>1. Says(i, <<>>) /\ Due(p) = 0
      BY <1>1, <1>8, <2>3 DEF Ignored, Due, Decision, Kind
    <3>2. QED
      BY <1>3, <2>1, <3>1
  <2>4. QED
    BY <2>2, <2>3
<1>9. CASE NotTheAdmin(i)
  <2>1. p.at \in Working /\ ~p.old /\ Says(i, <<"alert">>)
    BY <1>9 DEF NotTheAdmin, Working
  <2>2. QED
    BY <1>2, <1>6, <1>7, <2>1
<1>10. CASE GetProxy(i)
  <2>1. p.at = "begun" /\ p.at \in Working /\ p.kind = "get" /\ ~p.old
    BY <1>10 DEF GetProxy, Reads, Working
  <2>2. CASE Says(i, <<"link", "ack">>) \/ Says(i, <<"waiting", "ack">>)
    BY <1>2, <1>6, <1>7, <2>1, <2>2
  <2>3. CASE GoesTo(i, "create")
    <3>1. "create" \in Working \ {"begun"} /\ Allowed("create", p.kind, p.old, p.seen)
      BY <2>1 DEF Working, Allowed
    <3>2. QED
      BY <1>5, <2>1, <2>3, <3>1
  <2>4. CASE /\ account[p.about] \in Reopened
             /\ press' = [press EXCEPT ![i].at = "decide", ![i].row = rows[p.about],
                                       ![i].seen = account[p.about]]
    <3>1. /\ "decide" \in Working \ {"begun"}
          /\ Allowed("decide", p.kind, p.old, account[p.about])
      BY <2>1, <2>4 DEF Working, Allowed, Issuable, Reopened
    <3>2. rows[p.about] \in Nat /\ account[p.about] \in Statuses
      BY <1>1, <2>1
    <3>3. press' = [press EXCEPT ![i].at = "decide", ![i].seen = account[p.about],
                                 ![i].row = rows[p.about]]
      BY <1>1, <2>4 DEF PressRecord
    <3>4. QED
      BY <1>1, <2>1, <3>1, <3>2, <3>3, GoesKeeps
  <2>5. QED
    BY <1>10, <2>2, <2>3, <2>4 DEF GetProxy, Reopened
<1>11. CASE CreateAccount(i)
  <2>1. p.at = "create" /\ p.at \in Working /\ p.kind = "get" /\ ~p.old
    BY <1>1, <1>11 DEF CreateAccount, Working, PressOK, Allowed
  <2>2. CASE press' = [press EXCEPT ![i].at = "decide", ![i].seen = "pending",
                                    ![i].row = rows[p.about] + 1]
    <3>1. /\ "decide" \in Working \ {"begun"} /\ "pending" \in Statuses
          /\ Allowed("decide", p.kind, p.old, "pending")
      BY <2>1 DEF Working, Allowed, Issuable, Statuses
    <3>2. rows[p.about] + 1 \in Nat
      BY <1>1, <2>1
    <3>3. QED
      BY <1>1, <2>1, <2>2, <3>1, <3>2, GoesKeeps
  <2>3. CASE ReportsError(i)
    BY <1>4, <1>6, <2>1, <2>3
  <2>4. QED
    BY <1>11, <2>2, <2>3 DEF CreateAccount
<1>12. CASE RequestDecides(i)
  <2>1. /\ p.at = "decide" /\ p.at \in Working /\ p.kind = "get" /\ ~p.old
        /\ p.seen \in Issuable
    BY <1>1, <1>12 DEF RequestDecides, Working, PressOK, Allowed
  <2>2. CASE GoesTo(i, "issue")
    <3>1. "issue" \in Working \ {"begun"} /\ Allowed("issue", p.kind, p.old, p.seen)
      BY <2>1 DEF Working, Allowed
    <3>2. QED
      BY <1>5, <2>1, <2>2, <3>1
  <2>3. CASE Says(i, <<"pending", "ask", "ack">>)
    BY <1>2, <1>6, <1>7, <2>1, <2>3
  <2>4. CASE GoesTo(i, "reopen") /\ p.seen # "pending"
    <3>1. "reopen" \in Working \ {"begun"} /\ Allowed("reopen", p.kind, p.old, p.seen)
      BY <2>1, <2>4 DEF Working, Allowed, Issuable, Reopened
    <3>2. QED
      BY <1>5, <2>1, <2>4, <3>1
  <2>5. QED
    BY <1>12, <2>2, <2>3, <2>4 DEF RequestDecides
<1>13. CASE RequestReopens(i) \/ ReopenBreaks(i)
  <2>1. /\ p.at = "reopen" /\ p.at \in Working /\ p.kind = "get" /\ ~p.old
        /\ p.seen \in Reopened
    BY <1>1, <1>13 DEF RequestReopens, ReopenBreaks, Working, PressOK, Allowed
  <2>2. CASE Says(i, <<"pending", "ask", "ack">>)
    BY <1>2, <1>6, <1>7, <2>1, <2>2
  <2>3. CASE GoesTo(i, "panicked")
    <3>1. Allowed("panicked", p.kind, p.old, p.seen)
      BY <2>1 DEF Allowed
    <3>2. QED
      BY <1>5, <2>1, <2>3, <3>1
  <2>4. QED
    BY <1>13, <2>2, <2>3 DEF RequestReopens, ReopenBreaks
<1>14. CASE AdminApproves(i)
  <2>1. p.at = "begun" /\ p.at \in Working /\ p.kind = "approve" /\ ~p.old
    BY <1>14 DEF AdminApproves, Reads, Working
  <2>2. CASE /\ account[p.about] \in Issuable
             /\ press' = [press EXCEPT ![i].at = "issue", ![i].seen = account[p.about]]
    <3>1. /\ "issue" \in Working \ {"begun"}
          /\ Allowed("issue", p.kind, p.old, account[p.about])
      BY <2>1, <2>2 DEF Working, Allowed
    <3>2. p.row \in Nat /\ account[p.about] \in Statuses
      BY <1>1, <2>1 DEF PressRecord
    <3>3. press' = [press EXCEPT ![i].at = "issue", ![i].seen = account[p.about],
                                 ![i].row = p.row]
      BY <1>1, <2>2 DEF PressRecord
    <3>4. QED
      BY <1>1, <2>1, <3>1, <3>2, <3>3, GoesKeeps
  <2>3. CASE ReportsError(i)
    BY <1>4, <1>6, <2>1, <2>3
  <2>4. QED
    BY <1>14, <2>2, <2>3 DEF AdminApproves, Issuable
<1>15. CASE IssueWrites(i)
  <2>1. /\ p.at = "issue" /\ p.at \in Working /\ p.kind \in {"get", "approve"} /\ ~p.old
        /\ p.seen \in Issuable
    BY <1>1, <1>15 DEF IssueWrites, Working, PressOK, Allowed
  <2>2. CASE GoesTo(i, "issuing")
    <3>1. "issuing" \in Working \ {"begun"} /\ Allowed("issuing", p.kind, p.old, p.seen)
      BY <2>1 DEF Working, Allowed
    <3>2. QED
      BY <1>5, <2>1, <2>2, <3>1
  <2>3. CASE ReportsError(i)
    BY <1>4, <1>6, <2>1, <2>3
  <2>4. QED
    BY <1>15, <2>2, <2>3 DEF IssueWrites
<1>16. CASE IssueSucceeds(i) \/ IssueBreaks(i)
  <2>1. p.at = "issuing" /\ p.at \in Working /\ ~p.old
    BY <1>1, <1>16 DEF IssueSucceeds, IssueBreaks, Working, PressOK, Allowed
  <2>2. \/ Says(i, <<"link", "ack">>) \/ Says(i, <<"confirm", "link", "ack">>)
        \/ Says(i, <<"failed", "ack">>)
    BY <1>16 DEF IssueSucceeds, IssueBreaks
  <2>3. QED
    BY <1>2, <1>6, <1>7, <2>1, <2>2
<1>17. CASE AdminDenies(i)
  <2>1. p.at = "begun" /\ p.at \in Working /\ p.kind = "deny" /\ ~p.old
    BY <1>17 DEF AdminDenies, Reads, Working
  <2>2. CASE GoesTo(i, "denying")
    <3>1. "denying" \in Working \ {"begun"} /\ Allowed("denying", p.kind, p.old, p.seen)
      BY <2>1 DEF Working, Allowed
    <3>2. QED
      BY <1>5, <2>1, <2>2, <3>1
  <2>3. CASE ReportsError(i)
    BY <1>4, <1>6, <2>1, <2>3
  <2>4. QED
    BY <1>17, <2>2, <2>3 DEF AdminDenies
<1>18. CASE DenyWrites(i)
  <2>1. p.at = "denying" /\ p.at \in Working
    BY <1>18 DEF DenyWrites, Working
  <2>2. ~p.old
    BY <1>6, <2>1 DEF Working
  <2>3. QED
    BY <1>2, <1>4, <1>6, <1>7, <1>18, <2>1, <2>2 DEF DenyWrites
<1>19. CASE LookupBreaks(i) \/ CreateBreaks(i) \/ DecideBreaks(i) \/ WriteBreaks(i)
  <2>1. ReportsError(i)
    BY <1>19 DEF LookupBreaks, CreateBreaks, DecideBreaks, WriteBreaks
  <2>2. p.at \in Working /\ ~p.old
    <3>1. p.at \in {"begun", "create", "decide", "issue", "denying"}
      BY <1>19 DEF LookupBreaks, CreateBreaks, DecideBreaks, WriteBreaks
    <3>2. p.at = "begun" => ~p.old
      BY <1>19 DEF LookupBreaks, CreateBreaks, DecideBreaks, WriteBreaks, Reads
    <3>3. QED
      BY <1>6, <3>1, <3>2 DEF Working
  <2>3. QED
    BY <1>4, <1>6, <2>1, <2>2
<1>20. CASE Tell(i) \/ SendFails(i)
  BY <1>1, <1>20, SentKeeps DEF Tell, SendFails
<1>21. CASE Finish(i)
  <2> DEFINE q == [p EXCEPT !.at = "done"]
  <2>1. p.at = "telling" /\ p.todo = <<>> /\ press' = [press EXCEPT ![i] = q]
    BY <1>21 DEF Finish
  <2>2. /\ q \in PressRecord /\ q.at = "done" /\ q.kind = p.kind /\ q.old = p.old
        /\ q.acks = p.acks /\ q.about = p.about
    BY <1>1 DEF PressRecord, Stage
  <2>3. PressOK(q)
    BY <1>1, <2>1, <2>2 DEF PressOK, Due, Allowed
  <2> HIDE DEF q
  <2>4. QED
    BY <1>1, <2>1, <2>2, <2>3, OneMoves
<1>22. QED
  BY <1>8, <1>9, <1>10, <1>11, <1>12, <1>13, <1>14, <1>15, <1>16, <1>17, <1>18, <1>19,
     <1>20, <1>21 DEF Handles, StatementBreaks

\* An exit, whatever it interrupts.
LEMMA VanishKeeps ==
  ASSUME ProcessInv, Vanish
  PROVE  press' \in [Press -> PressRecord] /\ \A j \in Press : PressOK(press'[j])
<1>0. press \in [Press -> PressRecord] /\ \A j \in Press : PressOK(press[j])
  BY DEF ProcessInv
<1>1. ASSUME NEW i \in Press
      PROVE  press'[i] \in PressRecord /\ PressOK(press'[i])
  <2> DEFINE p == press[i]
             q == [p EXCEPT !.at = "lost", !.todo = <<>>]
             r == [p EXCEPT !.at = "telegram", !.todo = <<>>, !.acks = 0]
  <2>1. p \in PressRecord /\ PressOK(p) /\ <<>> \in Seq(Call)
    BY <1>0
  <2>2. /\ q \in PressRecord /\ q.at = "lost" /\ q.kind = p.kind /\ q.old = p.old
        /\ q.about = p.about /\ q.acks = p.acks
        /\ r \in PressRecord /\ r.at = "telegram" /\ r.kind = p.kind /\ r.old = p.old
        /\ r.about = p.about /\ r.acks = 0
    BY <2>1 DEF PressRecord, Stage
  <2>3. p.at # "unused" => PressOK(q) /\ PressOK(r)
    BY <2>1, <2>2 DEF PressOK, Allowed, Due
  <2>4. \/ press'[i] = p
        \/ p.at # "unused" /\ press'[i] = q
        \/ p.at # "unused" /\ press'[i] = r
    BY DEF Vanish
  <2> HIDE DEF q, r
  <2>5. QED
    BY <2>1, <2>2, <2>3, <2>4
<1>2. press' = [i \in Press |-> press'[i]]
  BY DEF Vanish
<1>3. QED
  BY <1>1, <1>2

\* What pressing a button leaves: a press on its way, about a row the account has had.
LEMMA NewPress ==
  ASSUME ProcessInv, NEW i \in Press, PressButton(i)
  PROVE  \E kind \in Kind, u \in Asker, old \in BOOLEAN, by \in Asker \cup {Admin},
            row \in Nat :
           /\ kind = "other" => ~old
           /\ row <= rows[u]
           /\ press' = [press EXCEPT ![i] =
                [NotPressed EXCEPT !.kind = kind, !.by = by, !.about = u, !.old = old,
                                   !.at = "telegram", !.row = row]]
<1> DEFINE New(kind, u, old, by, row) == [press EXCEPT ![i] =
             [NotPressed EXCEPT !.kind = kind, !.by = by, !.about = u, !.old = old,
                                !.at = "telegram", !.row = row]]
           Sender(kind, u) == IF kind \in {"approve", "deny"} THEN {Admin, u} ELSE {u}
           About(kind, u) == IF kind \in {"approve", "deny"} THEN 1 .. rows[u] ELSE {0}
<1>1. \E kind \in Kind, u \in Asker, old \in BOOLEAN :
        \E by \in Sender(kind, u), row \in About(kind, u) :
          (kind = "other" => ~old) /\ press' = New(kind, u, old, by, row)
  <2>1. PICK kind \in Kind, u \in Asker, old \in BOOLEAN :
          \E by \in Sender(kind, u), row \in About(kind, u) :
            /\ kind = "other" => ~old
            /\ ~budget.odd => kind # "other" /\ ~old /\ (kind = "get" \/ by = Admin)
            /\ press' = New(kind, u, old, by, row)
    BY Zenon DEF PressButton
  <2> HIDE DEF New, Sender, About
  <2>2. QED
    BY <2>1
<1>2. ASSUME NEW kind \in Kind, NEW u \in Asker
      PROVE  /\ Sender(kind, u) \subseteq Asker \cup {Admin}
             /\ \A row \in About(kind, u) : row \in Nat /\ row <= rows[u]
  BY DEF ProcessInv, ProcessTypeOK
<1>3. \E kind \in Kind, u \in Asker, old \in BOOLEAN, by \in Asker \cup {Admin},
         row \in Nat :
        (kind = "other" => ~old) /\ row <= rows[u] /\ press' = New(kind, u, old, by, row)
  <2> HIDE DEF New, Sender, About
  <2>1. PICK kind \in Kind, u \in Asker, old \in BOOLEAN :
          \E by \in Sender(kind, u), row \in About(kind, u) :
            (kind = "other" => ~old) /\ press' = New(kind, u, old, by, row)
    BY <1>1
  <2>2. QED
    BY <1>2, <2>1
<1>4. PICK kind \in Kind, u \in Asker, old \in BOOLEAN, by \in Asker \cup {Admin},
            row \in Nat :
        (kind = "other" => ~old) /\ row <= rows[u] /\ press' = New(kind, u, old, by, row)
  BY <1>3
<1>5. WITNESS kind \in Kind, u \in Asker, old \in BOOLEAN, by \in Asker \cup {Admin},
              row \in Nat
<1>6. QED
  BY <1>4

\* Every step keeps every press in order.
LEMMA PressesKept ==
  ASSUME ProcessInv, [ProcessNext]_processVars
  PROVE  press' \in [Press -> PressRecord] /\ \A j \in Press : PressOK(press'[j])
<1>0. press \in [Press -> PressRecord] /\ \A j \in Press : PressOK(press[j])
  BY DEF ProcessInv
<1>1. CASE press' = press
  BY <1>0, <1>1
<1>2. CASE Exit \/ Killed
  BY <1>2, VanishKeeps DEF Exit, Killed
<1>3. CASE Poll
  <2>1. ASSUME NEW i \in Press
        PROVE  press'[i] \in PressRecord /\ PressOK(press'[i])
    <3> DEFINE p == press[i]
               b == p.at # "unused"
               q == [p EXCEPT !.at = "channel"]
               r == [p EXCEPT !.confirmed = b]
    <3>1. p \in PressRecord /\ PressOK(p) /\ b \in BOOLEAN
      BY <1>0
    <3> HIDE DEF b
    <3>2. /\ q \in PressRecord /\ q.at = "channel" /\ q.kind = p.kind /\ q.old = p.old
          /\ q.about = p.about /\ q.acks = p.acks
          /\ r.seen = p.seen
          /\ r \in PressRecord /\ r.at = p.at /\ r.kind = p.kind /\ r.old = p.old
          /\ r.about = p.about /\ r.acks = p.acks /\ r.todo = p.todo
      BY <3>1 DEF PressRecord, Stage
    <3>3. PressOK(r) /\ (p.at = "telegram" => PressOK(q))
      BY <3>1, <3>2 DEF PressOK, Due, Allowed
    <3>4. \/ p.at = "telegram" /\ press'[i] = q
          \/ press'[i] = r
      BY <1>3 DEF Poll, b
    <3> HIDE DEF q, r
    <3>5. QED
      BY <3>2, <3>3, <3>4
  <2>2. press' = [i \in Press |-> press'[i]]
    BY <1>3 DEF Poll
  <2>3. QED
    BY <2>1, <2>2
<1>4. ASSUME NEW i \in Press, PressButton(i)
      PROVE  press' \in [Press -> PressRecord] /\ \A j \in Press : PressOK(press'[j])
  <2>1. PICK kind \in Kind, u \in Asker, old \in BOOLEAN, by \in Asker \cup {Admin},
             row \in Nat :
          /\ kind = "other" => ~old
          /\ row <= rows[u]
          /\ press' = [press EXCEPT ![i] =
               [NotPressed EXCEPT !.kind = kind, !.by = by, !.about = u,
                                  !.old = old, !.at = "telegram", !.row = row]]
    BY <1>4, NewPress
  <2> DEFINE q == [NotPressed EXCEPT !.kind = kind, !.by = by, !.about = u,
                                     !.old = old, !.at = "telegram", !.row = row]
  <2>2. /\ q.kind = kind /\ q.about = u /\ q.old = old /\ q.at = "telegram"
        /\ q.acks = 0
    BY DEF NotPressed
  <2>3. q \in PressRecord
    <3>1. NotPressed \in PressRecord
      BY EmptySeq DEF NotPressed, PressRecord, Kind, Stage, Statuses
    <3>2. QED
      BY <3>1 DEF PressRecord, Stage
  <2>4. PressOK(q)
    BY <2>1, <2>2 DEF PressOK, Allowed
  <2>5. press' = [press EXCEPT ![i] = q]
    BY <2>1
  <2> HIDE DEF q
  <2>6. QED
    BY <1>0, <2>3, <2>4, <2>5, OneMoves
<1>5. ASSUME NEW i \in Press, Dispatch(i)
      PROVE  press' \in [Press -> PressRecord] /\ \A j \in Press : PressOK(press'[j])
  <2> DEFINE p == press[i]
             q == [p EXCEPT !.at = "begun"]
  <2>1. p \in PressRecord /\ PressOK(p) /\ p.at = "channel"
        /\ press' = [press EXCEPT ![i] = q]
    BY <1>0, <1>5 DEF Dispatch
  <2>2. /\ q \in PressRecord /\ q.at = "begun" /\ q.kind = p.kind /\ q.old = p.old
        /\ q.about = p.about /\ q.acks = p.acks
    BY <2>1 DEF PressRecord, Stage
  <2>3. PressOK(q)
    BY <2>1, <2>2 DEF PressOK, Due, Allowed
  <2> HIDE DEF q
  <2>4. QED
    BY <1>0, <2>1, <2>2, <2>3, OneMoves
<1>6. ASSUME NEW i \in Press, Handles(i) \/ StatementBreaks(i) \/ SendFails(i)
      PROVE  press' \in [Press -> PressRecord] /\ \A j \in Press : PressOK(press'[j])
  BY <1>6, HandlerKeeps
<1>7. CASE \/ StartUp \/ StartFails \/ Signal \/ PollerStops \/ ShutdownGivesUp
           \/ WebBegins \/ WebEnds \/ UNCHANGED processVars
  <2>1. press' = press
    BY <1>7 DEF StartUp, StartFails, Signal, PollerStops, ShutdownGivesUp, WebBegins,
       WebEnds, processVars
  <2>2. QED
    BY <1>1, <2>1
<1>8. QED
  BY <1>2, <1>3, <1>4, <1>5, <1>6, <1>7 DEF ProcessNext

------------------------------------------------------------------------------
(* What the handlers write.                                                *)

\* A statement on one user's row, executed or not: an INSERT of a user without a
\* row, or an UPDATE of the row that was read.
Writes(i) ==
  \/ UNCHANGED <<account, rows, tellVars>>
  \/ account[press[i].about] = "none" /\ InsertRow(i)
  \/ \E st \in Statuses \ {"none"} : RowThere(i) /\ UpdateRow(i, st)

\* A handler leaves the process, the setting and, unless a call fails, the bounds.
LEMMA HandlerFrame ==
  ASSUME NEW i \in Press, Handles(i) \/ StatementBreaks(i) \/ SendFails(i)
  PROVE  /\ UNCHANGED systemVars /\ setting' = setting /\ choice' = choice
         /\ budget' = budget /\ process # "down"
         /\ \/ used' = used
            \/ Fails
            \/ SendFails(i)
         /\ StatementBreaks(i) => Fails \/ process # "up"
<1> USE DEF Serves, Executes, Breaks, Alive
<1>1. CASE Handles(i)
  <2>1. /\ UNCHANGED systemVars /\ setting' = setting /\ choice' = choice
        /\ budget' = budget /\ process # "down" /\ used' = used
    BY <1>1 DEF Handles, Ignored, NotTheAdmin, GetProxy, CreateAccount, RequestDecides,
       RequestReopens, AdminApproves, IssueWrites, IssueSucceeds, AdminDenies, DenyWrites,
       Tell, Finish, dataVars
  <2>2. ~StatementBreaks(i) \/ Fails \/ process # "up"
    BY DEF StatementBreaks, LookupBreaks, CreateBreaks, DecideBreaks, ReopenBreaks,
       WriteBreaks, IssueBreaks
  <2>3. QED
    BY <2>1, <2>2
<1>2. CASE StatementBreaks(i)
  BY <1>2 DEF StatementBreaks, LookupBreaks, CreateBreaks, DecideBreaks, ReopenBreaks,
     WriteBreaks, IssueBreaks, dataVars
<1>3. CASE SendFails(i)
  <2>1. ~StatementBreaks(i)
    BY <1>3 DEF SendFails, StatementBreaks, LookupBreaks, CreateBreaks, DecideBreaks,
       ReopenBreaks, WriteBreaks, IssueBreaks
  <2>2. QED
    BY <1>3, <2>1 DEF SendFails, dataVars
<1>4. QED
  BY <1>1, <1>2, <1>3

\* Of the rows a handler writes its own user's, and in no other way.
LEMMA HandlerWrites ==
  ASSUME ProcessInv, NEW i \in Press, Handles(i) \/ StatementBreaks(i) \/ SendFails(i)
  PROVE  Writes(i) \/ (Tell(i) /\ account' = account /\ rows' = rows)
<1>1. {"pending", "active", "denied"} \subseteq Statuses \ {"none"}
  BY DEF Statuses
<1>2. CASE \/ Ignored(i) \/ NotTheAdmin(i) \/ GetProxy(i) \/ RequestDecides(i)
           \/ AdminApproves(i) \/ IssueSucceeds(i) \/ AdminDenies(i) \/ Finish(i)
           \/ LookupBreaks(i) \/ DecideBreaks(i) \/ SendFails(i)
  <2>1. UNCHANGED <<dataVars, tellVars>>
    BY <1>2 DEF Ignored, NotTheAdmin, GetProxy, RequestDecides, AdminApproves,
       IssueSucceeds, AdminDenies, Finish, LookupBreaks, DecideBreaks, SendFails
  <2>2. QED
    BY <2>1 DEF Writes, dataVars
<1>3. CASE CreateAccount(i) \/ CreateBreaks(i)
  BY <1>3 DEF CreateAccount, CreateBreaks, Writes
<1>4. CASE \/ RequestReopens(i) \/ IssueWrites(i) \/ DenyWrites(i) \/ ReopenBreaks(i)
           \/ WriteBreaks(i)
  <2>1. \/ UNCHANGED <<account, rows, tellVars>>
        \/ RowThere(i) /\ UpdateRow(i, "pending")
        \/ RowThere(i) /\ UpdateRow(i, "active")
        \/ RowThere(i) /\ UpdateRow(i, "denied")
    BY <1>4 DEF RequestReopens, IssueWrites, DenyWrites, ReopenBreaks, WriteBreaks
  <2>2. QED
    BY <1>1, <2>1 DEF Writes
<1>5. CASE IssueBreaks(i)
  <2>1. press[i].seen \in Statuses \ {"none"}
    BY <1>5 DEF IssueBreaks, Breaks, Serves, ProcessInv, PressOK, Allowed, Issuable,
       Statuses
  <2>2. QED
    BY <1>5, <2>1 DEF IssueBreaks, RolledBack, Writes
<1>6. CASE Tell(i)
  BY <1>6 DEF Tell, dataVars
<1>7. QED
  BY <1>2, <1>3, <1>4, <1>5, <1>6 DEF Handles, StatementBreaks

\* What is written is a status, and a row that comes has an id of its own.
LEMMA WhatIsWritten ==
  ASSUME account \in [Asker -> Statuses], rows \in [Asker -> Nat],
         told \subseteq Asker, asked \subseteq Asker,
         NEW i \in Press, press[i].about \in Asker, Writes(i)
  PROVE  /\ account' \in [Asker -> Statuses] /\ rows' \in [Asker -> Nat]
         /\ told' \subseteq Asker /\ asked' \subseteq Asker
         /\ \A u \in Asker :
              /\ rows'[u] >= rows[u]
              /\ (account[u] = "none" /\ account'[u] # "none") => rows'[u] > rows[u]
<1>1. CASE UNCHANGED <<account, rows, tellVars>>
  BY <1>1 DEF tellVars
<1>2. ASSUME NEW st \in Statuses, Put(i, st)
      PROVE  /\ account' \in [Asker -> Statuses]
             /\ told' \subseteq Asker /\ asked' \subseteq Asker
             /\ \A u \in Asker \ {press[i].about} : account'[u] = account[u]
  BY <1>2 DEF Put
<1>3. CASE account[press[i].about] = "none" /\ InsertRow(i)
  <2>1. "pending" \in Statuses
    BY DEF Statuses
  <2>2. rows' = [rows EXCEPT ![press[i].about] = rows[press[i].about] + 1]
    BY <1>3 DEF InsertRow
  <2>3. QED
    BY <1>2, <1>3, <2>1, <2>2 DEF InsertRow
<1>4. CASE \E st \in Statuses \ {"none"} : RowThere(i) /\ UpdateRow(i, st)
  <2>1. PICK st \in Statuses \ {"none"} : RowThere(i) /\ Put(i, st) /\ rows' = rows
    BY <1>4 DEF UpdateRow
  <2>2. account[press[i].about] # "none"
    BY <2>1 DEF RowThere
  <2>3. QED
    BY <1>2, <2>1, <2>2
<1>5. QED
  BY <1>1, <1>3, <1>4 DEF Writes

\* A row's id is never given again.
LEMMA RowsGrow ==
  ASSUME ProcessInv, [ProcessNext]_processVars
  PROVE  /\ account' \in [Asker -> Statuses] /\ rows' \in [Asker -> Nat]
         /\ told' \subseteq Asker /\ asked' \subseteq Asker
         /\ \A u \in Asker :
              /\ rows'[u] >= rows[u]
              /\ (account[u] = "none" /\ account'[u] # "none") => rows'[u] > rows[u]
<1>1. /\ account \in [Asker -> Statuses] /\ rows \in [Asker -> Nat]
      /\ told \subseteq Asker /\ asked \subseteq Asker
  BY DEF ProcessInv, ProcessTypeOK
<1>2. CASE account' = account /\ rows' = rows /\ UNCHANGED tellVars
  BY <1>1, <1>2 DEF tellVars
<1>3. CASE \/ StartUp \/ StartFails \/ Signal \/ PollerStops \/ ShutdownGivesUp \/ Exit
           \/ Killed \/ Poll \/ WebBegins \/ UNCHANGED processVars
           \/ \E i \in Press : PressButton(i) \/ Dispatch(i)
  BY <1>2, <1>3 DEF StartUp, StartFails, Signal, PollerStops, ShutdownGivesUp, Exit,
     Killed, Vanish, Poll, WebBegins, PressButton, Dispatch, dataVars, processVars
<1>4. CASE WebEnds
  <2>1. rows' = rows /\ UNCHANGED tellVars
    BY <1>4 DEF WebEnds, WebDecides, WebSets, dataVars
  <2>2. CASE account' = account
    BY <1>2, <2>1, <2>2
  <2>3. CASE WebDecides
    <3>1. PICK u \in Asker :
            /\ account[u] # "none"
            /\ \E st \in {"active", "denied", "revoked", "none"} :
                 account' = [account EXCEPT ![u] = st]
      BY <2>3 DEF WebDecides
    <3>2. {"active", "denied", "revoked", "none"} \subseteq Statuses
      BY DEF Statuses
    <3>3. /\ account' \in [Asker -> Statuses]
          /\ \A v \in Asker \ {u} : account'[v] = account[v]
      BY <1>1, <3>1, <3>2
    <3>4. QED
      BY <1>1, <2>1, <3>1, <3>3 DEF tellVars
  <2>4. QED
    BY <1>4, <2>2, <2>3 DEF WebEnds, WebSets, dataVars
<1>5. ASSUME NEW i \in Press, Handles(i) \/ StatementBreaks(i) \/ SendFails(i)
      PROVE  /\ account' \in [Asker -> Statuses] /\ rows' \in [Asker -> Nat]
             /\ told' \subseteq Asker /\ asked' \subseteq Asker
             /\ \A u \in Asker :
                  /\ rows'[u] >= rows[u]
                  /\ (account[u] = "none" /\ account'[u] # "none") => rows'[u] > rows[u]
  <2>1. press[i].about \in Asker
    <3>1. press[i].at # "unused"
      BY <1>5 DEF Handles, StatementBreaks, Ignored, NotTheAdmin, GetProxy, CreateAccount,
         RequestDecides, RequestReopens, AdminApproves, IssueWrites, IssueSucceeds,
         AdminDenies, DenyWrites, Tell, Finish, LookupBreaks, CreateBreaks, DecideBreaks,
         ReopenBreaks, WriteBreaks, IssueBreaks, SendFails, Serves, Executes, Breaks
    <3>2. QED
      BY <3>1 DEF ProcessInv, PressOK
  <2>2. CASE Writes(i)
    BY <1>1, <2>1, <2>2, WhatIsWritten
  <2>3. CASE Tell(i) /\ account' = account /\ rows' = rows
    <3>1. told' \subseteq Asker /\ asked' \subseteq Asker
      BY <1>1, <2>1, <2>3 DEF Tell
    <3>2. QED
      BY <1>1, <2>3, <3>1
  <2>4. QED
    BY <1>5, <2>2, <2>3, HandlerWrites
<1>6. QED
  BY <1>3, <1>4, <1>5 DEF ProcessNext

------------------------------------------------------------------------------
(* The rest of the state.                                                  *)

\* Runs, failures and lost sends are counted and never forgotten.
LEMMA CountersKept ==
  ASSUME ProcessInv, [ProcessNext]_processVars
  PROVE  /\ used' \in [runs : Nat, failures : Nat, sends : Nat]
         /\ budget' = budget /\ RunsCounted'
         /\ used'.runs \in 0 .. budget.runs /\ used'.failures \in 0 .. budget.failures
         /\ used'.sends \in 0 .. budget.sends
         /\ used'.runs >= used.runs /\ used'.failures >= used.failures
         /\ used'.sends >= used.sends
         /\ (process # "up" /\ process' = "up") => used'.runs = used.runs + 1
<1> DEFINE Goal == /\ used' \in [runs : Nat, failures : Nat, sends : Nat]
                   /\ budget' = budget /\ RunsCounted'
                   /\ used'.runs \in 0 .. budget.runs
                   /\ used'.failures \in 0 .. budget.failures
                   /\ used'.sends \in 0 .. budget.sends
                   /\ used'.runs >= used.runs /\ used'.failures >= used.failures
                   /\ used'.sends >= used.sends
                   /\ (process # "up" /\ process' = "up") => used'.runs = used.runs + 1
<1>1. /\ used \in [runs : Nat, failures : Nat, sends : Nat]
      /\ used.runs \in 0 .. budget.runs /\ used.failures \in 0 .. budget.failures
      /\ used.sends \in 0 .. budget.sends /\ RunsCounted
      /\ used.runs \in Nat /\ used.failures \in Nat /\ used.sends \in Nat
      /\ process \in {"down", "up", "draining"}
  BY DEF ProcessInv, ProcessTypeOK
<1>2. budget.runs \in Nat /\ budget.failures \in Nat /\ budget.sends \in Nat
  <2>1. budget \in Budget
    BY ProcessAssumption DEF ProcessInv, ProcessTypeOK
  <2>2. QED
    BY <2>1 DEF Budget
<1>3. ASSUME used' = used, budget' = budget,
             \/ process' = process
             \/ process' # "up" /\ process # "down" /\ used.runs < budget.runs
      PROVE  Goal
  BY <1>1, <1>2, <1>3 DEF RunsCounted
<1>4. ASSUME Fails, budget' = budget,
             \/ process' = process
             \/ process' = "down" /\ used.runs < budget.runs
      PROVE  Goal
  <2>1. /\ used' \in [runs : Nat, failures : Nat, sends : Nat] /\ used'.runs = used.runs
        /\ used'.failures = used.failures + 1 /\ used'.sends = used.sends
        /\ used.failures < budget.failures
    BY <1>1, <1>4 DEF Fails
  <2>2. QED
    BY <1>1, <1>2, <1>4, <2>1 DEF RunsCounted
<1>5. CASE StartUp
  <2>1. /\ used' \in [runs : Nat, failures : Nat, sends : Nat]
        /\ used'.runs = used.runs + 1
        /\ used'.failures = used.failures /\ used'.sends = used.sends
        /\ process = "down" /\ process' = "up" /\ budget' = budget
    BY <1>1, <1>5 DEF StartUp
  <2>2. used.runs < budget.runs
    BY <1>1, <2>1 DEF RunsCounted
  <2>3. QED
    BY <1>1, <1>2, <2>1, <2>2 DEF RunsCounted
<1>6. CASE StartFails
  BY <1>4, <1>6 DEF StartFails
<1>7. CASE Signal \/ PollerStops \/ ShutdownGivesUp \/ WebBegins \/ WebEnds
  BY <1>3, <1>7 DEF Signal, PollerStops, ShutdownGivesUp, WebBegins, WebEnds
<1>8. CASE Exit
  <2>1. process = "draining" /\ process' = "down" /\ used' = used /\ budget' = budget
    BY <1>8 DEF Exit, Vanish
  <2>2. used.runs < budget.runs
    BY <1>1, <2>1 DEF RunsCounted
  <2>3. QED
    BY <1>3, <2>1, <2>2
<1>9. CASE Killed
  BY <1>4, <1>9 DEF Killed, Vanish
<1>10. CASE Poll \/ UNCHANGED processVars \/ \E i \in Press : PressButton(i) \/ Dispatch(i)
  BY <1>3, <1>10 DEF Poll, PressButton, Dispatch, processVars, systemVars
<1>11. ASSUME NEW i \in Press, Handles(i) \/ StatementBreaks(i) \/ SendFails(i)
       PROVE  Goal
  <2>1. process' = process /\ budget' = budget /\ (used' = used \/ Fails \/ SendFails(i))
    BY <1>11, HandlerFrame DEF systemVars
  <2>2. CASE SendFails(i)
    <3>1. /\ used' \in [runs : Nat, failures : Nat, sends : Nat] /\ used'.runs = used.runs
          /\ used'.failures = used.failures /\ used'.sends = used.sends + 1
          /\ used.sends < budget.sends
      BY <1>1, <2>2 DEF SendFails
    <3>2. QED
      BY <1>1, <1>2, <2>1, <3>1 DEF RunsCounted
  <2>3. QED
    BY <1>3, <1>4, <2>1, <2>2
<1>12. QED
  BY <1>5, <1>6, <1>7, <1>8, <1>9, <1>10, <1>11 DEF ProcessNext

\* Statuses, settings, the bounds: every step keeps their types.
LEMMA TypesKept ==
  ASSUME ProcessInv, [ProcessNext]_processVars, press' \in [Press -> PressRecord]
  PROVE  ProcessTypeOK'
<1> DEFINE System == process \in {"down", "up", "draining"}
                       /\ poller \in {"polling", "stopped"}
                       /\ web \in {"idle", "busy"} /\ gaveUp \in BOOLEAN
           Choices == {setting, choice} \subseteq {"unset", "on", "off"}
           Presses == \A i \in Press :
             /\ press[i].kind \in Kind /\ press[i].at \in Stage /\ press[i].row \in Nat
             /\ press[i].seen \in Statuses /\ press[i].todo \in Seq(Call)
<1>1. Presses'
  BY DEF PressRecord
<1>2. /\ account' \in [Asker -> Statuses] /\ rows' \in [Asker -> Nat]
      /\ told' \subseteq Asker /\ asked' \subseteq Asker
  BY RowsGrow
<1>3. /\ budget' \in Budgets /\ used'.runs \in 0 .. budget'.runs
      /\ used'.failures \in 0 .. budget'.failures /\ used'.sends \in 0 .. budget'.sends
  BY CountersKept DEF ProcessInv, ProcessTypeOK
<1>4. System /\ Choices
  BY DEF ProcessInv, ProcessTypeOK
<1>5. System' /\ Choices'
  <2>1. CASE StartUp \/ StartFails
    BY <1>4, <2>1 DEF StartUp, StartFails, Seed
  <2>2. CASE Signal \/ PollerStops \/ ShutdownGivesUp \/ WebBegins
    BY <1>4, <2>2 DEF Signal, PollerStops, ShutdownGivesUp, WebBegins, dataVars
  <2>3. CASE Exit \/ Killed
    BY <1>4, <2>3 DEF Exit, Killed, Vanish, dataVars
  <2>4. CASE WebEnds
    <3>1. System'
      BY <1>4, <2>4 DEF WebEnds
    <3>2. Choices'
      BY <1>4, <2>4 DEF WebEnds, WebDecides, WebSets, dataVars
    <3>3. QED
      BY <3>1, <3>2
  <2>5. CASE Poll \/ UNCHANGED processVars \/ \E i \in Press : PressButton(i) \/ Dispatch(i)
    BY <1>4, <2>5 DEF Poll, PressButton, Dispatch, processVars, systemVars, dataVars
  <2>6. ASSUME NEW i \in Press, Handles(i) \/ StatementBreaks(i) \/ SendFails(i)
        PROVE  System' /\ Choices'
    BY <1>4, <2>6, HandlerFrame DEF systemVars
  <2>7. QED
    BY <2>1, <2>2, <2>3, <2>4, <2>5, <2>6 DEF ProcessNext
<1>6. QED
  BY <1>1, <1>2, <1>3, <1>5 DEF ProcessTypeOK

\* A handler goes on with its own press, and a press is about one row from when the
\* row is read, inserted or, for the buttons, was asked about.
LEMMA HandlerMoves ==
  ASSUME ProcessInv, NEW i \in Press, Handles(i) \/ StatementBreaks(i) \/ SendFails(i)
  PROVE  /\ \A j \in Press \ {i} : press'[j] = press[j]
         /\ press[i].at \in Working \cup {"telling"} /\ press'[i].about = press[i].about
         /\ \/ press'[i].row = press[i].row
            \/ press'[i].row = rows'[press[i].about] /\ press'[i].at = "decide"
<1>1. press \in [Press -> PressRecord] /\ press[i] \in PressRecord
      /\ (press[i].at # "unused" => press[i].about \in Asker)
  BY DEF ProcessInv, PressOK
<1> DEFINE Goal == /\ \A j \in Press \ {i} : press'[j] = press[j]
                   /\ press'[i].about = press[i].about
                   /\ \/ press'[i].row = press[i].row
                      \/ press'[i].row = rows'[press[i].about] /\ press'[i].at = "decide"
<1>2. press[i].at \in Working \cup {"telling"}
  BY DEF Working, Handles, StatementBreaks, Ignored, NotTheAdmin, GetProxy, CreateAccount,
     RequestDecides, RequestReopens, AdminApproves, IssueWrites, IssueSucceeds, AdminDenies,
     DenyWrites, Tell, Finish, LookupBreaks, CreateBreaks, DecideBreaks, ReopenBreaks,
     WriteBreaks, IssueBreaks, SendFails, Serves, Executes, Breaks
<1>3. ASSUME \/ \E calls : Says(i, calls)
             \/ \E at : GoesTo(i, at)
             \/ \E st : press' = [press EXCEPT ![i].at = "issue", ![i].seen = st]
             \/ Sent(i)
      PROVE  Goal
  BY <1>1, <1>3 DEF Says, GoesTo, Sent, PressRecord
<1>4. CASE CreateAccount(i) /\ account[press[i].about] = "none"
  <2>1. /\ rows' = [rows EXCEPT ![press[i].about] = rows[press[i].about] + 1]
        /\ press' = [press EXCEPT ![i].at = "decide", ![i].seen = "pending",
                                  ![i].row = rows[press[i].about] + 1]
    BY <1>4 DEF CreateAccount, InsertRow
  <2>2. press[i].about \in Asker /\ rows \in [Asker -> Nat]
    BY <1>1, <1>2 DEF Working, ProcessInv, ProcessTypeOK
  <2>3. QED
    BY <1>1, <1>2, <2>1, <2>2 DEF PressRecord
<1>5. CASE GetProxy(i) /\ account[press[i].about] \in Reopened
  <2>1. /\ rows' = rows
        /\ press' = [press EXCEPT ![i].at = "decide", ![i].row = rows[press[i].about],
                                  ![i].seen = account[press[i].about]]
    BY <1>5 DEF GetProxy, Reopened, dataVars
  <2>2. QED
    BY <1>1, <1>2, <2>1 DEF PressRecord
<1>6. CASE \/ Handles(i) /\ ~(CreateAccount(i) /\ account[press[i].about] = "none")
              /\ ~(GetProxy(i) /\ account[press[i].about] \in Reopened)
           \/ StatementBreaks(i) \/ SendFails(i)
  <2>1. \/ \E calls : Says(i, calls)
        \/ \E at : GoesTo(i, at)
        \/ \E st : press' = [press EXCEPT ![i].at = "issue", ![i].seen = st]
        \/ Sent(i)
    <3>1. CASE Ignored(i) \/ NotTheAdmin(i) \/ IssueSucceeds(i) \/ IssueBreaks(i)
      BY <3>1 DEF Ignored, NotTheAdmin, IssueSucceeds, IssueBreaks
    <3>2. CASE \/ RequestDecides(i) \/ RequestReopens(i) \/ IssueWrites(i)
               \/ AdminDenies(i) \/ DenyWrites(i)
      BY <3>2 DEF RequestDecides, RequestReopens, IssueWrites, AdminDenies, DenyWrites,
         ReportsError
    <3>3. CASE AdminApproves(i)
      BY <3>3 DEF AdminApproves, ReportsError
    <3>4. CASE Tell(i) \/ SendFails(i)
      BY <3>4 DEF Tell, SendFails
    <3>5. CASE Finish(i)
      BY <3>5 DEF Finish, GoesTo
    <3>6. CASE \/ LookupBreaks(i) \/ CreateBreaks(i) \/ DecideBreaks(i)
               \/ ReopenBreaks(i) \/ WriteBreaks(i)
      BY <3>6 DEF LookupBreaks, CreateBreaks, DecideBreaks, ReopenBreaks, WriteBreaks,
         ReportsError
    <3>7. CASE CreateAccount(i) /\ account[press[i].about] # "none"
      BY <3>7 DEF CreateAccount, ReportsError
    <3>8. CASE GetProxy(i) /\ account[press[i].about] \notin Reopened
      BY <3>8 DEF GetProxy, Reopened
    <3>9. QED
      BY <1>6, <3>1, <3>2, <3>3, <3>4, <3>5, <3>6, <3>7, <3>8 DEF Handles, StatementBreaks
  <2>2. QED
    BY <1>2, <1>3, <2>1
<1>7. QED
  BY <1>2, <1>4, <1>5, <1>6

\* Where a press is about the row it was about.
LEMMA SameRow ==
  ASSUME ProcessInv, [ProcessNext]_processVars, NEW i \in Press,
         press'[i].row = press[i].row, press'[i].about = press[i].about,
         press[i].at # "unused"
  PROVE  /\ RowKnown(i)'
         /\ ~RowThere(i) => ~RowThere(i)'
<1> DEFINE u == press[i].about
           r == press[i].row
<1>1. u \in Asker /\ r \in Nat /\ rows[u] \in Nat /\ r <= rows[u]
  BY DEF ProcessInv, ProcessTypeOK, PressOK, RowKnown
<1>2. /\ rows'[u] \in Nat /\ rows'[u] >= rows[u]
      /\ (account[u] = "none" /\ account'[u] # "none") => rows'[u] > rows[u]
  BY <1>1, RowsGrow
<1>3. RowKnown(i)'
  BY <1>1, <1>2 DEF RowKnown
<1>4. RowThere(i) <=> account[u] # "none" /\ rows[u] = r
  BY DEF RowThere
<1>5. RowThere(i)' <=> account'[u] # "none" /\ rows'[u] = r
  BY DEF RowThere
<1>6. ~RowThere(i) => ~RowThere(i)'
  BY <1>1, <1>2, <1>4, <1>5
<1>7. QED
  BY <1>3, <1>6

\* What excused a panic goes on excusing it.
LEMMA StillExcused ==
  ASSUME ProcessInv, [ProcessNext]_processVars, NEW i \in Press,
         press'[i].row = press[i].row, press'[i].about = press[i].about,
         press[i].at = "panicked"
  PROVE  PanicExcused(i)'
<1>1. /\ used.runs \in Nat /\ used.runs >= 1
      /\ ~RowThere(i) \/ used.failures > 0 \/ process # "up" \/ used.runs > 1
  BY DEF ProcessInv, PanicExcused
<1>2. ~RowThere(i) => ~RowThere(i)'
  BY SameRow
<1>3. /\ used.failures \in Nat /\ used'.failures \in Nat /\ used'.runs \in Nat
      /\ used'.runs >= used.runs /\ used'.failures >= used.failures
      /\ (process # "up" /\ process' = "up") => used'.runs = used.runs + 1
  BY CountersKept DEF ProcessInv
<1>4. QED
  BY <1>1, <1>2, <1>3 DEF PanicExcused

\* Every step keeps what is known of the rows that presses are about, and of panics.
LEMMA RowsKept ==
  ASSUME ProcessInv, [ProcessNext]_processVars, press' \in [Press -> PressRecord],
         NEW i \in Press
  PROVE  RowKnown(i)' /\ PanicExcused(i)'
<1>1. /\ press \in [Press -> PressRecord] /\ press[i] \in PressRecord
      /\ press'[i] \in PressRecord
  BY DEF ProcessInv
<1>2. ASSUME press'[i].row = press[i].row, press'[i].about = press[i].about,
             press'[i].at = "unused" \/ press[i].at # "unused",
             press'[i].at = "panicked" => press[i].at = "panicked"
      PROVE  RowKnown(i)' /\ PanicExcused(i)'
  <2>1. CASE press'[i].at = "unused"
    BY <2>1 DEF RowKnown, PanicExcused
  <2>2. CASE press'[i].at # "unused"
    <3>1. RowKnown(i)'
      BY <1>2, <2>2, SameRow
    <3>2. PanicExcused(i)'
      BY <1>2, StillExcused DEF PanicExcused
    <3>3. QED
      BY <3>1, <3>2
  <2>3. QED
    BY <2>1, <2>2
<1>3. CASE press'[i] = press[i]
  BY <1>2, <1>3
<1>4. CASE Exit \/ Killed
  <2>1. \/ press'[i] = press[i]
        \/ press[i].at # "unused"
           /\ press'[i] = [press[i] EXCEPT !.at = "lost", !.todo = <<>>]
        \/ press[i].at # "unused"
           /\ press'[i] = [press[i] EXCEPT !.at = "telegram", !.todo = <<>>, !.acks = 0]
    BY <1>4 DEF Exit, Killed, Vanish
  <2>2. QED
    BY <1>1, <1>2, <1>3, <2>1 DEF PressRecord
<1>5. CASE Poll
  <2>1. \/ press[i].at = "telegram" /\ press'[i] = [press[i] EXCEPT !.at = "channel"]
        \/ press'[i] = [press[i] EXCEPT !.confirmed = press[i].at # "unused"]
    BY <1>5 DEF Poll
  <2>2. QED
    BY <1>1, <1>2, <2>1 DEF PressRecord
<1>6. ASSUME NEW j \in Press, PressButton(j)
      PROVE  RowKnown(i)' /\ PanicExcused(i)'
  <2>1. CASE j # i
    <3>1. press'[i] = press[i]
      BY <1>1, <1>6, <2>1 DEF PressButton
    <3>2. QED
      BY <1>3, <3>1
  <2>2. CASE j = i
    <3>2. PICK kind \in Kind, u \in Asker, old \in BOOLEAN, by \in Asker \cup {Admin},
               row \in Nat :
            /\ kind = "other" => ~old
            /\ row <= rows[u]
            /\ press' = [press EXCEPT ![i] =
                 [NotPressed EXCEPT !.kind = kind, !.by = by, !.about = u,
                                    !.old = old, !.at = "telegram", !.row = row]]
      BY <1>6, <2>2, NewPress
    <3>3. press'[i].at = "telegram" /\ press'[i].about = u /\ press'[i].row = row
      BY <1>1, <3>2 DEF NotPressed
    <3>4. rows' = rows
      BY <1>6 DEF PressButton, dataVars
    <3>5. QED
      BY <3>2, <3>3, <3>4 DEF RowKnown, PanicExcused
  <2>3. QED
    BY <2>1, <2>2
<1>7. ASSUME NEW j \in Press, Dispatch(j)
      PROVE  RowKnown(i)' /\ PanicExcused(i)'
  <2>1. \/ press'[i] = press[i]
        \/ press[i].at = "channel" /\ press'[i] = [press[i] EXCEPT !.at = "begun"]
    BY <1>1, <1>7 DEF Dispatch
  <2>2. QED
    BY <1>1, <1>2, <1>3, <2>1 DEF PressRecord
<1>8. ASSUME NEW j \in Press, Handles(j) \/ StatementBreaks(j) \/ SendFails(j)
      PROVE  RowKnown(i)' /\ PanicExcused(i)'
  <2>1. /\ \A k \in Press \ {j} : press'[k] = press[k]
        /\ press[j].at \in Working \cup {"telling"} /\ press'[j].about = press[j].about
        /\ \/ press'[j].row = press[j].row
           \/ press'[j].row = rows'[press[j].about] /\ press'[j].at = "decide"
    BY <1>8, HandlerMoves
  <2>2. CASE j # i
    BY <1>3, <2>1, <2>2
  <2>3. CASE j = i
    <3>1. press[i].at # "unused" /\ press[i].about \in Asker
      BY <2>1, <2>3 DEF Working, ProcessInv, PressOK
    <3>2. rows'[press[i].about] \in Nat
      BY <3>1, RowsGrow
    <3>3. RowKnown(i)'
      <4>1. CASE press'[j].row = press[j].row
        BY <2>1, <2>3, <3>1, <4>1, SameRow
      <4>2. CASE press'[j].row = rows'[press[j].about]
        BY <2>1, <2>3, <3>2, <4>2 DEF RowKnown
      <4>3. QED
        BY <2>1, <4>1, <4>2
    <3>4. ASSUME press'[i].at = "panicked"
          PROVE  PanicExcused(i)'
      <4>1. RequestReopens(i) \/ ReopenBreaks(i)
        BY <1>1, <1>8, <2>3, <3>4 DEF Handles, StatementBreaks, Ignored, NotTheAdmin,
           GetProxy, CreateAccount, RequestDecides, AdminApproves, IssueWrites,
           IssueSucceeds, AdminDenies, DenyWrites, Tell, Finish, LookupBreaks,
           CreateBreaks, DecideBreaks, WriteBreaks, IssueBreaks, SendFails, Says,
           ReportsError, GoesTo, Sent, PressRecord, Serves, Executes, Breaks
      <4>2. press'[i].row = press[i].row
        BY <2>1, <2>3, <3>4
      <4>3. used'.runs \in Nat /\ used'.runs >= 1
        <5>1. process # "down"
          BY <1>8, HandlerFrame
        <5>2. used.runs \in Nat /\ used.runs >= 1
          BY <5>1 DEF ProcessInv, RunsCounted
        <5>3. used'.runs \in Nat /\ used'.runs >= used.runs
          BY CountersKept
        <5>4. QED
          BY <5>2, <5>3
      <4>4. CASE RequestReopens(i)
        <5>1. ~RowThere(i)
          BY <1>1, <3>4, <4>4 DEF RequestReopens, Says, PressRecord
        <5>2. ~RowThere(i)'
          BY <2>1, <2>3, <3>1, <4>2, <5>1, SameRow
        <5>3. QED
          BY <4>3, <5>2 DEF PanicExcused
      <4>5. CASE ReopenBreaks(i)
        <5>1. Fails \/ process' # "up"
          BY <4>5 DEF ReopenBreaks, Breaks, systemVars
        <5>2. Fails => used'.failures > 0
          BY DEF Fails, ProcessInv
        <5>3. QED
          BY <4>3, <5>1, <5>2 DEF PanicExcused
      <4>6. QED
        BY <4>1, <4>4, <4>5
    <3>5. QED
      BY <3>3, <3>4 DEF PanicExcused
  <2>4. QED
    BY <2>2, <2>3
<1>9. CASE \/ StartUp \/ StartFails \/ Signal \/ PollerStops \/ ShutdownGivesUp
           \/ WebBegins \/ WebEnds \/ UNCHANGED processVars
  <2>1. press' = press
    BY <1>9 DEF StartUp, StartFails, Signal, PollerStops, ShutdownGivesUp, WebBegins,
       WebEnds, processVars
  <2>2. QED
    BY <1>3, <2>1
<1>10. QED
  BY <1>4, <1>5, <1>6, <1>7, <1>8, <1>9 DEF ProcessNext

\* Nothing has been started yet: the inductive part of the process's state.
LEMMA BeginsInOrder == ProcessInit => ProcessInv
<1> SUFFICES ASSUME ProcessInit
             PROVE  ProcessInv
  OBVIOUS
<1> USE DEF ProcessInit
<1>1. NotPressed \in PressRecord /\ PressOK(NotPressed)
  BY EmptySeq DEF NotPressed, PressRecord, PressOK, Allowed, Kind, Stage, Statuses
<1>2. press \in [Press -> PressRecord] /\ \A i \in Press : PressOK(press[i])
  BY <1>1
<1>3. /\ budget.runs \in Nat \ {0} /\ budget.failures \in Nat /\ budget.sends \in Nat
  BY ProcessAssumption DEF Budget
<1>4. account \in [Asker -> Statuses] /\ rows \in [Asker -> Nat]
  BY DEF Statuses
<1>5. \A i \in Press :
        /\ press[i].kind \in Kind /\ press[i].at \in Stage /\ press[i].row \in Nat
        /\ press[i].seen \in Statuses /\ press[i].todo \in Seq(Call)
  BY <1>2 DEF PressRecord
<1>6. \A i \in Press : RowKnown(i) /\ PanicExcused(i)
  BY DEF RowKnown, PanicExcused, NotPressed
<1> HIDE DEF PressRecord, PressOK, NotPressed
<1>7. /\ process \in {"down", "up", "draining"} /\ poller \in {"polling", "stopped"}
      /\ web \in {"idle", "busy"} /\ gaveUp \in BOOLEAN
      /\ {setting, choice} \subseteq {"unset", "on", "off"}
  OBVIOUS
<1>8. told \subseteq Asker /\ asked \subseteq Asker
  OBVIOUS
<1>9. /\ budget \in Budgets /\ used.runs \in 0 .. budget.runs
      /\ used.failures \in 0 .. budget.failures
      /\ used.sends \in 0 .. budget.sends
      /\ used \in [runs : Nat, failures : Nat, sends : Nat]
      /\ used.runs < budget.runs /\ process = "down"
  BY <1>3
<1> HIDE DEF ProcessInit
<1>10. ProcessTypeOK
  BY <1>4, <1>5, <1>7, <1>8, <1>9 DEF ProcessTypeOK
<1>11. QED
  BY <1>2, <1>6, <1>9, <1>10 DEF ProcessInv, RunsCounted

\* The state is what the code can give it, and every press is where a handler
\* can have left it, failed statements, deleted rows and cancelled contexts
\* included, over any number of runs.
THEOREM ProcessInvariant == ProcessSpec => []ProcessInv
<1>1. ProcessInv /\ [ProcessNext]_processVars => ProcessInv'
  <2> SUFFICES ASSUME ProcessInv, [ProcessNext]_processVars
               PROVE  ProcessInv'
    OBVIOUS
  <2>1. press' \in [Press -> PressRecord] /\ \A i \in Press : PressOK(press[i])'
    BY PressesKept
  <2>2. ProcessTypeOK'
    BY <2>1, TypesKept
  <2>3. used' \in [runs : Nat, failures : Nat, sends : Nat] /\ RunsCounted'
    BY CountersKept
  <2>4. \A i \in Press : RowKnown(i)' /\ PanicExcused(i)'
    BY <2>1, RowsKept
  <2>5. QED
    BY <2>1, <2>2, <2>3, <2>4 DEF ProcessInv
<1>2. QED
  BY <1>1, BeginsInOrder, PTL DEF ProcessSpec

\* The process's types, for any users, presses and bounds.
THEOREM ProcessTypes == ProcessSpec => []ProcessTypeOK
<1>1. ProcessInv => ProcessTypeOK
  BY DEF ProcessInv
<1>2. QED
  BY <1>1, ProcessInvariant, PTL

\* A press that was handled to its end had its one answerCallbackQuery, over
\* redeliveries, restarts, failed statements and cancelled contexts, a decision
\* without its message none; the others end in the panic of a reopened request,
\* whose row was deleted, or whose UPDATE failed or was cancelled.
THEOREM PressesAnsweredOnce == ProcessSpec => []AnsweredOnce
<1>1. ProcessInv => AnsweredOnce
  <2> SUFFICES ASSUME ProcessInv, NEW i \in Press
               PROVE  /\ press[i].acks <= 1
                      /\ press[i].at = "done" =>
                           press[i].acks =
                             IF press[i].old /\ press[i].kind \in {"approve", "deny"} THEN 0
                             ELSE 1
                      /\ press[i].at = "panicked" =>
                           /\ press[i].acks = 0
                           /\ press[i].kind = "get" /\ press[i].seen \in {"revoked", "denied"}
                           /\ \/ ~RowThere(i)
                              \/ used.failures > 0
                              \/ process # "up" \/ used.runs > 1
    BY DEF AnsweredOnce
  <2>1. PressOK(press[i]) /\ PanicExcused(i)
    BY DEF ProcessInv
  <2>2. Due(press[i]) = IF press[i].old /\ press[i].kind \in {"approve", "deny"} THEN 0 ELSE 1
    BY DEF Due, Decision
  <2>3. QED
    BY <2>1, <2>2 DEF PressOK, Allowed, Reopened, PanicExcused
<1>2. QED
  BY <1>1, ProcessInvariant, PTL

\* A choice made in the panel outlives every restart, whatever .env says.
THEOREM PanelChoiceKept == ProcessSpec => []ChoiceKept
<1> DEFINE Choice == choice \in {"unset", "on", "off"} /\ ChoiceKept
<1>1. ProcessInit => Choice
  BY DEF ProcessInit, ChoiceKept
<1>2. Choice /\ [ProcessNext]_processVars => Choice'
  <2> SUFFICES ASSUME Choice, [ProcessNext]_processVars
               PROVE  Choice'
    OBVIOUS
  <2>1. CASE StartUp \/ StartFails
    BY <2>1 DEF StartUp, StartFails, Seed, ChoiceKept
  <2>2. CASE WebEnds
    BY <2>2 DEF WebEnds, WebDecides, WebSets, dataVars, ChoiceKept
  <2>3. CASE setting' = setting /\ choice' = choice
    BY <2>3 DEF ChoiceKept
  <2>4. CASE \/ Signal \/ PollerStops \/ ShutdownGivesUp \/ Exit \/ Killed \/ Poll
             \/ WebBegins \/ UNCHANGED processVars
             \/ \E i \in Press : PressButton(i) \/ Dispatch(i)
    BY <2>3, <2>4 DEF Signal, PollerStops, ShutdownGivesUp, Exit, Killed, Vanish, Poll,
       WebBegins, PressButton, Dispatch, processVars, dataVars
  <2>5. CASE \E i \in Press : Handles(i) \/ StatementBreaks(i) \/ SendFails(i)
    BY <2>3, <2>5, HandlerFrame
  <2>6. QED
    BY <2>1, <2>2, <2>4, <2>5 DEF ProcessNext
<1>3. QED
  BY <1>1, <1>2, PTL DEF ProcessSpec

------------------------------------------------------------------------------
(* Pending requests.                                                       *)

\* Whoever else is to ask still is, unless the row is a new one.
LEMMA OthersStillAsk ==
  ASSUME NEW i \in Press, \A j \in Press \ {i} : press'[j] = press[j],
         NEW u \in Asker, rows'[u] = rows[u]
  PROVE  \A j \in Press \ {i} : WillAsk(j, u) => WillAsk(j, u)'
BY DEF WillAsk

\* A handler leaves a request pending only when the administrator was asked
\* about it, or someone is still going to.
LEMMA HandlesAnnounced ==
  ASSUME ProcessInv, NEW i \in Press, Handles(i), NEW u \in Asker,
         account'[u] = "pending", u \notin asked',
         account[u] = "pending" => u \in asked \/ \E j \in Press : WillAsk(j, u)
  PROVE  \E j \in Press : WillAsk(j, u)'
<1> DEFINE p == press[i]
<1>1. /\ \A j \in Press \ {i} : press'[j] = press[j]
      /\ p.at \in Working \cup {"telling"} /\ press'[i].about = p.about
  BY HandlerMoves
<1>2. /\ p \in PressRecord /\ account \in [Asker -> Statuses] /\ rows \in [Asker -> Nat]
      /\ press \in [Press -> PressRecord] /\ p.about \in Asker
  BY <1>1 DEF ProcessInv, ProcessTypeOK, PressOK, Working
<1>3. ASSUME account[u] = "pending", u \notin asked, rows'[u] = rows[u],
             WillAsk(i, u) => WillAsk(i, u)'
      PROVE  \E j \in Press : WillAsk(j, u)'
  BY <1>1, <1>3, OthersStillAsk
<1> USE DEF Serves, Executes
<1>4. CASE Writes(i) /\ u # p.about
  <2>1. rows'[u] = rows[u] /\ account'[u] = account[u] /\ (u \in asked' <=> u \in asked)
    BY <1>2, <1>4 DEF Writes, tellVars, InsertRow, UpdateRow, Put
  <2>2. ~WillAsk(i, u)
    BY <1>4 DEF WillAsk
  <2>3. QED
    BY <1>3, <2>1, <2>2
<1>5. CASE Tell(i)
  <2>1. /\ p.at = "telling" /\ p.todo # <<>> /\ account' = account /\ Sent(i)
        /\ rows' = rows
        /\ asked' = IF Head(p.todo) = "ask" /\ RowThere(i) THEN asked \cup {p.about}
                    ELSE asked
    BY <1>5 DEF Tell, dataVars
  <2>2. CASE ~WillAsk(i, u)
    BY <1>3, <2>1, <2>2
  <2>3. CASE WillAsk(i, u)
    <3> DEFINE s == p.todo
               t == Tail(s)
    <3>1. p.about = u /\ p.row = rows[u] /\ RowThere(i)
      BY <2>1, <2>3 DEF WillAsk, RowThere
    <3>2. PICK k \in DOMAIN s : s[k] = "ask"
      BY <2>1, <2>3 DEF WillAsk
    <3>3. /\ s \in Seq(Call) /\ t \in Seq(Call) /\ Len(s) \in Nat \ {0}
          /\ DOMAIN s = 1 .. Len(s) /\ DOMAIN t = 1 .. Len(t) /\ Len(t) = Len(s) - 1
          /\ \A n \in 1 .. Len(t) : t[n] = s[n + 1]
          /\ Head(s) = s[1]
      BY <1>2, <2>1, HeadTailProperties, LenProperties, EmptySeq DEF PressRecord
    <3>4. /\ press'[i].at = "telling" /\ press'[i].about = u /\ press'[i].todo = t
          /\ press'[i].row = p.row
      BY <1>2, <2>1, <3>1 DEF Sent, PressRecord
    <3>5. k # 1
      BY <2>1, <3>1, <3>2, <3>3
    <3> HIDE DEF s, t
    <3>6. k - 1 \in DOMAIN t /\ t[k - 1] = "ask"
      BY <3>2, <3>3, <3>5
    <3>7. press'[i].row = rows'[u]
      BY <2>1, <3>1, <3>4
    <3>8. WillAsk(i, u)'
      BY <3>4, <3>6, <3>7 DEF WillAsk
    <3>9. QED
      BY <3>8
  <2>4. QED
    BY <2>2, <2>3
<1>6. CASE u = p.about /\ ~Tell(i)
  <2>1. CASE \/ Ignored(i) \/ NotTheAdmin(i) \/ GetProxy(i) \/ AdminApproves(i)
             \/ IssueSucceeds(i) \/ AdminDenies(i)
    <3>1. account' = account /\ rows' = rows /\ asked' = asked
      BY <2>1 DEF Ignored, NotTheAdmin, GetProxy, AdminApproves, IssueSucceeds,
         AdminDenies, dataVars, tellVars
    <3>2. p.at \in {"begun", "issuing"}
      BY <2>1 DEF Ignored, NotTheAdmin, GetProxy, AdminApproves, IssueSucceeds, AdminDenies
    <3>3. QED
      BY <1>3, <3>1, <3>2 DEF WillAsk
  <2>2. CASE CreateAccount(i)
    <3>1. CASE account[u] = "none"
      <4>1. /\ rows' = [rows EXCEPT ![u] = rows[u] + 1]
            /\ press' = [press EXCEPT ![i].at = "decide", ![i].seen = "pending",
                                      ![i].row = rows[u] + 1]
        BY <1>6, <2>2, <3>1 DEF CreateAccount, InsertRow
      <4>2. press'[i].at = "decide" /\ press'[i].about = u /\ press'[i].row = rows'[u]
        BY <1>2, <1>6, <4>1 DEF PressRecord
      <4>3. WillAsk(i, u)'
        BY <4>2 DEF WillAsk
      <4>4. QED
        BY <4>3
    <3>2. CASE account[u] # "none"
      <4>1. account' = account /\ rows' = rows /\ asked' = asked /\ p.at = "create"
        BY <1>6, <2>2, <3>2 DEF CreateAccount, tellVars
      <4>2. QED
        BY <1>3, <4>1 DEF WillAsk
    <3>3. QED
      BY <3>1, <3>2
  <2>3. CASE RequestDecides(i)
    <3>1. account' = account /\ rows' = rows /\ asked' = asked
      BY <2>3 DEF RequestDecides, dataVars, tellVars
    <3>2. WillAsk(i, u) => WillAsk(i, u)'
      <4>1. CASE GoesTo(i, "issue") \/ GoesTo(i, "reopen")
        <5>1. press'[i].at \in {"issue", "reopen"} /\ press'[i].row = p.row
          BY <1>2, <4>1 DEF GoesTo, PressRecord
        <5>2. QED
          BY <1>1, <3>1, <5>1 DEF WillAsk
      <4>2. CASE Says(i, <<"pending", "ask", "ack">>)
        <5>1. /\ press'[i].at = "telling" /\ press'[i].row = p.row
              /\ press'[i].todo = <<"pending", "ask", "ack">>
          BY <1>2, <4>2 DEF Says, PressRecord
        <5>2. 2 \in DOMAIN press'[i].todo /\ press'[i].todo[2] = "ask"
          BY <5>1
        <5>3. QED
          BY <1>1, <3>1, <5>1, <5>2 DEF WillAsk
      <4>3. QED
        BY <2>3, <4>1, <4>2 DEF RequestDecides
    <3>3. QED
      BY <1>3, <3>1, <3>2
  <2>4. CASE RequestReopens(i)
    <3>1. CASE RowThere(i)
      <4>1. Says(i, <<"pending", "ask", "ack">>) /\ rows' = rows
        BY <2>4, <3>1 DEF RequestReopens, UpdateRow
      <4>2. /\ press'[i].at = "telling" /\ press'[i].row = p.row
            /\ press'[i].todo = <<"pending", "ask", "ack">>
        BY <1>2, <4>1 DEF Says, PressRecord
      <4>3. 2 \in DOMAIN press'[i].todo /\ press'[i].todo[2] = "ask"
        BY <4>2
      <4>4. p.row = rows[u]
        BY <1>6, <3>1 DEF RowThere
      <4>5. WillAsk(i, u)'
        BY <1>1, <1>6, <4>1, <4>2, <4>3, <4>4 DEF WillAsk
      <4>6. QED
        BY <4>5
    <3>2. CASE ~RowThere(i)
      <4>1. account' = account /\ rows' = rows /\ asked' = asked
        BY <2>4, <3>2 DEF RequestReopens, tellVars
      <4>2. ~WillAsk(i, u)
        BY <1>6, <3>2, <4>1 DEF RowThere, WillAsk
      <4>3. QED
        BY <1>3, <4>1, <4>2
    <3>3. QED
      BY <3>1, <3>2
  <2>5. CASE IssueWrites(i) \/ DenyWrites(i)
    <3>1. CASE RowThere(i)
      <4>1. account'[u] \in {"active", "denied"}
        BY <1>2, <1>6, <2>5, <3>1 DEF IssueWrites, DenyWrites, UpdateRow, Put
      <4>2. QED
        BY <4>1
    <3>2. CASE ~RowThere(i)
      <4>1. account' = account /\ rows' = rows /\ asked' = asked
        BY <2>5, <3>2 DEF IssueWrites, DenyWrites, tellVars
      <4>2. ~WillAsk(i, u)
        BY <1>6, <3>2, <4>1 DEF RowThere, WillAsk
      <4>3. QED
        BY <1>3, <4>1, <4>2
    <3>3. QED
      BY <3>1, <3>2
  <2>6. CASE Finish(i)
    <3>1. /\ p.at = "telling" /\ p.todo = <<>> /\ account' = account /\ rows' = rows
          /\ asked' = asked
      BY <2>6 DEF Finish, dataVars, tellVars
    <3>2. ~WillAsk(i, u)
      BY <3>1 DEF WillAsk
    <3>3. QED
      BY <1>3, <3>1, <3>2
  <2>7. QED
    BY <1>6, <2>1, <2>2, <2>3, <2>4, <2>5, <2>6 DEF Handles
<1>7. Writes(i) \/ Tell(i)
  BY HandlerWrites
<1>8. QED
  BY <1>4, <1>5, <1>6, <1>7

\* A press that comes, or goes on to a handler, asks nobody yet.
LEMMA PressesAnnounced ==
  ASSUME ProcessInv, Poll \/ \E i \in Press : PressButton(i) \/ Dispatch(i)
  PROVE  /\ account' = account /\ asked' = asked
         /\ \A u \in Asker : \A j \in Press : WillAsk(j, u) => WillAsk(j, u)'
<1>1. /\ account' = account /\ asked' = asked /\ rows' = rows
      /\ press \in [Press -> PressRecord]
  BY DEF Poll, PressButton, Dispatch, dataVars, tellVars, ProcessInv
<1>2. CASE Poll
  <2>1. ASSUME NEW j \in Press, press[j].at # "telegram"
        PROVE  /\ press'[j].at = press[j].at /\ press'[j].todo = press[j].todo
               /\ press'[j].about = press[j].about /\ press'[j].row = press[j].row
    <3>1. press[j] \in PressRecord
      BY <1>1
    <3>2. press'[j] = [press[j] EXCEPT !.confirmed = press[j].at # "unused"]
      BY <1>2, <2>1 DEF Poll
    <3>3. QED
      BY <3>1, <3>2 DEF PressRecord
  <2>2. QED
    BY <1>1, <2>1 DEF WillAsk
<1>3. ASSUME NEW i \in Press, PressButton(i) \/ Dispatch(i)
      PROVE  \A u \in Asker : \A j \in Press : WillAsk(j, u) => WillAsk(j, u)'
  <2>1. press[i].at \in {"unused", "channel"}
    BY <1>3 DEF PressButton, Dispatch
  <2>2. \A j \in Press \ {i} : press'[j] = press[j]
    BY <1>1, <1>3 DEF PressButton, Dispatch
  <2>3. \A u \in Asker : \A j \in Press \ {i} : WillAsk(j, u) => WillAsk(j, u)'
    BY <1>1, <2>2, OthersStillAsk
  <2>4. \A u \in Asker : ~WillAsk(i, u)
    BY <2>1 DEF WillAsk
  <2>5. QED
    BY <2>3, <2>4
<1>4. QED
  BY <1>1, <1>2, <1>3

\* A panel that is up and has seen no failure was not stopped before, and a failure
\* is not forgotten.
LEMMA UneventfulBefore ==
  ASSUME ProcessInv, [ProcessNext]_processVars, Uneventful'
  PROVE  /\ Uneventful /\ ~Fails /\ ~(\E i \in Press : SendFails(i))
         /\ process' = "up" \/ (process = "down" /\ process' = "down")
<1>1. /\ used.runs \in Nat /\ used.failures \in Nat /\ used.sends \in Nat
      /\ used'.runs \in Nat /\ used'.failures \in Nat /\ used'.sends \in Nat
      /\ used'.runs >= used.runs /\ used'.failures >= used.failures
      /\ used'.sends >= used.sends /\ RunsCounted /\ RunsCounted'
      /\ process \in {"down", "up", "draining"} /\ process' \in {"down", "up", "draining"}
      /\ (process # "up" /\ process' = "up") => used'.runs = used.runs + 1
  <2>1. press' \in [Press -> PressRecord]
    BY PressesKept
  <2>2. ProcessTypeOK' /\ ProcessTypeOK
    BY <2>1, TypesKept DEF ProcessInv
  <2>3. QED
    BY <2>2, CountersKept DEF ProcessInv, ProcessTypeOK
<1>2. used.failures = 0 /\ used.sends = 0
  BY <1>1 DEF Uneventful
<1>3. ~Fails
  BY <1>1, <1>2 DEF Fails, Uneventful, ProcessInv
<1>4. ~(\E i \in Press : SendFails(i))
  BY <1>1, <1>2 DEF SendFails, Uneventful, ProcessInv
<1>5. used.runs = 0 \/ (used.runs = 1 /\ process = "up")
  <2>1. CASE used'.runs = 0
    BY <1>1, <2>1
  <2>2. CASE used'.runs = 1 /\ process' = "up"
    BY <1>1, <2>2
  <2>3. QED
    BY <2>1, <2>2 DEF Uneventful
<1>6. process' = "up" \/ (process = "down" /\ process' = "down")
  <2>1. CASE used'.runs = 0
    <3>1. used.runs = 0
      BY <1>1, <2>1
    <3>2. QED
      BY <1>1, <2>1, <3>1 DEF RunsCounted
  <2>2. QED
    BY <2>1 DEF Uneventful
<1>7. QED
  BY <1>2, <1>3, <1>4, <1>5, <1>6 DEF Uneventful

\* Whatever else happens before the first failure and the first shutdown, a request
\* that is pending was put to the administrator or will be.
LEMMA StaysAnnounced ==
  ASSUME ProcessInv, Announced, [ProcessNext]_processVars, Uneventful',
         NEW u \in Asker, account'[u] = "pending", u \notin asked'
  PROVE  \E j \in Press : WillAsk(j, u)'
<1>1. /\ Uneventful /\ ~Fails /\ ~(\E i \in Press : SendFails(i))
      /\ process' = "up" \/ (process = "down" /\ process' = "down")
  BY UneventfulBefore
<1>2. account[u] = "pending" => u \in asked \/ \E j \in Press : WillAsk(j, u)
  BY <1>1 DEF Announced
<1>3. ASSUME account[u] = "pending", u \notin asked,
             \A j \in Press : WillAsk(j, u) => WillAsk(j, u)'
      PROVE  \E j \in Press : WillAsk(j, u)'
  BY <1>2, <1>3
<1>4. CASE StartUp \/ WebBegins \/ UNCHANGED processVars
  <2>1. account' = account /\ asked' = asked /\ rows' = rows /\ press' = press
    BY <1>4 DEF StartUp, WebBegins, processVars, dataVars, tellVars
  <2>2. QED
    BY <1>3, <2>1 DEF WillAsk
<1>5. ~StartFails /\ ~Killed /\ ~Signal /\ ~PollerStops /\ ~ShutdownGivesUp /\ ~Exit
  BY <1>1 DEF StartFails, Killed, Signal, PollerStops, ShutdownGivesUp, Exit, Vanish
<1>6. CASE Poll \/ \E i \in Press : PressButton(i) \/ Dispatch(i)
  BY <1>3, <1>6, PressesAnnounced
<1>7. CASE \E i \in Press : Handles(i)
  BY <1>2, <1>7, HandlesAnnounced
<1>8. CASE WebEnds
  <2>1. press' = press /\ asked' = asked /\ rows' = rows
    BY <1>8 DEF WebEnds, WebDecides, WebSets, dataVars, tellVars
  <2>2. account \in [Asker -> Statuses]
    BY DEF ProcessInv, ProcessTypeOK
  <2>3. account[u] = "pending"
    BY <1>8, <2>2 DEF WebEnds, WebDecides, WebSets, dataVars
  <2>4. QED
    BY <1>3, <2>1, <2>3 DEF WillAsk
<1>9. ~(\E i \in Press : StatementBreaks(i))
  <2> SUFFICES ASSUME NEW i \in Press, StatementBreaks(i)
               PROVE  FALSE
    OBVIOUS
  <2>1. /\ Fails \/ process # "up"
        /\ process' = process /\ process # "down"
    BY HandlerFrame DEF systemVars
  <2>2. QED
    BY <1>1, <2>1
<1>10. QED
  BY <1>1, <1>4, <1>5, <1>6, <1>7, <1>8, <1>9 DEF ProcessNext

\* As long as nothing failed and the panel, once started, stayed up, every pending
\* request is with the administrator or with a handler that will ask or issue.
THEOREM AnnouncedInvariant == ProcessSpec => []Announced
<1>1. ProcessInit => Announced
  BY DEF ProcessInit, Announced, Statuses
<1>2. ProcessInv /\ Announced /\ [ProcessNext]_processVars => Announced'
  <2> SUFFICES ASSUME ProcessInv, Announced, [ProcessNext]_processVars
               PROVE  Announced'
    OBVIOUS
  <2>1. ASSUME Uneventful', NEW u \in Asker, account'[u] = "pending", u \notin asked'
        PROVE  \E j \in Press : WillAsk(j, u)'
    BY <2>1, StaysAnnounced
  <2>2. QED
    BY <2>1 DEF Announced
<1>3. QED
  BY <1>1, <1>2, ProcessInvariant, PTL DEF ProcessSpec

\* Without failures, lost sends and a shutdown, every pending request has been put
\* to the administrator once the handlers are done, for any number of users and
\* presses that race with each other and with the panel, deletions included.
THEOREM PendingReachesAdmin == ProcessSpec => []PendingIsAnnounced
<1>1. Announced => PendingIsAnnounced
  BY DEF Announced, PendingIsAnnounced, Resting, Uneventful, WillAsk
<1>2. QED
  BY <1>1, AnnouncedInvariant, PTL
==============================================================================

------------------------------- MODULE UserList -------------------------------
(***************************************************************************)
(* The user list of the panel: the query that internal/store builds for it *)
(* and sorts in SQL, what internal/httpserver sorts again, and the badge   *)
(* with the number of pending requests, which is a second query.           *)
(*                                                                         *)
(* FilterAndSort does the same in memory and is called by tests only; here *)
(* it is the reference.  For sorting a text is its place in the alphabet,  *)
(* for searching the letters it consists of.                               *)
(***************************************************************************)
EXTENDS Ranking, Integers, Sequences, SequencesExt

CONSTANTS
  Tables,     \* the tables to begin with: sets of rows
  Queries,    \* what is searched for, without the spaces around it; or nothing
  Later,      \* a time after all others
  MaxWrites   \* bound: writes of other requests in one behaviour

Column == {"telegram_id", "name", "status", "requested_at", "issued_at"}

\* frac: the digits of the fraction of the second, without trailing zeros.
Time == [sec : Nat, frac : Seq(0 .. 9)]

Null == <<>>

\* Latin and Cyrillic letters, a digit, and the two wildcards of SQL.
Letter == {"a", "A", "d", "p", "r", "ya", "YA", "1", "_", "%"}

Searched == {"telegram_id", "username", "first_name", "last_name"}

\* A text column that is NULL is 0 in an order and empty in a search; a time that
\* is NULL is Null.
ListRow ==
  [id : Nat, telegram_id : Nat, username : Nat, name : Nat,
   status : {"active", "denied", "pending", "revoked"},
   requested_at : Time \cup {Null}, issued_at : Time \cup {Null},
   text : [Searched -> Seq(Letter)]]

ASSUME ListAssumption ==
  /\ Queries \subseteq Seq(Letter)
  /\ \A table \in Tables :
       /\ table \subseteq ListRow /\ IsFiniteSet(table)
       /\ \A r, s \in table :
            r # s => r.id # s.id /\ r.telegram_id # s.telegram_id
  /\ Later \in Time /\ MaxWrites \in Nat

VARIABLES
  table,      \* the rows of users
  request,    \* the query string of the request
  page,       \* the rows to show
  badge,      \* PendingCount
  listAt,     \* where the handler is
  listed,     \* history: the table when it was queried
  overtaken,  \* history: another request wrote between the two queries
  writes      \* writes so far

listVars == <<table, request, page, badge, listAt, listed, overtaken, writes>>

Request == [sort : Column \cup {"bogus"}, desc : BOOLEAN, pending : BOOLEAN,
            search : Queries \cup {<<>>}]

NoRequest ==
  [sort |-> "requested_at", desc |-> TRUE, pending |-> FALSE, search |-> <<>>]

ListInit ==
  /\ table \in Tables
  /\ request = NoRequest
  /\ page = <<>> /\ badge = 0 /\ listAt = "idle"
  /\ listed = table /\ overtaken = FALSE /\ writes = 0

parseSortColumn(v) == IF v \in Column THEN v ELSE "requested_at"

------------------------------------------------------------------------------
(* Orders.                                                                 *)

\* Texts compare from the left; NULL comes first.
TextLess(s, t) ==
  \/ s = Null /\ t # Null
  \/ \E i \in DOMAIN s \cap DOMAIN t :
       s[i] < t[i] /\ \A j \in 1 .. i - 1 : s[j] = t[j]

\* RFC3339Nano drops trailing zeros and the point before them, and ends in a Z,
\* which is greater than the point and all digits.
Z == 10

formatTime(t) == IF t = Null THEN Null ELSE <<t.sec>> \o t.frac \o <<Z>>

\* What the time is.
Digits == 9

Instant(t) ==
  IF t = Null THEN Null
  ELSE <<t.sec>>
       \o [i \in 1 .. Digits |-> IF i \in DOMAIN t.frac THEN t.frac[i] ELSE 0]

lessTimePtr(s, t) == TextLess(Instant(s), Instant(t))

StatusText ==
  [active |-> <<1>>, denied |-> <<2>>, pending |-> <<3>>, revoked |-> <<4>>]

\* storeSortColumn: the list is to be sorted by name, its query by username.
SqlKey(col, r) ==
  CASE col = "telegram_id" -> <<r.telegram_id>>
    [] col = "name" -> <<r.username>>
    [] col = "status" -> StatusText[r.status]
    [] col = "issued_at" -> formatTime(r.issued_at)
    [] col = "requested_at" -> formatTime(r.requested_at)

\* The order of sortUsers.
Less(col, r, s) ==
  CASE col = "telegram_id" -> r.telegram_id < s.telegram_id
    [] col = "name" -> r.name < s.name
    [] col = "status" ->
         \/ TextLess(StatusText[r.status], StatusText[s.status])
         \/ r.status = s.status /\ r.telegram_id < s.telegram_id
    [] col = "issued_at" -> lessTimePtr(r.issued_at, s.issued_at)
    [] col = "requested_at" -> lessTimePtr(r.requested_at, s.requested_at)

\* sort.SliceStable.
sortUsers(rows, col, desc) ==
  LET Before(i, j) ==
        IF desc THEN Less(col, rows[j], rows[i]) ELSE Less(col, rows[i], rows[j])
      places == DOMAIN rows
      order == Ranked(places,
                 {p \in places \X places :
                    \/ Before(p[1], p[2])
                    \/ ~Before(p[2], p[1]) /\ p[1] < p[2]})
  IN [k \in places |-> rows[order[k]]]

------------------------------------------------------------------------------
(* Searches.                                                               *)

\* strings.ToLower.
ToLower(c) == CASE c = "A" -> "a" [] c = "YA" -> "ya" [] OTHER -> c

\* LIKE knows the case of ASCII letters only.
AsciiLower(c) == IF c = "A" THEN "a" ELSE c

\* strings.Contains, both texts in lower case.
LowerContains(t, q) ==
  \E n \in 0 .. Len(t) - Len(q) :
    \A i \in DOMAIN q : ToLower(t[n + i]) = ToLower(q[i])

\* t LIKE p: after the i-th character of the pattern end[i] characters are matched,
\* "%" being any number of them and "_" any one.
Like(t, p) ==
  \E end \in [0 .. Len(p) -> 0 .. Len(t)] :
    /\ end[0] = 0 /\ end[Len(p)] = Len(t)
    /\ \A i \in DOMAIN p :
         IF p[i] = "%" THEN end[i - 1] <= end[i]
         ELSE /\ end[i] = end[i - 1] + 1
              /\ p[i] = "_" \/ AsciiLower(t[end[i]]) = AsciiLower(p[i])

\* The query's own wildcards are not escaped.
Pattern(q) == <<"%">> \o q \o <<"%">>

\* userMatches.  Of the status' word the first letter.
StatusWord ==
  [active |-> <<"a">>, denied |-> <<"d">>, pending |-> <<"p">>, revoked |-> <<"r">>]

HasText(r, q) == \E c \in Searched : LowerContains(r.text[c], q)

userMatches(r, q) == HasText(r, q) \/ LowerContains(StatusWord[r.status], q)

------------------------------------------------------------------------------
(* The two queries.                                                        *)

\* Mutant: no parentheses around the ORs.
SelectsLoosely(q) ==
  {r \in table :
     \/ /\ q.pending => r.status = "pending"
        /\ Like(r.text["telegram_id"], Pattern(q.search))
     \/ q.search = <<>>
     \/ \E c \in Searched \ {"telegram_id"} : Like(r.text[c], Pattern(q.search))}

\* WHERE: the pending filter, and four columns to search, not the status.
Selected(q) ==
  {r \in table :
     /\ q.pending => r.status = "pending"
     /\ q.search # <<>> => \E c \in Searched : Like(r.text[c], Pattern(q.search))}

\* ORDER BY the column, in the direction asked for, and id DESC.
ListUsers(q) ==
  LET Key(r) == SqlKey(parseSortColumn(q.sort), r)
      Before(r, s) ==
        IF q.desc THEN TextLess(Key(s), Key(r)) ELSE TextLess(Key(r), Key(s))
  IN Ranked(Selected(q),
       {p \in Selected(q) \X Selected(q) :
          \/ Before(p[1], p[2])
          \/ ~Before(p[2], p[1]) /\ p[1].id > p[2].id})

CountPendingUsers == Cardinality({r \in table : r.status = "pending"})

FilterAndSort(rows, q) ==
  LET matching ==
        EntriesAt(rows, {i \in DOMAIN rows :
                           q.search # <<>> => userMatches(rows[i], q.search)})
  IN sortUsers(matching, parseSortColumn(q.sort), q.desc)

FilterPending(rows) ==
  EntriesAt(rows, {i \in DOMAIN rows : rows[i].status = "pending"})

------------------------------------------------------------------------------
(* userListData, and what other requests do meanwhile.                     *)

Get ==
  /\ listAt = "idle"
  /\ request' \in Request
  /\ listAt' = "list"
  /\ UNCHANGED <<table, page, badge, listed, overtaken, writes>>

\* Mutant: the order by username stays.
ListsUnsorted ==
  /\ listAt = "list"
  /\ page' = ListUsers(request)
  /\ listed' = table
  /\ listAt' = "count"
  /\ UNCHANGED <<table, request, badge, overtaken, writes>>

List ==
  /\ listAt = "list"
  /\ page' = LET rows == ListUsers(request)
             IN IF request.sort = "name" THEN sortUsers(rows, "name", request.desc)
                ELSE rows
  /\ listed' = table
  /\ listAt' = "count"
  /\ UNCHANGED <<table, request, badge, overtaken, writes>>

Count ==
  /\ listAt = "count"
  /\ badge' = CountPendingUsers
  /\ listAt' = "shown"
  /\ UNCHANGED <<table, request, page, listed, overtaken, writes>>

Render ==
  /\ listAt = "shown"
  /\ listAt' = "idle"
  /\ request' = NoRequest /\ page' = <<>> /\ badge' = 0
  /\ listed' = table /\ overtaken' = FALSE
  /\ UNCHANGED <<table, writes>>

Written(r, status) ==
  [r EXCEPT !.status = status,
            !.requested_at = IF status = "pending" THEN Later ELSE @,
            !.issued_at = IF status = "active" THEN Later ELSE @]

\* A row is updated or deleted by another request.
Write ==
  /\ writes < MaxWrites
  /\ writes' = writes + 1
  /\ \E r \in table :
       \/ table' = table \ {r}
       \/ \E status \in {"active", "denied", "pending", "revoked"} \ {r.status} :
            table' = (table \ {r}) \cup {Written(r, status)}
  /\ overtaken' = (overtaken \/ listAt = "count")
  /\ UNCHANGED <<request, page, badge, listAt, listed>>

ListNext == Get \/ List \/ Count \/ Render \/ Write

ListSpec == ListInit /\ [][ListNext]_listVars

------------------------------------------------------------------------------
(* Properties.                                                             *)

\* Rows have a status and a primary key, requests stay in their ranges.
ListTypeOK ==
  /\ \A r, s \in table : r.id = s.id => r = s
  /\ \A r \in table \cup ToSet(page) : r.status \in DOMAIN StatusText
  /\ request \in Request /\ badge \in Nat /\ writes \in 0 .. MaxWrites
  /\ listAt \in {"idle", "list", "count", "shown"}

\* ToLower and LIKE take its letters for the same.
FoldsAlike(t) == \A i \in DOMAIN t : ToLower(t[i]) = AsciiLower(t[i])

Shows(r, q) ==
  /\ FoldsAlike(q) /\ \A c \in Searched : FoldsAlike(r.text[c])
  /\ q # <<>> => HasText(r, q)

\* The SQL of ListUsers against FilterAndSort and FilterPending: the page has every
\* row that they select, each once, unless only its status matches or a capital
\* that is not ASCII is looked for or looked at; and it has no other rows, unless
\* the query has a wildcard.  The badge counts the requests of that table, unless
\* something was written between the queries.
PageMirrorsFilter ==
  listAt \in {"count", "shown"} =>
    LET all == SetToSeq(listed)
        q == request.search
        shown == IF request.pending THEN FilterPending(all) ELSE all
        reference == FilterAndSort(shown, request)
    IN /\ {r \in ToSet(reference) : Shows(r, q)} \subseteq ToSet(page)
       /\ ToSet(page) \subseteq IF ToSet(q) \cap {"%", "_"} = {} THEN ToSet(reference)
                                ELSE ToSet(shown)
       /\ Len(page) = Cardinality(ToSet(page))
       /\ (listAt = "shown" /\ ~overtaken) => badge = Len(FilterPending(all))

\* Newest, highest or last first, or the other way round: the page is in the
\* order of sortUsers, whichever of the two sorts it is.  Not so two times in
\* one second, which SQL compares as texts of different lengths.
InOneSecond(col, r, s) ==
  /\ col \in {"requested_at", "issued_at"}
  /\ r[col] # Null /\ s[col] # Null
  /\ r[col].sec = s[col].sec

PageSorted ==
  LET col == parseSortColumn(request.sort)
  IN \A i, j \in DOMAIN page :
       i < j =>
         \/ ~(IF request.desc THEN Less(col, page[i], page[j])
              ELSE Less(col, page[j], page[i]))
         \/ col = "status" /\ page[i].status = page[j].status
         \/ InOneSecond(col, page[i], page[j])
==============================================================================

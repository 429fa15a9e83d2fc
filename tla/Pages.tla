-------------------------------- MODULE Pages --------------------------------
(***************************************************************************)
(* Lists that are read page by page while they change: the comments of a   *)
(* market (src/src/markets/comments/service.rs) and the favorite markets   *)
(* of a user (src/src/markets/favorites/service.rs).  The two page alike   *)
(* and change differently; a behaviour is about one of them.               *)
(*                                                                         *)
(* A writer stamps its row before the row is in the table, so rows do not  *)
(* appear in the order of their times, and two can have the same time.  A  *)
(* client reads a page with one request, in which the row of the cursor is *)
(* looked up before the page is queried.  Ids are random: the order of two *)
(* rows with the same time is arbitrary, and fixed.                        *)
(***************************************************************************)
EXTENDS Integers, FiniteSets

CONSTANTS
    RowIds,         \* uuids, in their order
    Topics,         \* markets, for the favorites
    PageSizes,      \* limits that requests ask for, 1 to 100
    MaxTime,        \* bound on the clock
    NoRow           \* no cursor

ASSUME RowIdsAssumption == RowIds \subseteq Nat /\ NoRow \notin RowIds
ASSUME PageSizesAssumption == PageSizes \subseteq Nat \ {0}

VARIABLES
    list,           \* which of the two lists this is
    time,
    rows,           \* the table: the rows of this market, or of this user
    stamped,        \* rows that are about to be inserted
    reader,         \* the client that reads, and the locals of its request
    shown,          \* what it has been shown
    returned,       \* how many rows the pages had
    whole           \* rows it must be shown: there at its first page, and not removed since

seen == <<shown, returned, whole>>
pageVars == <<list, time, rows, stamped, reader, seen>>
-----------------------------------------------------------------------------
StoredRows == [id : RowIds, topic : Topics, at : 0..MaxTime]

Resting == [stage |-> "first", cursor |-> NoRow, position |-> {}]

PagesInit ==
    /\ list \in {"comments", "favorites"}
    /\ time = 0
    /\ rows = {} /\ stamped = {}
    /\ reader = Resting
    /\ shown = {} /\ returned = 0 /\ whole = {}

\* ORDER BY created_at DESC, id DESC
Newer(r, s) == r.at > s.at \/ (r.at = s.at /\ r.id > s.id)

\* Mutation: the cursor is compared by its time alone.
Before_TimeOnly(some, position) ==
    {r \in some : \A p \in position : r.at < p.at}

\* The rows that come after the cursor's in the list, if there is a cursor.
Before(some, position) ==
    {r \in some : \A p \in position : Newer(p, r)}

Newest(some, n) == {r \in some : Cardinality({s \in some : Newer(s, r)}) < n}
Oldest(some) == CHOOSE r \in some : \A s \in some \ {r} : Newer(s, r)
-----------------------------------------------------------------------------
Tick ==
    /\ time < MaxTime
    /\ time' = time + 1
    /\ UNCHANGED <<list, rows, stamped, reader, seen>>

\* create, or favorite, up to its INSERT.
Stamp(id, topic) ==
    /\ id \notin {r.id : r \in rows \cup stamped \cup shown}
    /\ stamped' = stamped \cup {[id |-> id, topic |-> topic, at |-> time]}
    /\ UNCHANGED <<list, time, rows, reader, seen>>

\* ON CONFLICT DO NOTHING, for a market that is a favorite already.
InsertRow(r) ==
    /\ r \in stamped
    /\ stamped' = stamped \ {r}
    /\ \/ /\ list = "comments" \/ \A s \in rows : s.topic # r.topic
          /\ rows' = rows \cup {r}
       \/ /\ list = "favorites" /\ \E s \in rows : s.topic = r.topic
          /\ UNCHANGED rows
       \* The insert fails, or the request is gone.
       \/ UNCHANGED rows
    /\ UNCHANGED <<list, time, reader, seen>>

\* unfavorite
RemoveFavorite(topic) ==
    LET others == {r \in rows : r.topic # topic} IN
    /\ list = "favorites"
    /\ rows' = others
    /\ whole' = whole \cap others
    /\ UNCHANGED <<list, time, stamped, reader, shown, returned>>

\* list, given a cursor: an error when its row is not there any more, and all
\* the client can do is begin again.
FindCursor ==
    /\ reader.stage = "next"
    /\ \/ \E r \in rows : /\ r.id = reader.cursor
                          /\ reader' = [reader EXCEPT !.stage = "query", !.position = {r}]
                          /\ UNCHANGED seen
       \/ /\ \A r \in rows : r.id # reader.cursor
          /\ reader' = Resting
          /\ shown' = {} /\ returned' = 0 /\ whole' = {}
    /\ UNCHANGED <<list, time, rows, stamped>>

\* list: limit + 1 rows are queried, to know whether there are more.
QueryPage(n) ==
    LET found == Newest(Before(rows, reader.position), n + 1)
        page == Newest(found, n)
        hasMore == Cardinality(found) > n
    IN
    /\ reader.stage \in {"first", "query"}
    /\ shown' = shown \cup page
    /\ returned' = returned + Cardinality(page)
    /\ whole' = IF reader.stage = "first" THEN rows ELSE whole
    /\ reader' = [stage |-> IF hasMore THEN "next" ELSE "done", position |-> {},
                  cursor |-> IF hasMore THEN Oldest(page).id ELSE NoRow]
    /\ UNCHANGED <<list, time, rows, stamped>>

\* The query fails, and the client asks for the page again.
RetryPage ==
    /\ reader.stage = "query"
    /\ reader' = [reader EXCEPT !.stage = "next", !.position = {}]
    /\ UNCHANGED <<list, time, rows, stamped, seen>>

PagesNext ==
    \/ Tick
    \/ \E id \in RowIds, topic \in Topics : Stamp(id, topic)
    \/ \E r \in stamped : InsertRow(r)
    \/ \E topic \in Topics : RemoveFavorite(topic)
    \/ FindCursor \/ RetryPage
    \/ \E n \in PageSizes : QueryPage(n)

PagesSpec == PagesInit /\ [][PagesNext]_pageVars
-----------------------------------------------------------------------------
(* Properties.                                                             *)

(* The pages are exact, whatever is written meanwhile and with a limit     *)
(* that changes from page to page: none shows a row again, and what was    *)
(* there when the first was read, and still is, has been shown once the    *)
(* list has come past it (list, of comments and of favorites).             *)
PagesAreExact ==
    /\ returned = Cardinality(shown)
    /\ \A r \in whole \ shown :
        /\ reader.stage # "done"
        /\ \A c \in shown : reader.cursor = c.id => Newer(c, r)
=============================================================================

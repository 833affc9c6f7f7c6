----------------------------- MODULE Pagination -----------------------------
(* Keyset pagination (src/app/core/pagination.py).  A row is known by its    *)
(* position <<sort value, id>>; a query is the set of the positions of the   *)
(* rows it selects at the time it runs.                                      *)
EXTENDS Integers, Sequences, FiniteSets, SequencesExt

CONSTANTS
    NoCursor,       \* no cursor in the request, or in the answer
    Positions,      \* positions of the rows of a listed table
    MAX_PAGE_SIZE   \* the greatest limit a request may ask for

\* The tokens that stand for a position.
CursorToken == [v : Int, id : Int]

ASSUME PaginationAssumption ==
    /\ Positions \subseteq Int \X Int /\ IsFiniteSet(Positions)
    /\ MAX_PAGE_SIZE \in Nat \ {0}
    /\ NoCursor \notin CursorToken

\* cursor, direction and limit of a request, after validation.
CursorParams(cursor, direction, limit) ==
    [cursor |-> cursor, direction |-> direction, limit |-> limit]

\* SQL row comparison (a, b) < (c, d).
Below(a, b) == a[1] < b[1] \/ (a[1] = b[1] /\ a[2] < b[2])

\* A token carries the sort value and the id of one row.
encode_cursor(sort_value, row_id) == [v |-> sort_value, id |-> row_id]
decode_cursor(cursor) == <<cursor.v, cursor.id>>

\* The rows strictly on one side of a boundary.
Side(query, boundary, lower) ==
    {x \in query : IF lower THEN Below(x, boundary) ELSE Below(boundary, x)}

\* The display order of a list, ascending or descending.
Before(a, b, desc) == IF desc THEN Below(b, a) ELSE Below(a, b)

\* ORDER BY sort column, id.
OrderBy(rows, desc) ==
    CHOOSE s \in [1..Cardinality(rows) -> rows] :
        \A m, n \in DOMAIN s : m < n => Before(s[m], s[n], desc)

\* The direction of the fetch: that of the display, reversed for "prev".
FetchDescending(params, descending) ==
    IF params.direction = "next" THEN descending ELSE ~descending

\* Mutant: no row more than the limit, so no page seems to have another after it.
FetchedToLimit(query, params, descending) ==
    LET desc == FetchDescending(params, descending)
        rows == IF params.cursor = NoCursor THEN query
                ELSE Side(query, decode_cursor(params.cursor), desc)
        all == OrderBy(rows, desc)
    IN SubSeq(all, 1, IF Len(all) < params.limit THEN Len(all) ELSE params.limit)

\* One row more than the limit is fetched.
Fetched(query, params, descending) ==
    LET desc == FetchDescending(params, descending)
        rows == IF params.cursor = NoCursor THEN query
                ELSE Side(query, decode_cursor(params.cursor), desc)
        all == OrderBy(rows, desc)
    IN SubSeq(all, 1, IF Len(all) < params.limit + 1 THEN Len(all) ELSE params.limit + 1)

HasMore(fetched, params) == Len(fetched) > params.limit

\* The page in display order.
Items(fetched, params) ==
    LET page == IF HasMore(fetched, params) THEN SubSeq(fetched, 1, params.limit) ELSE fetched
    IN IF params.direction = "prev" THEN Reverse(page) ELSE page

ExistsBeyond(query, boundary, after, descending) ==
    Side(query, boundary, IF after THEN descending ELSE ~descending) # {}

EmptyPage == [items |-> <<>>, next_cursor |-> NoCursor, previous_cursor |-> NoCursor,
              has_next |-> FALSE, has_previous |-> FALSE]

paginate_by_cursor(query, params, descending) ==
    LET fetched == Fetched(query, params, descending)
        items == Items(fetched, params)
        more == HasMore(fetched, params)
        first == items[1]
        last == items[Len(items)]
        forward == params.direction = "next"
        has_next == IF forward THEN more ELSE ExistsBeyond(query, last, TRUE, descending)
        has_previous ==
            IF forward
            THEN params.cursor # NoCursor /\ ExistsBeyond(query, first, FALSE, descending)
            ELSE more
    IN IF items = <<>> THEN EmptyPage
       ELSE [items |-> items,
             next_cursor |-> IF has_next THEN encode_cursor(last[1], last[2]) ELSE NoCursor,
             previous_cursor |-> IF has_previous THEN encode_cursor(first[1], first[2]) ELSE NoCursor,
             has_next |-> has_next,
             has_previous |-> has_previous]
-----------------------------------------------------------------------------
(* Properties *)

\* What a page should be: the nearest rows beyond the cursor, at most limit of
\* them, in display order, and flags that tell whether rows lie before and
\* after it.
PageRight(rows, params, desc) ==
    LET page == paginate_by_cursor(rows, params, desc)
        items == Range(page.items)
        forward == params.direction = "next"
        nearer(a, b) == IF forward THEN Before(a, b, desc) ELSE Before(b, a, desc)
        ahead == {x \in rows : params.cursor # NoCursor => nearer(decode_cursor(params.cursor), x)}
    IN /\ \A m, n \in DOMAIN page.items : m < n => Before(page.items[m], page.items[n], desc)
       /\ items \subseteq ahead
       /\ Len(page.items) = (IF Cardinality(ahead) < params.limit THEN Cardinality(ahead) ELSE params.limit)
       /\ \A a \in ahead \ items, b \in items : nearer(b, a)
       /\ items # {} =>
            /\ page.has_next = (\E x \in rows : \A b \in items : Before(b, x, desc))
            /\ (params.cursor # NoCursor \/ ~forward) =>
                  page.has_previous = (\E x \in rows : \A b \in items : Before(x, b, desc))

\* Every page of every table is right, whatever the cursor (of a row that is
\* still there or not), the direction, the limit and the display order, with
\* tied sort values too (pagination.py, paginate_by_cursor).
PagesRight ==
    \A rows \in SUBSET Positions, c \in {NoCursor} \union {encode_cursor(p[1], p[2]) : p \in Positions},
       d \in {"next", "prev"}, l \in 1..MAX_PAGE_SIZE, desc \in BOOLEAN :
        PageRight(rows, CursorParams(c, d, l), desc)
=============================================================================

--------------------------- MODULE CandidateSearch --------------------------
(* The search of candidates by HR (GET /candidates/search/), a composition   *)
(* of the encrypted tables (Encryption), whose resume texts it finds through *)
(* the blind index, and of keyset pagination (Pagination): an HR user walks  *)
(* through the pages of one search while processes are replaced, rows are    *)
(* written and the sweeps of a key rotation rewrite them.                    *)
(* Sources: src/app/routers/candidates.py, src/app/core/search_query.py.     *)
EXTENDS Encryption, Pagination

CONSTANTS
    Searches,       \* the search requests: q, skills, years and score
    Applied,        \* candidates with an application to the tenant's jobs
    ScoresOf,       \* score_ai of a candidate's applications to them
    YearsOf,        \* years of experience found in a resume
    SkillsOf,       \* skills found in a resume
    PageLimit       \* limit of a page

\* A search text is a sequence of segments of raw words.
ASSUME SearchAssumption ==
    /\ \A f \in Searches : f.q \in Seq([op : {"&", "|"}, words : SUBSET DOMAIN SplitWord])
    /\ PageLimit \in 1..MAX_PAGE_SIZE

VARIABLE walk       \* the pages an HR user has read of one search

vars == <<encVars, walk>>
-----------------------------------------------------------------------------
(* The text condition.  q is the sequence of the segments between operators, *)
(* each with the operator in front of it ("&" for the first).                *)

\* Segments without a word are dropped.
parse_search_query(q) ==
    LET words(n) == resume_search_words(q[n].words)
        terms[n \in 0..Len(q)] ==
            IF n = 0 THEN <<>>
            ELSE IF words(n) = {} THEN terms[n - 1]
            ELSE Append(terms[n - 1], [op |-> q[n].op, words |-> words(n)])
    IN terms[Len(q)]

\* search_tokens @> {tokens of the words}; false on a NULL column.
HoldsAll(tokens, index, words) ==
    tokens # NULL /\ {blind_index_token(index, w) : w \in words} \subseteq tokens

\* The terms are combined from left to right, without precedence.
resume_blind_index_condition(q, index, tokens) ==
    LET terms == parse_search_query(q)
        holds(n) == HoldsAll(tokens, index, terms[n].words)
        combined[n \in 1..Len(terms)] ==
            IF n = 1 THEN holds(1)
            ELSE IF terms[n].op = "|" THEN combined[n - 1] \/ holds(n)
            ELSE combined[n - 1] /\ holds(n)
    IN combined[Len(terms)]

ResumesOf(c) == {r \in Resumes : OwnerOf[r] = c}

\* Each filter asks for one resume (or application) of its own; all filters
\* of a request must hold.
Selects(f, index, c) ==
    /\ c \in Applied
    /\ parse_search_query(f.q) # <<>> =>
          \E r \in ResumesOf(c) : resume_blind_index_condition(f.q, index, resumes[r].search_tokens)
    /\ f.years # NULL => \E r \in ResumesOf(c) : resumes[r].skill_analysis /\ YearsOf[r] >= f.years
    /\ f.score # NULL => \E s \in ScoresOf[c] : s >= f.score
    /\ \A k \in f.skills : \E r \in ResumesOf(c) : resumes[r].skill_analysis /\ k \in SkillsOf[r]

\* The candidates a process with this blind index key finds, as positions:
\* the page order is that of the candidate's id.
search_candidates(f, index) == {<<c, c>> : c \in {c \in Candidates : Selects(f, index, c)}}
-----------------------------------------------------------------------------
NoWalk == [on |-> FALSE, search |-> NULL, direction |-> "next", page |-> EmptyPage,
           seen |-> <<>>, steady |-> {}]

\* One request of the walk, served by process i: the names of all the rows
\* fetched are decrypted, so the request fails when one cannot be.
Page(i, f, params) ==
    LET ring == Keyring[version[i]]
        found == search_candidates(f, ring.index) IN
    /\ version[i] > 1
    /\ \A x \in Range(Fetched(found, params, FALSE)) :
           Loads(ring, "candidates", candidates[x[2]])
    /\ walk' = [on |-> TRUE, search |-> f, direction |-> params.direction,
                page |-> paginate_by_cursor(found, params, FALSE),
                seen |-> LET items == paginate_by_cursor(found, params, FALSE).items
                         IN IF params.direction = "next" THEN walk.seen \o items
                            ELSE items \o walk.seen,
                steady |-> IF walk.on THEN walk.steady \cap found ELSE found]

FirstPage(i, f) ==
    /\ ~walk.on
    /\ Page(i, f, CursorParams(NoCursor, "next", PageLimit))
    /\ UNCHANGED encVars

NextPage(i) ==
    /\ walk.on /\ walk.direction = "next" /\ walk.page.has_next
    /\ Page(i, walk.search, CursorParams(walk.page.next_cursor, "next", PageLimit))
    /\ UNCHANGED encVars

\* Back at the last page the user returns the way he came.
Turn ==
    /\ walk.on /\ walk.direction = "next" /\ ~walk.page.has_next /\ walk.page.has_previous
    /\ walk' = [walk EXCEPT !.direction = "prev", !.seen = walk.page.items]
    /\ UNCHANGED encVars

PreviousPage(i) ==
    /\ walk.on /\ walk.direction = "prev" /\ walk.page.has_previous
    /\ Page(i, walk.search, CursorParams(walk.page.previous_cursor, "prev", PageLimit))
    /\ UNCHANGED encVars

Init == EncInit /\ walk = NoWalk

Next ==
    \/ EncNext /\ UNCHANGED walk
    \/ \E i \in Instances, f \in Searches : FirstPage(i, f)
    \/ \E i \in Instances : NextPage(i) \/ PreviousPage(i)
    \/ Turn

Spec == Init /\ [][Next]_vars
-----------------------------------------------------------------------------
(* Properties *)

\* What a search should find, on the plain text: some term that starts an
\* alternative holds and so does every conjunct after it.
TextMatches(q, words) ==
    LET terms == parse_search_query(q) IN
    \E j \in DOMAIN terms :
        /\ j = 1 \/ terms[j].op = "|"
        /\ terms[j].words \subseteq words
        /\ \A l \in j + 1 .. Len(terms) : terms[l].op = "&" => terms[l].words \subseteq words

\* A sweep wrote an older copy over what a request or job had committed.
Overwritten(r) == (r \in committed) # (resumes[r].raw_text # NULL)

\* When no sweep is due, the blind index finds exactly the candidates whose
\* text matches, whatever old containers, jobs, crashes of a sweep and the
\* change of the index key came before (search_query.py, crypto.py, the
\* listener of Resume.raw_text); rows whose text a sweep overwrote aside.
SearchExact ==
    (deploy > 1 /\ Settled /\ due = <<>>) =>
        \A f \in Searches, c \in Applied :
            (\A r \in ResumesOf(c) : ~Overwritten(r)) /\ parse_search_query(f.q) # <<>> =>
                \A r \in ResumesOf(c) :
                    resume_blind_index_condition(f.q, Keyring[deploy].index, resumes[r].search_tokens)
                        = (r \in committed /\ TextMatches(f.q, resume_search_words(TextOf[r])))

\* A walk shows no candidate twice, in either direction, and when it ends it
\* has shown every candidate that matched at each of its requests, although
\* other rows came, went and were rewritten between the pages.
PagesExact ==
    /\ IsInjective(walk.seen)
    /\ \A m, n \in DOMAIN walk.seen : m < n => Below(walk.seen[m], walk.seen[n])
    /\ (walk.on /\ walk.direction = "next" /\ ~walk.page.has_next) => walk.steady \subseteq Range(walk.seen)
    /\ (walk.on /\ walk.direction = "prev" /\ ~walk.page.has_previous) => walk.steady \subseteq Range(walk.seen)

\* Pages of a walk under concurrent changes, and single pages of every kind
\* (candidates.py, search_candidates; pagination.py, paginate_by_cursor).
PagesSound == PagesExact /\ PagesRight
=============================================================================

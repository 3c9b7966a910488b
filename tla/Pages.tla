-------------------------------- MODULE Pages --------------------------------
(***************************************************************************)
(* Walks over lists that a server hands out page by page.                  *)
(*   - A host reads an account's list with read_page of src/account.rs and *)
(*     goes on at next_offset as long as there is one.  Every answer is    *)
(*     checked by parse_page.                                              *)
(*   - A Pager of src/pagination.rs walks over pages or over the comments  *)
(*     of a song (src/modules/comment.rs).                                 *)
(* Rows are numbered from 0, what they contain is left out.                *)
(***************************************************************************)
EXTENDS Integers, Sequences, FiniteSets

CONSTANTS
    Absent,     \* a field the server leaves out
    Limit,      \* rows asked for at once
    MaxTotal,   \* bound: rows of a list
    MaxPage,    \* the largest page number that can be represented
    PageLimits, \* with_limit of a Pager, Absent for none
    NoParams    \* current_params: None

ASSUME PagesAssumption ==
    /\ Limit \in Nat \ {0} /\ MaxTotal \in Nat /\ MaxPage \in Nat \ {0}
    /\ Absent \notin Int /\ NoParams \notin Int
    /\ PageLimits \subseteq Nat \cup {Absent}

Operations == {"songs", "lists"}

\* The fields of an answer that parse_page looks at: the offset it repeats,
\* the total, the number of rows, hasmore and has_more, bFinish, its codes.
Response == [begin : (0 .. MaxTotal) \cup {Absent}, total : (0 .. MaxTotal) \cup {Absent},
             rows : 0 .. Limit + 1, more : BOOLEAN \cup {Absent},
             finish : BOOLEAN \cup {Absent}, code : {0, 1}]

Refused == [accepted |-> FALSE, next |-> Absent]

\* The continuation flags an operation looks at: bFinish only for lists of
\* playlists, where it is inverted.
Flags(op, resp) ==
    (IF resp.more = Absent THEN {} ELSE {resp.more})
    \cup (IF op # "lists" \/ resp.finish = Absent THEN {} ELSE {~resp.finish})

\* What an answer says about going on: the flags if there are any, else the
\* total, else whether it has rows.
HasMore(op, resp, next) ==
    IF Flags(op, resp) # {} THEN TRUE \in Flags(op, resp)
    ELSE IF resp.total # Absent THEN next < resp.total
    ELSE resp.rows > 0

\* Mutant of ParsePage: a short page is the last.
ParsePageShort(op, offset, resp) ==
    LET next == offset + resp.rows IN
    IF resp.code # 0 \/ resp.rows > Limit \/ (resp.rows = 0 /\ HasMore(op, resp, next)) THEN Refused
    ELSE [accepted |-> TRUE, next |-> IF resp.rows < Limit THEN Absent ELSE next]
\* parse_page: the answer is refused unless it is about the page asked for
\* and consistent in itself.
ParsePage(op, offset, resp) ==
    LET next  == offset + resp.rows
        flags == Flags(op, resp)
        valid == /\ resp.code = 0
                 /\ resp.begin \in {Absent, offset}
                 /\ resp.rows <= Limit
                 /\ resp.total # Absent /\ resp.rows > 0 => next <= resp.total
                 /\ Cardinality(flags) <= 1
                 /\ resp.rows = 0 => ~HasMore(op, resp, next)
                 /\ flags = {TRUE} /\ resp.total # Absent => next < resp.total
                 /\ op = "lists" /\ flags = {FALSE} /\ resp.total # Absent => next >= resp.total
    IN  IF ~valid THEN Refused
        ELSE [accepted |-> TRUE, next |-> IF HasMore(op, resp, next) THEN next ELSE Absent]

VARIABLES
    walk,    \* the host: [op, honest, size, offset, turns, pc, seen]
    pager,   \* the Pager: [params, limit, yielded, pc, fetched, ended]
    answers  \* history: outcomes of next, in order
pages == <<walk, pager, answers>>

Walks == [op : Operations, honest : BOOLEAN, size : 0 .. MaxTotal, offset : Nat,
          turns : Nat, pc : {"idle", "request", "done", "failed"}, seen : Seq(0 .. MaxTotal)]
Pagers == [params : (1 .. MaxPage) \cup {NoParams}, limit : PageLimits, yielded : Nat,
           pc : {"idle", "fetching"}, fetched : Nat, ended : BOOLEAN]

PagesInit ==
    /\ walk \in [op : Operations, honest : BOOLEAN, size : 0 .. MaxTotal, offset : {0},
                 turns : {0}, pc : {"idle"}, seen : {<<>>}]
    /\ pager \in [params : {1}, limit : PageLimits, yielded : {0}, pc : {"idle"},
                  fetched : {0}, ended : {FALSE}]
    /\ answers = <<>>

-----------------------------------------------------------------------------
\* The answers of a server whose list has "size" rows: it may give fewer rows
\* than asked for and leave fields out, but what it says is so.
Honest(op, size, offset) ==
    {resp \in Response :
        LET next == offset + resp.rows IN
        /\ resp.code = 0
        /\ resp.begin \in {Absent, offset}
        /\ resp.total \in {Absent, size}
        /\ resp.rows <= Limit /\ next <= size
        /\ resp.rows = 0 => offset = size
        /\ resp.more \in {Absent, next < size}
        /\ resp.finish \in {Absent, next = size}}

\* read_page asks for the next page.
ReadPage ==
    /\ walk.pc = "idle"
    /\ walk' = [walk EXCEPT !.pc = "request"]
    /\ UNCHANGED <<pager, answers>>

\* Its answer is checked; the host takes the rows and goes on at next_offset.
PageRead(resp) ==
    LET page == ParsePage(walk.op, walk.offset, resp) IN
    /\ walk.pc = "request"
    /\ walk.honest => resp \in Honest(walk.op, walk.size, walk.offset)
    /\ walk.offset <= MaxTotal
    /\ walk' = IF ~page.accepted THEN [walk EXCEPT !.pc = "failed"]
               ELSE [walk EXCEPT
                        !.seen = @ \o [i \in 1 .. resp.rows |-> walk.offset + i - 1],
                        !.offset = IF page.next = Absent THEN @ ELSE page.next,
                        !.turns = IF page.next = Absent THEN @ ELSE @ + 1,
                        !.pc = IF page.next = Absent THEN "done" ELSE "idle"]
    /\ UNCHANGED <<pager, answers>>

\* A network error, a cancellation or a dropped future: the host may ask for
\* the same page again.
PageFails ==
    /\ walk.pc = "request"
    /\ walk' = [walk EXCEPT !.pc = "idle"]
    /\ UNCHANGED <<pager, answers>>

-----------------------------------------------------------------------------
\* next of a Pager takes the parameters; without any it answers None.
NextPage ==
    /\ pager.pc = "idle" /\ ~pager.ended
    /\ pager' = IF pager.limit = 0 \/ pager.params = NoParams
                THEN [pager EXCEPT !.params = NoParams, !.ended = TRUE]
                ELSE [pager EXCEPT !.params = NoParams, !.pc = "fetching", !.fetched = pager.params]
    /\ UNCHANGED <<walk, answers>>

\* The strategies page, offset and song_comments_pages: the server says there
\* is more, and the number of the next page can be represented.
NextParams(p, more) == IF more /\ p < MaxPage THEN p + 1 ELSE NoParams

AtLimit(count) == pager.limit # Absent /\ count >= pager.limit

\* Mutant of PageFetched: the limit is looked at before the page is counted.
PageFetchedOnceMore(more) ==
    /\ pager.pc = "fetching"
    /\ pager' = [pager EXCEPT
                    !.params = IF AtLimit(pager.yielded) THEN NoParams ELSE NextParams(pager.fetched, more),
                    !.yielded = @ + 1, !.pc = "idle"]
    /\ answers' = Append(answers, pager.fetched)
    /\ UNCHANGED walk

\* A page arrives; the limit ends the walk after it.
PageFetched(more) ==
    /\ pager.pc = "fetching"
    /\ pager' = [pager EXCEPT
                    !.params = IF AtLimit(pager.yielded + 1) THEN NoParams ELSE NextParams(pager.fetched, more),
                    !.yielded = @ + 1, !.pc = "idle"]
    /\ answers' = Append(answers, pager.fetched)
    /\ UNCHANGED walk

\* An error is handed out and ends the walk; so does a dropped future, whose
\* parameters are gone.
FetchLost ==
    /\ pager.pc = "fetching"
    /\ pager' = [pager EXCEPT !.pc = "idle"]
    /\ UNCHANGED <<walk, answers>>

-----------------------------------------------------------------------------
WalkNext == ReadPage \/ (\E resp \in Response : PageRead(resp)) \/ PageFails
PagerNext == NextPage \/ (\E more \in BOOLEAN : PageFetched(more)) \/ FetchLost
PagesNext == WalkNext \/ PagerNext
PagesSpec == PagesInit /\ [][PagesNext]_pages

-----------------------------------------------------------------------------
\* A walk over a list whose server tells the truth is not refused and ends
\* when every row was seen exactly once, in order, with fields left out, short
\* pages and repeated requests ("Offsets count upstream rows", account.rs:5).  Whatever
\* a server answers, a page after which the walk goes on has brought it forward:
\* none can keep a host on the same offset.
WalkComplete ==
    /\ walk.honest =>
        /\ walk.pc # "failed"
        /\ walk.pc = "done" => walk.seen = [i \in 1 .. walk.size |-> i - 1]
    /\ walk.offset \in walk.turns .. walk.turns * Limit

\* A Pager hands out the pages one after the other from the first, none twice
\* and none left out, never more than its limit, whatever fails or is dropped.
PagerConsecutive ==
    /\ \A i \in DOMAIN answers : answers[i] = i
    /\ pager.limit # Absent => Len(answers) <= pager.limit
    /\ pager.params # NoParams => pager.params = Len(answers) + 1
=============================================================================

------------------------------- MODULE Listings -------------------------------
(***************************************************************************)
(* SessionService and QuestionService: rows that users create, and the     *)
(* lists that they read page by page while the rows change.                *)
(*                                                                         *)
(* A page is cut by the handler out of everything the SELECT returns, and  *)
(* the token of the next page is an offset.  created_at is NOW(), the      *)
(* start of the transaction, which may commit after a later one: a row is  *)
(* numbered when its transaction starts and seen once it is committed.     *)
(* The seed questions come from one INSERT and share a created_at.         *)
(***************************************************************************)
EXTENDS Naturals, Sequences, SequencesExt

CONSTANTS Owners,           \* users,
          Readers,          \* and those who read their lists here
          PageSizes,        \* what clients ask for
          DefaultPageSize, MaxPageSize,
          Seeds,            \* number of seed questions
          RowStatuses,      \* of sessions, that the model goes through
          MaxRows           \* bound of the model

ASSUME ListingsAssumption ==
    /\ DefaultPageSize \in 1..MaxPageSize /\ MaxPageSize \in Nat
    /\ Seeds \in Nat /\ MaxRows \in Nat /\ PageSizes \subseteq Nat

Shared == "shared"          \* user_id IS NULL
Lists == {"sessions", "questions"}
NoToken == 0                \* an empty page token; an offset that is sent is above 0

VARIABLES
    rows,       \* interview_sessions and questions, in the order of created_at
    lister,     \* the user who reads a list, and of which list
    token,      \* of the page that comes next
    reading,    \* whether a page is still to come
    owed,       \* the rows there were when the list was opened
    shown       \* what its pages have shown

listingVars  == <<lister, token, reading, owed, shown>>
listingsVars == <<rows, listingVars>>

Seed == [list |-> "questions", owner |-> Shared, committed |-> TRUE,
         state |-> "medium", archived |-> FALSE]

ListingsInit ==
    /\ rows = [i \in 1..Seeds |-> Seed]
    /\ lister = <<Shared, "questions">> /\ token = NoToken /\ reading = FALSE
    /\ owed = {} /\ shown = {}

Row(i) == rows[i]
SessionRows == {i \in DOMAIN rows : Row(i).list = "sessions"}
IsOpenFor(user, i) == i \in DOMAIN rows /\ Row(i).committed /\ Row(i).owner = user
-----------------------------------------------------------------------------
(***************************************************************************)
(* Rows                                                                    *)
(***************************************************************************)
Begin(row) ==
    /\ Len(rows) < Seeds + MaxRows /\ rows' = Append(rows, row)
    /\ UNCHANGED listingVars

\* The checks of CreateSession, its grants included, are in MinuteLedger.
InsertSession(user) ==
    Begin([list |-> "sessions", owner |-> user, committed |-> FALSE,
           state |-> "active", archived |-> FALSE])

\* "medium" unless the request says otherwise; anything else is refused.
DifficultyFromProto(asked) == IF asked = "unspecified" THEN "medium" ELSE asked

NewQuestion(user, difficulty) ==
    [list |-> "questions", owner |-> user, committed |-> FALSE,
     state |-> difficulty, archived |-> FALSE]

InsertQuestion(user, asked) ==
    /\ DifficultyFromProto(asked) \in {"medium", "hard"}
    /\ Begin(NewQuestion(user, DifficultyFromProto(asked)))

Commits(i) ==
    /\ ~Row(i).committed /\ rows' = [rows EXCEPT ![i].committed = TRUE]
    /\ UNCHANGED listingVars

\* Turns, endings and evaluations.
StatusChanges(i, status) ==
    /\ Row(i).list = "sessions" /\ Row(i).committed /\ Row(i).state # status
    /\ rows' = [rows EXCEPT ![i].state = status]
    /\ UNCHANGED listingVars

\* One UPDATE; ids of other users, and ids of nothing, are passed over.
ArchiveSessions(user, ids, archive) ==
    /\ rows' = [i \in DOMAIN rows |->
                  IF i \in ids /\ IsOpenFor(user, i)
                  THEN [Row(i) EXCEPT !.archived = archive] ELSE Row(i)]
    /\ UNCHANGED listingVars
-----------------------------------------------------------------------------
(***************************************************************************)
(* What the services answer                                                *)
(***************************************************************************)
\* A status that the protocol has no name for.
StatusToProto(status) == IF status = "generating" THEN "unspecified" ELSE status
DifficultyToProto(difficulty) ==
    IF difficulty \in {"medium", "hard"} THEN difficulty ELSE "unspecified"
\* A question of a user's is custom or, much the same here, coach_generated.
SourceToProto(owner) == IF owner = Shared THEN "seed" ELSE "custom"

ListSessionRowToProto(i) ==
    [row |-> i, state |-> StatusToProto(Row(i).state), source |-> Row(i).owner]
QuestionToProto(i) ==
    [row |-> i, state |-> DifficultyToProto(Row(i).state),
     source |-> SourceToProto(Row(i).owner)]

\* One session, for whom it belongs to.
GetSession(i) == {j \in SessionRows : j = i /\ Row(j).committed}
GetSessionRowToProto(i) ==
    [row |-> i, state |-> StatusToProto(Row(i).state), source |-> Row(i).owner]
GetSessionForUser(user, i) ==
    IF GetSession(i) = {} THEN "ErrSessionNotFound"
    ELSE IF Row(i).owner = user THEN "found" ELSE "ErrSessionNotOwned"
BackendToConnectError(err) ==
    IF err \in {"ErrSessionNotFound", "ErrSessionNotOwned"} THEN "not_found" ELSE "internal"

SessionAnswer(user, i) ==
    LET found == GetSessionForUser(user, i) IN
    IF found = "found" THEN [code |-> "ok", session |-> GetSessionRowToProto(i)]
                       ELSE [code |-> BackendToConnectError(found)]
\* The messages are in InterviewClient.
TranscriptAnswer(user, i) ==
    LET found == GetSessionForUser(user, i) IN
    [code |-> IF found = "found" THEN "ok" ELSE BackendToConnectError(found)]

\* ORDER BY created_at DESC, and ORDER BY created_at: the n-th of the rows has
\* n - 1 others before it.
NewestFirst(mine) ==
    [n \in 1..Cardinality(mine) |->
        CHOOSE i \in mine : Cardinality({j \in mine : j >= i}) = n]
OldestFirst(mine) ==
    [n \in 1..Cardinality(mine) |->
        CHOOSE i \in mine : Cardinality({j \in mine : j <= i}) = n]

\* Mutant: what is archived is left out, as the pages show it.
ListUnarchivedByUser(user) ==
    LET mine == {i \in DOMAIN rows : IsOpenFor(user, i) /\ Row(i).list = "sessions"
                                     /\ ~Row(i).archived}
    IN  NewestFirst(mine)

ListSessionsByUser(user) ==
    LET mine == {i \in DOMAIN rows : IsOpenFor(user, i) /\ Row(i).list = "sessions"}
    IN  NewestFirst(mine)

\* Among the seeds the order is the database's choice, a new one with every
\* SELECT.
ListQuestionsForUser(user) ==
    LET mine == {i \in DOMAIN rows : IsOpenFor(user, i) /\ Row(i).list = "questions"}
    IN  {seeds \o OldestFirst(mine) : seeds \in SetToSeqs(1..Seeds)}

ListSessions(user)  == {[n \in DOMAIN found |-> ListSessionRowToProto(found[n])]
                           : found \in {ListSessionsByUser(user)}}
ListQuestions(user) == {[n \in DOMAIN found |-> QuestionToProto(found[n])]
                           : found \in ListQuestionsForUser(user)}
Results(user, list) ==
    IF list = "sessions" THEN ListSessions(user) ELSE ListQuestions(user)

Smaller(a, b) == IF a < b THEN a ELSE b
PageSize(asked) == IF asked = 0 THEN DefaultPageSize ELSE Smaller(asked, MaxPageSize)

\* Cuts [start, end) out of the result.
Page(found, offset, asked) ==
    LET start == Smaller(offset, Len(found))
        end   == Smaller(start + PageSize(asked), Len(found))
    IN  [items |-> ToSet(SubSeq(found, start + 1, end)),
         next  |-> IF end < Len(found) THEN end ELSE NoToken]

Shows(found, offset, asked) ==
    LET page == Page(found, offset, asked) IN
    /\ shown' = (IF reading THEN shown ELSE {}) \cup page.items
    /\ token' = page.next /\ reading' = (page.next # NoToken)
    /\ UNCHANGED rows

OpenList(user, list, asked) ==
    /\ ~reading /\ lister' = <<user, list>>
    /\ owed' = {i \in DOMAIN rows : IsOpenFor(user, i) /\ Row(i).list = list}
    /\ \E found \in Results(user, list) : Shows(found, 0, asked)

NextPage(asked) ==
    /\ reading
    /\ \E found \in Results(lister[1], lister[2]) : Shows(found, token, asked)
    /\ UNCHANGED <<lister, owed>>
-----------------------------------------------------------------------------
ListingsNext ==
    \/ \E user \in Owners :
          \/ InsertSession(user)
          \/ \E asked \in {"unspecified", "medium", "hard", "unknown"} :
                InsertQuestion(user, asked)
          \* Several ids at once come to as many calls.
          \/ \E i \in SessionRows, archive \in BOOLEAN : ArchiveSessions(user, {i}, archive)
    \/ \E user \in Readers, list \in Lists, asked \in PageSizes : OpenList(user, list, asked)
    \/ \E asked \in PageSizes : NextPage(asked)
    \/ \E i \in DOMAIN rows : Commits(i) \/ \E status \in RowStatuses : StatusChanges(i, status)

ListingsSpec == ListingsInit /\ [][ListingsNext]_listingsVars
-----------------------------------------------------------------------------
\* To its owner; to others it is what no session is.
Opens(user, i) ==
    /\ (SessionAnswer(user, i).code = "ok") <=> (Row(i).owner = user)
    /\ TranscriptAnswer(user, i).code = SessionAnswer(user, i).code
    /\ Row(i).owner # user => SessionAnswer(user, i) = SessionAnswer(user, Len(rows) + 1)

(***************************************************************************)
(* Who follows the page tokens to the end has seen every session there was *)
(* at the first page, and every question whose created_at is its own,      *)
(* however many rows have come and been archived since and however late    *)
(* their transactions committed; and nothing that another user owns.  A    *)
(* session that is listed can be opened, and its transcript, by its owner, *)
(* and any other user is told what is said of a session that never was.    *)
(* Difficulty and status have a name, except while a turn is generated.    *)
(***************************************************************************)
ListingComplete ==
    /\ ~reading => owed \subseteq {item.row : item \in shown}
    /\ \A item \in shown :
          /\ item.source \in {lister[1], "seed", "custom"}
          /\ item.row > Seeds => Row(item.row).owner = lister[1]
          /\ lister[2] = "sessions" => \A user \in Owners : Opens(user, item.row)
          /\ item.state = "unspecified" => Row(item.row).list = "sessions"
=============================================================================

--------------------------- MODULE SessionContext ---------------------------
(***************************************************************************)
(* The context of one chat session: its timeline of events, the anchor     *)
(* summary with its compaction boundary, and everything that reads or       *)
(* writes them while the others do: chat requests that load the history,   *)
(* compact it when it has grown too long, answer and save their turn;       *)
(* compactions asked for by hand; and the user who clears the summaries.   *)
(*                                                                         *)
(* Every step is one transaction, or one call of the model.  An event is    *)
(* its position in the timeline (event_order); the tokens of a message are  *)
(* one unit, so budgets count messages.  A summary is the set of messages  *)
(* it tells of.                                                            *)
(***************************************************************************)
EXTENDS Integers, Sequences, FiniteSetsExt

CONSTANTS
  Chats,           \* tabs: each sends one request at a time into the session
  Manuals,         \* requests to compact by hand
  Processes,       \* backend processes; the product runs one
  ProcessOf,       \* [Chats \cup Manuals -> Processes]
  LoadBudget,      \* messages a request loads at most (60,000 tokens)
  Trigger,         \* loaded messages that call for a compaction
  CompactBudget,   \* messages one compaction takes at most (50,000 tokens)
  PageSize,        \* messages per page of the history
  InitialLengths,  \* messages the session may begin with
  MaxTurns,        \* bound: requests begun
  MaxClears,       \* bound: summaries cleared
  MaxFaults        \* bound: summaries the model fails to write

Compactors == Chats \cup Manuals

ASSUME ContextAssumption ==
  /\ ProcessOf \in [Compactors -> Processes]
  /\ {LoadBudget, Trigger, CompactBudget, PageSize} \subseteq Nat \ {0}
  /\ Trigger <= LoadBudget   \* the load stops at the threshold; the trigger adds the prompt
  /\ {MaxTurns, MaxClears, MaxFaults} \subseteq Nat
  /\ InitialLengths \subseteq Nat

VARIABLES
  events,   \* Seq of "message" and "snapshot": the timeline
  row,      \* the session's row: anchor and boundary
  request,  \* [Chats -> record]: a request and what it has read
  job,      \* [Compactors -> record]: a compaction and what it has read
  count     \* turns begun, clears, faults, and turns that were not saved

vars == <<events, row, request, job, count>>

-----------------------------------------------------------------------------
(* Data *)

\* An anchor: what it covers, and whether a failed summary is part of it.
NoAnchor == [there |-> FALSE, covers |-> {}, poor |-> FALSE]

Messages == {i \in DOMAIN events : events[i] = "message"}

MessagesUpTo(n) == {i \in Messages : i <= n}

\* The k newest and the k oldest of some messages: ORDER BY event_order and LIMIT.
Newest(set, k) == {i \in set : Cardinality({j \in set : j > i}) < k}
Oldest(set, k) == {i \in set : Cardinality({j \in set : j < i}) < k}

\* The page of the history that follows its newest `offset` messages.
Page(offset) == Newest(Messages, offset + PageSize) \ Newest(Messages, offset)

\* What a page adds to `read` messages: down to the boundary, or to the budget.
Added(page, boundary, read) == Newest({i \in page : i > boundary}, LoadBudget - read)

\* What a compaction that starts at a boundary takes up.
Selected(boundary) == Oldest({i \in Messages : i > boundary}, CompactBudget)

\* The boundary moves to the last message that is in the summary, no further.
LastIncluded(selection) == Max(selection)

\* The history is what was collected; `read` counts a message once for every page it
\* was in, since a turn that is saved meanwhile shifts the offsets.
Idle == [at |-> "idle", boundary |-> 0, history |-> {}, read |-> 0, offset |-> 0,
         anchor |-> NoAnchor,
         compressed |-> FALSE, refused |-> FALSE, order |-> 0,
         upTo |-> 0, clears |-> 0, torn |-> FALSE]   \* what only the properties look at

NoJob == [at |-> "none", boundary |-> 0, selection |-> {}, anchor |-> NoAnchor]

Init ==
  /\ events \in {[i \in 1..n |-> "message"] : n \in InitialLengths}
  /\ row = [anchor |-> NoAnchor, boundary |-> 0, compressions |-> 0]
  /\ request = [r \in Chats |-> Idle]
  /\ job = [c \in Compactors |-> NoJob]
  /\ count = [turns |-> 0, clears |-> 0, faults |-> 0, lost |-> 0]

-----------------------------------------------------------------------------
(* A request loads the session, in transactions of their own *)

\* The boundary first ...
LoadBoundary(r) ==
  /\ request[r].at = "idle" /\ count.turns < MaxTurns
  /\ request' = [request EXCEPT ![r] =
       [Idle EXCEPT !.at = "pages", !.boundary = row.boundary,
                    !.upTo = Len(events), !.clears = count.clears]]
  /\ count' = [count EXCEPT !.turns = @ + 1]
  /\ UNCHANGED <<events, row, job>>

\* ... then pages by offset, until the boundary, the budget or the beginning ...
LoadPage(r) ==
  LET q == request[r]
      page == Page(q.offset)
      added == Added(page, q.boundary, q.read)
      read == q.read + Cardinality(added)
      reached == \E i \in page : i <= q.boundary
      done == reached \/ read >= LoadBudget \/ Cardinality(page) < PageSize
  IN  /\ q.at = "pages"
      /\ request' = [request EXCEPT ![r] =
           [q EXCEPT !.history = q.history \cup added, !.read = read,
                     !.offset = q.offset + PageSize,
                     !.at = IF done THEN "anchor" ELSE "pages"]]
      /\ UNCHANGED <<events, row, job, count>>

\* ... and the anchor last.
LoadAnchor(r) ==
  LET q == request[r]
  IN  /\ q.at = "anchor"
      /\ request' = [request EXCEPT ![r] =
           [q EXCEPT !.anchor = row.anchor, !.compressed = row.compressions > 0,
                     !.torn = count.clears # q.clears, !.at = "measure"]]
      /\ UNCHANGED <<events, row, job, count>>

\* Only a session that was never compressed asks for a compaction.  What is
\* loaded always fits the window, so nothing is trimmed here.
Measure(r) ==
  LET q == request[r]
      needed == q.read >= Trigger /\ ~q.compressed
  IN  /\ q.at = "measure"
      /\ request' = [request EXCEPT ![r] =
           [q EXCEPT !.at = IF needed THEN "compact" ELSE "answer"]]
      /\ UNCHANGED <<events, row, job, count>>

\* The model answers.  save_turn then reads the last order of the timeline ...
Answer(r) ==
  /\ request[r].at = "answer"
  /\ request' = [request EXCEPT ![r] = [@ EXCEPT !.at = "save", !.order = Len(events)]]
  /\ UNCHANGED <<events, row, job, count>>

\* ... and inserts its events behind it: taken orders violate the key and the
\* turn is lost.
SaveTurn(r) ==
  LET free == Len(events) = request[r].order
  IN  /\ request[r].at = "save"
      /\ events' = IF free THEN events \o <<"message", "message">> ELSE events
      /\ count' = IF free THEN count ELSE [count EXCEPT !.lost = @ + 1]
      /\ request' = [request EXCEPT ![r] = Idle]
      /\ UNCHANGED <<row, job>>

-----------------------------------------------------------------------------
(* Compaction: one at a time per process *)

BusyNever(c) == FALSE   \* a bug: no lock

Busy(c) == \E d \in Compactors : ProcessOf[d] = ProcessOf[c] /\ job[d].at # "none"

\* How a compaction leaves: a chat goes on with the new anchor, or with what it
\* had (busy, nothing to do or failed); a request by hand gets its answer.
Returns(c, anchor, ok) ==
  LET q == request[c]
  IN  request' =
        IF c \in Chats
        THEN [request EXCEPT ![c] = [q EXCEPT !.at = "answer", !.refused = ~ok,
                                              !.anchor = IF ok THEN anchor ELSE q.anchor]]
        ELSE request

Asks(c) == c \in Chats => request[c].at = "compact" /\ job[c].at = "none"

CompactBusy(c) ==
  /\ c \in Chats /\ Asks(c) /\ Busy(c)
  /\ Returns(c, NoAnchor, FALSE)
  /\ UNCHANGED <<events, row, job, count>>

CompactBegin(c) ==
  /\ Asks(c) /\ ~Busy(c)
  /\ job' = [job EXCEPT ![c] = [NoJob EXCEPT !.at = "messages", !.boundary = row.boundary]]
  /\ UNCHANGED <<events, row, request, count>>

CompactReadMessages(c) ==
  LET j == job[c]
      selection == Selected(j.boundary)
  IN  /\ j.at = "messages"
      /\ \/ /\ selection # {}
            /\ job' = [job EXCEPT ![c] = [j EXCEPT !.selection = selection, !.at = "anchor"]]
            /\ UNCHANGED request
         \/ /\ selection = {}
            /\ job' = [job EXCEPT ![c] = NoJob]
            /\ Returns(c, NoAnchor, FALSE)
      /\ UNCHANGED <<events, row, count>>

CompactReadAnchor(c) ==
  LET j == job[c]
  IN  /\ j.at = "anchor"
      /\ job' = [job EXCEPT ![c] = [j EXCEPT !.anchor = row.anchor, !.at = "summarise"]]
      /\ UNCHANGED <<events, row, request, count>>

\* The model merges the anchor and the messages.  When it fails, the compressor
\* does not: it makes do with the beginning of the messages, without the anchor.
Merged(anchor, selection) ==
  [there |-> TRUE, covers |-> anchor.covers \cup selection, poor |-> anchor.poor]
Makeshift(selection) == [there |-> TRUE, covers |-> {Min(selection)}, poor |-> TRUE]

CompactSummarise(c) ==
  LET j == job[c]
      written(anchor) == [job EXCEPT ![c] = [j EXCEPT !.anchor = anchor, !.at = "commit"]]
  IN  /\ j.at = "summarise"
      /\ \/ /\ job' = written(Merged(j.anchor, j.selection))
            /\ UNCHANGED count
         \/ /\ count.faults < MaxFaults
            /\ job' = written(Makeshift(j.selection))
            /\ count' = [count EXCEPT !.faults = @ + 1]
      /\ UNCHANGED <<events, row, request>>

StandsAlways(expected) == TRUE   \* a bug: no compare-and-set

\* The compare-and-set of the commit.
Stands(expected) == row.boundary = expected

\* Anchor, boundary and snapshot in one transaction, if the boundary still stands.
CompactCommit(c) ==
  /\ job[c].at = "commit"
  /\ job' = [job EXCEPT ![c] = NoJob]
  /\ \/ /\ Stands(job[c].boundary)
        /\ row' = [anchor |-> job[c].anchor, compressions |-> row.compressions + 1,
                   boundary |-> LastIncluded(job[c].selection)]
        /\ events' = Append(events, "snapshot")
        /\ Returns(c, job[c].anchor, TRUE)
     \/ /\ ~Stands(job[c].boundary)
        /\ Returns(c, NoAnchor, FALSE)
        /\ UNCHANGED <<events, row>>
  /\ UNCHANGED count

\* Both transactions of a turn and a commit want the next order and the row, in
\* opposite order: the database may end the deadlock at the compaction's cost.
CompactAborted(c) ==
  /\ job[c].at = "commit"
  /\ \E r \in Chats : request[r].at = "save"
  /\ job' = [job EXCEPT ![c] = NoJob]
  /\ Returns(c, NoAnchor, FALSE)
  /\ UNCHANGED <<events, row, count>>

-----------------------------------------------------------------------------
(* The user clears the summaries: anchor, count and boundary in one statement *)

\* A bug: the boundary stays.
ClearedAnchorOnly == [row EXCEPT !.anchor = NoAnchor, !.compressions = 0]

Cleared == [anchor |-> NoAnchor, boundary |-> 0, compressions |-> 0]

Clear ==
  /\ row.anchor.there /\ count.clears < MaxClears
  /\ row' = Cleared
  /\ count' = [count EXCEPT !.clears = @ + 1]
  /\ UNCHANGED <<events, request, job>>

Compaction(c) ==
  \/ CompactBegin(c) \/ CompactBusy(c) \/ CompactReadMessages(c) \/ CompactReadAnchor(c)
  \/ CompactSummarise(c) \/ CompactCommit(c) \/ CompactAborted(c)

Chat(r) ==
  \/ LoadBoundary(r) \/ LoadPage(r) \/ LoadAnchor(r) \/ Measure(r)
  \/ Answer(r) \/ SaveTurn(r)

Next ==
  \/ \E r \in Chats : Chat(r)
  \/ \E c \in Compactors : Compaction(c)
  \/ Clear

Spec == Init /\ [][Next]_vars

-----------------------------------------------------------------------------
(* Properties *)

Anchors == [there : BOOLEAN, covers : SUBSET Messages, poor : BOOLEAN]

\* The records are well formed: orders are positions of messages in the
\* timeline, the anchor is there exactly when it was compressed, a boundary is
\* where a summary ended, and one process compacts once at a time
\* (ChatSessionMemory, CompactionService._lock_for).
TypeOK ==
  /\ events \in Seq({"message", "snapshot"})
  /\ row.anchor \in Anchors /\ row.boundary \in 0..Len(events)
  /\ row.anchor.there <=> row.compressions > 0
  /\ row.anchor.there <=> row.boundary > 0
  /\ \A r \in Chats :
       /\ request[r].at \in {"idle", "pages", "anchor", "measure", "compact", "answer", "save"}
       /\ request[r].history \subseteq Messages
       /\ request[r].read \in Cardinality(request[r].history)..LoadBudget
       /\ request[r].anchor \in Anchors
       /\ request[r].order \in 0..Len(events)
  /\ \A c \in Compactors :
       /\ job[c].at \in {"none", "messages", "anchor", "summarise", "commit"}
       /\ job[c].selection \subseteq Messages /\ Cardinality(job[c].selection) <= CompactBudget
       /\ \A d \in Compactors :
            job[c].at # "none" /\ job[d].at # "none" /\ ProcessOf[c] = ProcessOf[d] => c = d

\* No message falls between the summary and the history: whatever lies at or
\* before the boundary, which no request ever reads again, is told of in the
\* anchor, however compactions, turns and clears overlap.  A summary the model
\* failed to write is excepted (see FailedSummaryKeepsAnchor)
\* (ChatSessionMemory.commit_compaction, read_messages_for_compaction).
AnchorCoversBoundary == row.anchor.poor \/ MessagesUpTo(row.boundary) \subseteq row.anchor.covers

Missing(q) == MessagesUpTo(q.upTo) \ (q.history \cup q.anchor.covers)
Whole(q) == q.at \in {"answer", "save"} /\ ~q.anchor.poor => Missing(q) = {}

\* What the model is given misses no message of the session, although boundary,
\* pages and anchor are read in transactions of their own while others move them.
\* Two exceptions: a session too long for the budget, if it had been compressed
\* before, if its compaction was refused, or if more was left behind than one
\* compaction takes; and a clear in the middle of the load (see WholeInSpiteOfClear)
\* (load_session_history, ContextBuilder.build_context, fast_answer and scope).
LeftBehind(q) == {i \in MessagesUpTo(q.upTo) : i > q.boundary} \ q.history
TooLong(q) ==
  /\ q.read >= LoadBudget
  /\ q.compressed \/ q.refused \/ Cardinality(LeftBehind(q)) > CompactBudget

ContextIsWhole ==
  \A r \in Chats : request[r].torn \/ TooLong(request[r]) \/ Whole(request[r])

-----------------------------------------------------------------------------
(* What the documentation says and the code does not do; see README, Disagreements *)

\* compaction.py:66: a failed compaction neither moves the boundary nor overwrites the anchor.
FailedSummaryKeepsAnchor == [][row'.anchor.poor => row.anchor.poor]_vars

\* chat_session.py:1051: what the cleared summary covered is read message by message again.
WholeInSpiteOfClear == \A r \in Chats : request[r].read < LoadBudget => Whole(request[r])

\* A turn that was answered is in the timeline (save_turn).
EveryTurnIsSaved == count.lost = 0
=============================================================================

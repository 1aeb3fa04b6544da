------------------------------ MODULE SSEBuffer ------------------------------
(***************************************************************************)
(* The bounded buffer between the workflow of a response and the generator *)
(* that sends it (api/sse_buffer.py), with both of its sides: the graph    *)
(* nodes and the run_workflow task that put, and the loop of generate_sse  *)
(* that gets (api/routes/chat.py).                                         *)
(*                                                                         *)
(* Everything runs on one event loop, so a put or a get is atomic up to    *)
(* its awaits.  The only await of a put is _await_space; the ones of the   *)
(* reader are the wait for an arrival and the sending of a frame.          *)
(***************************************************************************)
EXTENDS Integers, Sequences, FiniteSets, SequencesExt

CONSTANTS
    Nodes,          \* the graph nodes that put concurrently (a parallel Send group)
    Workflow,       \* the run_workflow task, which puts the terminal events
    CriticalLimit,  \* streaming.critical_queue_size
    ChunkLimit,     \* streaming.max_coalesced_chunk_chars
    TextLimit,      \* streaming.max_pending_text_chars
    MaxChars,       \* bound: the longest text fragment a node puts
    MaxPuts         \* bound: MaxPuts[n] is how many puts node n makes

ASSUME BufferAssumption ==
    /\ Nodes # {} /\ IsFiniteSet(Nodes)
    /\ Workflow \notin Nodes
    /\ CriticalLimit \in Nat \ {0}
    /\ ChunkLimit \in Nat \ {0}
    /\ TextLimit \in Nat \ {0}
    /\ MaxChars \in Nat
    /\ MaxPuts \in [Nodes -> Nat]

VARIABLES
    items,        \* _items: the queued entries, oldest first
    critical,     \* _critical_count
    pendingText,  \* _pending_text_chars
    arrived,      \* the _arrived event
    space,        \* the _space event
    stalled,      \* stalled: a producer gave up waiting for the reader
    put,          \* put[n]: the put of node n that is inside _await_space
    written,      \* written[w]: how many events and chunks w has put
    workflow,     \* "running", then "ended" once the terminal event is put
    reader        \* where the loop of generate_sse is

queueVars == <<items, critical, pendingText, arrived>>
vars == <<items, critical, pendingText, arrived, space, stalled, put, written,
          workflow, reader>>

Writers == Nodes \union {Workflow}

\* reading  at the head of the loop     waiting  in get, for an arrival
\* sending  handling or yielding a frame (the client may be slow for ever)
\* done, failed  a terminal event was read     closed  the loop was left before one
ReaderStates == {"reading", "waiting", "sending", "done", "failed", "closed"}
Left == {"done", "failed", "closed"}

Terminal == {"done", "error"}

\* _Entry: adjacent fragments of one node share an entry, sent under that node.
Entry(kind, node, nos, chars) == [kind |-> kind, node |-> node, nos |-> nos, chars |-> chars]

\* A put that waits: woken once the _space event resolved its wait.
NoPut == [state |-> "none", chars |-> 0]
Waiting(chars) == [state |-> IF space THEN "woken" ELSE "waiting", chars |-> chars]

Init ==
    /\ items = <<>>
    /\ critical = 0
    /\ pendingText = 0
    /\ arrived = FALSE
    /\ space = TRUE
    /\ stalled = FALSE
    /\ put = [n \in Nodes |-> NoPut]
    /\ written = [w \in Writers |-> [events |-> 0, chunks |-> 0]]
    /\ workflow = "running"
    /\ reader = "reading"
-----------------------------------------------------------------------------
\* The buffer.

Full(count, text) == count >= CriticalLimit \/ text >= TextLimit

\* Mutant of AfterAppend: only a full queue of events closes the gate.
AfterAppendEventsOnly ==
    /\ arrived' = TRUE
    /\ space' = (space /\ critical' < CriticalLimit)

\* _after_append: wake the reader, and close the gate when the buffer is full.
AfterAppend ==
    /\ arrived' = TRUE
    /\ space' = (space /\ ~Full(critical', pendingText'))

\* Mutant of Joins: the fragments of two nodes share an entry.
JoinsAnyNode(n, chars) ==
    /\ items # <<>>
    /\ Last(items).kind = "text"
    /\ Last(items).chars + chars <= ChunkLimit

\* The tail entry takes the fragment when it is text of the same node with room.
Joins(n, chars) ==
    /\ items # <<>>
    /\ LET tail == Last(items)
       IN  /\ tail.kind = "text"
           /\ tail.node = n
           /\ tail.chars + chars <= ChunkLimit

AppendText(n, chars) ==
    LET no == written[n].chunks + 1
    IN  /\ items' = IF Joins(n, chars)
                    THEN [items EXCEPT ![Len(items)].nos = Append(@, no),
                                       ![Len(items)].chars = @ + chars]
                    ELSE Append(items, Entry("text", n, <<no>>, chars))
        /\ pendingText' = pendingText + chars
        /\ critical' = critical
        /\ AfterAppend
        /\ written' = [written EXCEPT ![n].chunks = no]

AppendEvent(n) ==
    /\ items' = Append(items, Entry("event", n, <<written[n].events + 1>>, 0))
    /\ critical' = critical + 1
    /\ pendingText' = pendingText
    /\ AfterAppend
    /\ written' = [written EXCEPT ![n].events = @ + 1]

\* Text that could not wait any longer: dropped_text_chars.
DropText(n) ==
    /\ written' = [written EXCEPT ![n].chunks = @ + 1]
    /\ UNCHANGED <<queueVars, space>>

\* Mutant of AppendTerminal: a full buffer refuses the terminal event.
AppendTerminalIfRoom(kinds) ==
    /\ items' = IF Full(critical, pendingText) THEN items
                ELSE items \o [i \in 1..Len(kinds) |->
                                  Entry(kinds[i], Workflow, <<i>>, 0)]
    /\ UNCHANGED <<critical, pendingText>>
    /\ AfterAppend
    /\ written' = [written EXCEPT ![Workflow].events = Len(kinds)]
    /\ workflow' = "ended"

\* Terminal events ignore the capacity and are not counted.
AppendTerminal(kinds) ==
    /\ items' = items \o [i \in 1..Len(kinds) |->
                  Entry(kinds[i], Workflow, <<i>>, 0)]
    /\ UNCHANGED <<critical, pendingText>>
    /\ AfterAppend
    /\ written' = [written EXCEPT ![Workflow].events = Len(kinds)]
    /\ workflow' = "ended"

\* Mutant of TakeHead: a terminal event counts as a critical one.
TakeHeadCounting ==
    LET head == Head(items)
    IN  /\ items' = Tail(items)
        /\ pendingText' = pendingText - head.chars
        /\ critical' = critical - (IF head.kind = "text" THEN 0 ELSE 1)
        /\ space' = (space \/ ~Full(critical', pendingText'))
        /\ put' = [n \in Nodes |->
                     IF put[n].state = "waiting" /\ space'
                     THEN [put[n] EXCEPT !.state = "woken"] ELSE put[n]]
        /\ arrived' = (items' # <<>>)
        /\ reader' = IF head.kind = "done" THEN "done"
                     ELSE IF head.kind = "error" THEN "failed" ELSE "sending"

\* What get does with the head of a queue that is not empty.
TakeHead ==
    LET head == Head(items)
    IN  /\ items' = Tail(items)
        /\ pendingText' = pendingText - head.chars
        /\ critical' = critical - (IF head.kind = "event" THEN 1 ELSE 0)
        /\ space' = (space \/ ~Full(critical', pendingText'))
        /\ put' = [n \in Nodes |->
                     IF put[n].state = "waiting" /\ space'
                     THEN [put[n] EXCEPT !.state = "woken"] ELSE put[n]]
        /\ arrived' = (items' # <<>>)
        /\ reader' = IF head.kind = "done" THEN "done"
                     ELSE IF head.kind = "error" THEN "failed" ELSE "sending"
-----------------------------------------------------------------------------
\* The producers.

MayPut(n) ==
    /\ workflow = "running"
    /\ put[n] = NoPut
    /\ written[n].events + written[n].chunks < MaxPuts[n]

\* A critical event: state, gate, tool_start, tool_done, node_lifecycle, ...
PutEvent(n) ==
    /\ MayPut(n)
    /\ IF critical >= CriticalLimit /\ ~stalled
       THEN /\ put' = [put EXCEPT ![n] = Waiting(0)]
            /\ UNCHANGED <<queueVars, space, written>>
       ELSE /\ AppendEvent(n)
            /\ put' = put
    /\ UNCHANGED <<stalled, workflow, reader>>

\* A fragment of text (token, react_thinking).  The gate may be open although the
\* fragment does not fit; the wait then ends at once, and nothing is checked again.
PutText(n) ==
    /\ MayPut(n)
    /\ \E chars \in 1..MaxChars :
         IF pendingText + chars <= TextLimit
         THEN /\ AppendText(n, chars)
              /\ put' = put
         ELSE IF stalled
         THEN /\ DropText(n)
              /\ put' = put
         ELSE /\ put' = [put EXCEPT ![n] = Waiting(chars)]
              /\ UNCHANGED <<queueVars, space, written>>
    /\ UNCHANGED <<stalled, workflow, reader>>

\* Mutant of FinishPut: the text of a put that gave up is queued all the same.
FinishPutAnyway(n) ==
    /\ IF put[n].chars = 0 THEN AppendEvent(n) ELSE AppendText(n, put[n].chars)
    /\ put' = [put EXCEPT ![n] = NoPut]
    /\ UNCHANGED <<workflow, reader>>

\* The rest of a put after _await_space.
FinishPut(n) ==
    /\ IF put[n].chars = 0 THEN AppendEvent(n)
       ELSE IF stalled' THEN DropText(n)
       ELSE AppendText(n, put[n].chars)
    /\ put' = [put EXCEPT ![n] = NoPut]
    /\ UNCHANGED <<workflow, reader>>

Resume(n) ==
    /\ put[n].state = "woken"
    /\ stalled' = stalled
    /\ FinishPut(n)

\* Mutant of TimeOut: a put waits as long as the client is there.
TimeOutWhenGone(n) ==
    /\ put[n] # NoPut
    /\ reader \in Left
    /\ stalled' = TRUE
    /\ FinishPut(n)

\* stalled_consumer_seconds pass.  The timer may fire in the same turn of the event
\* loop that opened the gate, so a woken put can still time out.
TimeOut(n) ==
    /\ put[n] # NoPut
    /\ stalled' = TRUE
    /\ FinishPut(n)

\* The graph returns: no node is inside a put any more.
EndWorkflow ==
    /\ workflow = "running"
    /\ \A n \in Nodes : put[n] = NoPut
    /\ AppendTerminal(<<"done">>)
    /\ UNCHANGED <<stalled, put, reader>>

\* A node raises: the others are cancelled where they wait, and run_workflow turns
\* the exception into an error event before its finally puts the terminal one.
FailWorkflow ==
    /\ workflow = "running"
    /\ put' = [n \in Nodes |-> NoPut]
    /\ AppendTerminal(<<"error", "done">>)
    /\ UNCHANGED <<stalled, reader>>

\* cleanup_stream_exit cancels the task of a response that is gone.
CancelWorkflow ==
    /\ workflow = "running"
    /\ reader \in Left
    /\ put' = [n \in Nodes |-> NoPut]
    /\ AppendTerminal(<<"done">>)
    /\ UNCHANGED <<stalled, reader>>
-----------------------------------------------------------------------------
\* The reader.

\* The head of the loop: leave when a producer has given up, else get.
CloseStalled ==
    /\ reader = "reading"
    /\ stalled
    /\ reader' = "closed"
    /\ UNCHANGED <<queueVars, space, stalled, put, written, workflow>>

GetNow ==
    /\ reader = "reading"
    /\ ~stalled
    /\ items # <<>>
    /\ TakeHead
    /\ UNCHANGED <<stalled, written, workflow>>

GetWait ==
    /\ reader = "reading"
    /\ ~stalled
    /\ items = <<>>
    /\ arrived' = FALSE
    /\ reader' = "waiting"
    /\ UNCHANGED <<items, critical, pendingText, space, stalled, put, written, workflow>>

\* The arrival: get loops without looking at the stall.
GetWoken ==
    /\ reader = "waiting"
    /\ arrived
    /\ IF items # <<>>
       THEN TakeHead
       ELSE arrived' = FALSE
            /\ UNCHANGED <<items, critical, pendingText, space, put, reader>>
    /\ UNCHANGED <<stalled, written, workflow>>

\* heartbeat_seconds pass without an event: a keep-alive frame is sent.
Heartbeat ==
    /\ reader = "waiting"
    /\ reader' = "sending"
    /\ UNCHANGED <<queueVars, space, stalled, put, written, workflow>>

Sent ==
    /\ reader = "sending"
    /\ reader' = "reading"
    /\ UNCHANGED <<queueVars, space, stalled, put, written, workflow>>

\* The client goes away, which cancels the generator at whichever await it is.
Disconnect ==
    /\ reader \notin Left
    /\ reader' = "closed"
    /\ UNCHANGED <<queueVars, space, stalled, put, written, workflow>>
-----------------------------------------------------------------------------
Get == GetNow \/ GetWoken

Next ==
    \/ \E n \in Nodes : PutEvent(n) \/ PutText(n) \/ Resume(n) \/ TimeOut(n)
    \/ EndWorkflow \/ FailWorkflow \/ CancelWorkflow
    \/ CloseStalled \/ Get \/ GetWait \/ Heartbeat \/ Sent \/ Disconnect

\* Timers fire, tasks that can run do run, and the graph ends; whether the client
\* reads (Sent) is not the server's to promise.
Fairness ==
    /\ \A n \in Nodes : WF_vars(Resume(n)) /\ WF_vars(TimeOut(n))
    /\ WF_vars(EndWorkflow)
    /\ WF_vars(CloseStalled) /\ WF_vars(GetNow) /\ WF_vars(GetWoken) /\ WF_vars(GetWait)
    /\ WF_vars(Heartbeat)

Spec == Init /\ [][Next]_vars /\ Fairness
-----------------------------------------------------------------------------
\* Properties.

TypeOK ==
    /\ \A i \in 1..Len(items) :
         /\ items[i].kind \in {"text", "event"} \union Terminal
         /\ items[i].chars \in 0..ChunkLimit + MaxChars
         /\ items[i].node \in Writers
         /\ items[i].nos # <<>>
    /\ critical \in Nat
    /\ pendingText \in Nat
    /\ arrived \in BOOLEAN
    /\ space \in BOOLEAN
    /\ stalled \in BOOLEAN
    /\ put \in [Nodes -> [state : {"none", "waiting", "woken"}, chars : 0..MaxChars]]
    /\ written \in [Writers -> [events : Nat, chunks : Nat]]
    /\ workflow \in {"running", "ended"}
    /\ reader \in ReaderStates

\* The two events the sides sleep on always tell the truth about the queue: an
\* entry is never queued with the reader asleep, and no producer waits for room
\* that is there (SSEBuffer._after_append and get keep them by hand).
NoLostWakeup ==
    /\ arrived <=> items # <<>>
    /\ space <=> ~Full(critical, pendingText)
    /\ \A n \in Nodes : put[n].state = "waiting" => ~space

\* A slow client does not let memory grow: while nobody has given up on the reader,
\* the events exceed their limit by at most the other nodes that were waiting when
\* room appeared, and the text by at most one fragment of each node.
MemoryBounded ==
    /\ ~stalled => critical <= CriticalLimit + Cardinality(Nodes) - 1
    /\ pendingText <= TextLimit - 1 + Cardinality(Nodes) * MaxChars

\* The fragments and events of an entry, as the client will see them.
PiecesOf(entry) ==
    [j \in 1..Len(entry.nos) |->
        [writer |-> entry.node,
         kind   |-> IF entry.kind = "text" THEN "text" ELSE "event",
         no     |-> entry.nos[j]]]

Pieces == FlattenSeq([i \in 1..Len(items) |-> PiecesOf(items[i])])

Channel == INSTANCE LosslessChannel
    WITH queue <- Pieces, broken <- stalled, closed <- workflow = "ended",
         Closer <- Workflow, MaxBurst <- 2

\* Bounded, merging and with two counters, the buffer still is the queue it
\* replaced: no event is lost, no character before a stall, nothing is reordered or
\* shown under another node, and nothing follows the terminal event.
ImplementsChannel == Channel!Spec

\* However slow the client is, every put returns: a browser that does not read
\* never holds a node of the run for ever.
EveryPutReturns == \A n \in Nodes : put[n] # NoPut ~> put[n] = NoPut

\* A client that keeps reading gets to the end of its response.
ResponseEnds == []<>(reader # "sending") => <>(reader \in Left)
=============================================================================

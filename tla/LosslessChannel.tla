--------------------------- MODULE LosslessChannel ---------------------------
(***************************************************************************)
(* What the event buffer of one response promises to the workers that      *)
(* write to it and to the client that reads it: one first-in first-out     *)
(* queue in which every event and every chunk of text of every writer      *)
(* appears once, in the order they were written, and the event that closes *)
(* it is the last.  Only a broken channel may skip, and then it skips      *)
(* text, never an event.                                                   *)
(***************************************************************************)
EXTENDS Integers, Sequences

CONSTANTS
    Writers,   \* who may write
    Closer,    \* the writer whose events are the last
    MaxBurst   \* how many events a writer hands over in one step

VARIABLES
    queue,     \* the pieces written and not yet read, oldest first
    written,   \* written[w]: how many events and how many chunks w has written
    broken,    \* the reader is known to have stopped reading
    closed     \* the closing event has been written

channelVars == <<queue, written, broken, closed>>

Piece(w, kind, no) == [writer |-> w, kind |-> kind, no |-> no]

Init ==
    /\ queue = <<>>
    /\ written = [w \in Writers |-> [events |-> 0, chunks |-> 0]]
    /\ broken = FALSE
    /\ closed = FALSE

WriteEvents(w) ==
    /\ ~closed
    /\ closed' = (w = Closer)
    /\ broken => broken'
    /\ \E k \in 1..MaxBurst :
        /\ queue' = queue \o [j \in 1..k |-> Piece(w, "event", written[w].events + j)]
        /\ written' = [written EXCEPT ![w].events = @ + k]

WriteText(w) ==
    /\ ~closed
    /\ queue' = Append(queue, Piece(w, "text", written[w].chunks + 1))
    /\ written' = [written EXCEPT ![w].chunks = @ + 1]
    /\ UNCHANGED <<broken, closed>>

SkipText(w) ==
    /\ ~closed
    /\ broken'
    /\ written' = [written EXCEPT ![w].chunks = @ + 1]
    /\ UNCHANGED <<queue, closed>>

Read ==
    /\ \E n \in 1..Len(queue) : queue' = SubSeq(queue, n + 1, Len(queue))
    /\ UNCHANGED <<written, broken, closed>>

Next ==
    \/ Read
    \/ \E w \in Writers : WriteEvents(w) \/ WriteText(w) \/ SkipText(w)

Spec == Init /\ [][Next]_channelVars
=============================================================================

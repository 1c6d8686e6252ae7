------------------------------- MODULE Channel -------------------------------
(***************************************************************************)
(* What one direction of a connection promises to the protocol above it:   *)
(* a queue of messages.  The writer appends until it closes, or a write    *)
(* fails; the reader takes the message at the head until it closes, or a   *)
(* read fails.  What was written before may be read after the writer has   *)
(* closed; nothing is lost in the middle, doubled or overtaken.            *)
(***************************************************************************)
EXTENDS Sequences

CONSTANT Values

VARIABLES
    writing, reading,   \* the two ends are open
    queue,              \* written and not yet read
    got                 \* read

vars == <<writing, reading, queue, got>>

Init ==
    /\ writing = TRUE /\ reading = TRUE
    /\ queue = <<>> /\ got = <<>>

Put(v) ==
    /\ writing
    /\ queue' = Append(queue, v)
    /\ UNCHANGED <<writing, reading, got>>

Take ==
    /\ reading /\ queue # <<>>
    /\ got' = Append(got, Head(queue))
    /\ queue' = Tail(queue)
    /\ UNCHANGED <<writing, reading>>

WriterCloses ==
    /\ writing
    /\ writing' = FALSE
    /\ UNCHANGED <<reading, queue, got>>

ReaderCloses ==
    /\ reading
    /\ reading' = FALSE
    /\ UNCHANGED <<writing, queue, got>>

Next == Take \/ WriterCloses \/ ReaderCloses \/ \E v \in Values : Put(v)

Spec == Init /\ [][Next]_vars
=============================================================================

----------------------------- MODULE QueueSpec -----------------------------
(***************************************************************************)
(* What a queue promises: a bounded sequence of messages.  Each send,      *)
(* receive or reset, from a task or an interrupt handler, is one step,     *)
(* whatever waiting, waking and retrying there is around it.  Module Queue *)
(* implements this specification.                                          *)
(***************************************************************************)
EXTENDS Sequences, Integers

CONSTANTS Message, NoMessage,
          Length       \* uxLength

VARIABLES contents,    \* the messages, the next to be received first
          delivered    \* what the last receive or peek copied to its caller

absVars == <<contents, delivered>>

AbsInit == contents = <<>> /\ delivered = NoMessage

SendToBack(m) == Len(contents) < Length /\ contents' = Append(contents, m)

SendToFront(m) == Len(contents) < Length /\ contents' = <<m>> \o contents

\* xQueueOverwrite is for queues of length one.
Overwrite(m) == Length = 1 /\ contents' = <<m>>

AbsSend == \E m \in Message :
    /\ SendToBack(m) \/ SendToFront(m) \/ Overwrite(m)
    /\ UNCHANGED delivered

AbsReceive ==
    /\ contents # <<>>
    /\ delivered' = Head(contents)
    /\ contents' = Tail(contents)

AbsPeek ==
    /\ contents # <<>>
    /\ delivered' = Head(contents)
    /\ UNCHANGED contents

AbsReset == contents' = <<>> /\ UNCHANGED delivered

AbsNext == AbsSend \/ AbsReceive \/ AbsPeek \/ AbsReset

AbsSpec == AbsInit /\ [][AbsNext]_absVars
=============================================================================

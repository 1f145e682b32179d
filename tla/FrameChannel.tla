----------------------------- MODULE FrameChannel -----------------------------
(***************************************************************************)
(* What the framing of src/src/codec.cc promises to its users: the messages *)
(* that one end sends are handled at the other in the order in which they   *)
(* were sent, each once and whole, up to the first one whose length is not  *)
(* admitted.  There the receiver shuts the connection down.  Framing is     *)
(* shown to implement this module.                                          *)
(***************************************************************************)
EXTENDS Integers, Sequences

CONSTANTS
    MaxLen,         \* the longest message that is admitted
    Items           \* messages: an announced length and a body

VARIABLES
    sent,           \* the messages sent so far
    handled,        \* the bodies handled so far
    shut,           \* the receiver has shut the connection down
    up              \* the connection is there

vars == <<sent, handled, shut, up>>

Admitted(item) == item.len \in 0..MaxLen

Init ==
    /\ sent = << >>
    /\ handled = << >>
    /\ shut = FALSE
    /\ up = TRUE

Send ==
    /\ up
    /\ \E item \in Items : sent' = Append(sent, item)
    /\ UNCHANGED <<handled, shut, up>>

\* The next message, if there is one
Waiting == Len(handled) < Len(sent)
NextItem == sent[Len(handled) + 1]

Handle ==
    /\ up
    /\ Waiting
    /\ Admitted(NextItem)
    /\ handled' = Append(handled, NextItem.body)
    /\ UNCHANGED <<sent, shut, up>>

Refuse ==
    /\ up
    /\ Waiting
    /\ ~Admitted(NextItem)
    /\ shut' = TRUE
    /\ UNCHANGED <<sent, handled, up>>

Close ==
    /\ up
    /\ up' = FALSE
    /\ UNCHANGED <<sent, handled, shut>>

Next == Send \/ Handle \/ Refuse \/ Close

\* The safety part, and the promise that what was sent is handled or refused
\* while the connection lasts
SafeSpec == Init /\ [][Next]_vars

Spec == SafeSpec /\ WF_vars(Handle) /\ WF_vars(Refuse)
=============================================================================

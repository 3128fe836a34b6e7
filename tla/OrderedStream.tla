---------------------------- MODULE OrderedStream ----------------------------
(***************************************************************************)
(* What a streaming engine call promises the code that reads its events,  *)
(* whatever happens to the call: the reader gets the events in the order  *)
(* the pass produced them, each at most once and with none left out in    *)
(* between, and gets no more of them once the stream has ended.  A stream *)
(* may end at any time, so the promise says nothing about the tail.       *)
(***************************************************************************)
EXTENDS Naturals, Sequences

CONSTANT Event

VARIABLES
  sent,   (* every event the pass has produced, oldest first *)
  got,    (* every event the reader has been handed          *)
  ended   (* the stream takes no more events to the reader   *)

vars == <<sent, got, ended>>

Init ==
  /\ sent = <<>>
  /\ got = <<>>
  /\ ended = FALSE

\* A pass that does not look at its stop token goes on after the end.
Produce ==
  /\ \E e \in Event : sent' = Append(sent, e)
  /\ UNCHANGED <<got, ended>>

Deliver ==
  /\ ~ended
  /\ Len(got) < Len(sent)
  /\ got' = Append(got, sent[Len(got) + 1])
  /\ UNCHANGED <<sent, ended>>

End ==
  /\ ~ended
  /\ ended' = TRUE
  /\ UNCHANGED <<sent, got>>

Next == Produce \/ Deliver \/ End

Spec == Init /\ [][Next]_vars
==============================================================================

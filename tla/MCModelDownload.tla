---------------------------- MODULE MCModelDownload ----------------------------
(* ModelDownload with every step as a disjunct of its own.                        *)
EXTENDS ModelDownload

MCNext ==
  \/ \E c \in Calls : Lock(c)
  \/ \E c \in Calls : LockCancelled(c)
  \/ \E c \in Calls : Probe(c)
  \/ \E c \in Calls : Open(c)
  \/ \E c \in Calls : Receive(c)
  \/ \E c \in Calls : EndTransfer(c)
  \/ \E c \in Calls : Verify(c)
  \/ \E c \in Calls : Install(c)
  \/ \E c \in Calls : Ready(c)
  \/ \E c \in Calls : Deliver(c)
  \/ \E c \in Calls : Fail(c)
  \/ \E c \in Calls : Tell(c)
  \/ \E c \in Calls : Start(c)
  \/ EndJoin \/ HandleMessage \/ RunJunk \/ CancelPrep \/ JunkAnswer \/ Crash

MCSpec == Init /\ [][MCNext]_vars /\ Fairness
================================================================================

-------------------------- MODULE ModelDownloadProofs --------------------------
(* What TLAPS proves of ModelDownload for any number of calls and any size of  *)
(* the files: one call downloads at a time, what is installed is right, and    *)
(* who is told that the model is there finds it there.                         *)
EXTENDS ModelDownload, SequenceTheorems, FiniteSetTheorems, TLAPS

(***************************************************************************)
(* The inductive invariant.  The disk is only touched by the call that     *)
(* holds the mutex; so what it has found and verified stays so until it    *)
(* installs it, and a file that is installed is never touched again.       *)
(***************************************************************************)
Holding == {"probe", "open", "transfer", "verify", "install", "ready", "failed"}
Message == [call : Calls, state : {"downloading", "ready", "failed"}]

TypeOK ==
  /\ dest \in [Assets -> {"none", "good", "bad"}]
  /\ part \in [Assets -> [len : Nat, ok : BOOLEAN]]
  /\ pc \in [Calls -> Holding \cup {"off", "lock", "sent", "tell", "done"}]
  /\ at \in [Calls -> Assets]
  /\ mutex \in Calls \cup {Nobody}
  /\ engineReady \in BOOLEAN
  /\ state \in {"unknown", "downloading", "ready", "failed"}
  /\ inbox \in Seq(Message)
  /\ screen \in {"menu", "prep", "junk"}
  /\ junk \in {"none", "asked", "accepted", "refused"}

\* The calls start one after the other, and each once.
OrderInv == \E k \in 0 .. MaxCalls : Started = 1 .. k

\* The mutex is with the call that downloads, and never with one that does not.
MutexInv ==
  /\ \A c \in Calls : pc[c] \in Holding => mutex = c
  /\ mutex # Nobody => pc[mutex] \in Holding

Verified(f) == f.len = Size /\ f.ok

\* What a call has come to know of the disk.
CallInv ==
  \A c \in Calls :
    /\ pc[c] \in {"off", "lock"} => at[c] = 1
    /\ pc[c] \in Holding => \A a \in Assets : a < at[c] => dest[a] = "good"
    /\ pc[c] = "install" => Verified(part[at[c]])
    /\ pc[c] \in {"ready", "sent"} => \A a \in Assets : dest[a] = "good"

\* No file is ever installed that is not right.
NothingBadInstalled == \A a \in Assets : dest[a] # "bad"

\* Whoever says that the model is there is right.
ReadyInv ==
  \/ engineReady \/ state = "ready" \/ junk # "none"
  \/ \E i \in DOMAIN inbox : inbox[i].state = "ready"
  => \A a \in Assets : dest[a] = "good"

IInv ==
  /\ TypeOK /\ OrderInv /\ MutexInv /\ CallInv /\ NothingBadInstalled /\ ReadyInv
  /\ junk # "refused"
------------------------------------------------------------------------------
(* Types.                                                                     *)

\* A posted message is a message, and what was in the queue stays in it.
LEMMA PostTypes ==
  ASSUME TypeOK, NEW c \in Calls, NEW new \in {"downloading", "ready", "failed"}, Post(c, new)
  PROVE  /\ inbox' \in Seq(Message)
         /\ \A i \in DOMAIN inbox' : inbox'[i].state = "ready" =>
              new = "ready" \/ \E j \in DOMAIN inbox : inbox[j].state = "ready"
<1>1. inbox \in Seq(Message) /\ [call |-> c, state |-> new] \in Message
  BY DEF TypeOK, Message
<1>2. inbox' = Append(inbox, [call |-> c, state |-> new])
  BY DEF Post
<1>3. /\ inbox' \in Seq(Message) /\ Len(inbox') = Len(inbox) + 1
      /\ \A i \in 1 .. Len(inbox) : inbox'[i] = inbox[i]
      /\ inbox'[Len(inbox) + 1] = [call |-> c, state |-> new]
  BY <1>1, <1>2, AppendProperties
<1>4. DOMAIN inbox = 1 .. Len(inbox) /\ DOMAIN inbox' = 1 .. Len(inbox')
  BY <1>1, <1>3, LenProperties
<1>5. Len(inbox) \in Nat
  BY <1>1, LenProperties
<1>6. \A i \in DOMAIN inbox' : i \in DOMAIN inbox \/ i = Len(inbox) + 1
  BY <1>3, <1>4, <1>5
<1> QED BY <1>3, <1>4, <1>6

\* Handling a message takes it out of the queue.
LEMMA TakeTypes ==
  ASSUME TypeOK, inbox # <<>>, inbox' = Tail(inbox)
  PROVE  /\ inbox' \in Seq(Message) /\ Head(inbox) \in Message
         /\ 1 \in DOMAIN inbox /\ Head(inbox) = inbox[1]
         /\ \A i \in DOMAIN inbox' : \E j \in DOMAIN inbox : inbox'[i] = inbox[j]
<1>1. inbox \in Seq(Message)
  BY DEF TypeOK
<1>2. /\ inbox' \in Seq(Message) /\ Head(inbox) \in Message /\ Head(inbox) = inbox[1]
      /\ Len(inbox') = Len(inbox) - 1
      /\ \A i \in 1 .. Len(inbox') : inbox'[i] = inbox[i + 1]
  BY <1>1, HeadTailProperties
<1>3. /\ DOMAIN inbox = 1 .. Len(inbox) /\ DOMAIN inbox' = 1 .. Len(inbox')
      /\ Len(inbox) \in Nat /\ Len(inbox) # 0
  BY <1>1, <1>2, LenProperties, EmptySeq
<1>4. \A i \in DOMAIN inbox' : i + 1 \in DOMAIN inbox
  BY <1>2, <1>3
<1> QED BY <1>2, <1>3, <1>4

\* The steps of a call keep the types.
LEMMA StepTypes ==
  ASSUME TypeOK, NEW c \in Calls, Step(c)
  PROVE  TypeOK'
<1> USE DEF Assets, Holding
<1>1. CASE Lock(c) \/ LockCancelled(c)
  BY <1>1 DEF Lock, LockCancelled, Goto, TypeOK, disk, gui, news
<1>2. CASE Probe(c)
  BY <1>2 DEF Probe, Goto, TypeOK, disk, gui, news
<1>3. CASE Open(c) \/ Verify(c)
  <2>1. None \in [len : Nat, ok : BOOLEAN]
    BY DEF None
  <2> QED BY <1>3, <2>1 DEF Open, Verify, Goto, TypeOK, gui, news
<1>4. CASE Receive(c)
  <2>1. inbox' \in Seq(Message)
    BY <1>4, PostTypes DEF Receive, TypeOK
  <2>2. PICK right \in BOOLEAN :
          part' = [part EXCEPT ![at[c]] = [len |-> @.len + 1, ok |-> @.ok /\ right]]
    BY <1>4 DEF Receive
  <2>3. at[c] \in Assets /\ part[at[c]].len \in Nat /\ part[at[c]].ok \in BOOLEAN
    BY DEF TypeOK
  <2>4. part' \in [Assets -> [len : Nat, ok : BOOLEAN]]
    <3>1. [len |-> part[at[c]].len + 1, ok |-> part[at[c]].ok /\ right]
            \in [len : Nat, ok : BOOLEAN]
      BY <2>3
    <3> QED BY <2>2, <3>1 DEF TypeOK
  <2> QED BY <1>4, <2>1, <2>4 DEF Receive, TypeOK, engine, gui
<1>5. CASE EndTransfer(c) \/ Fail(c)
  BY <1>5 DEF EndTransfer, Fail, Goto, TypeOK, disk, gui, news
<1>6. CASE Install(c)
  <2>1. None \in [len : Nat, ok : BOOLEAN]
    BY DEF None
  <2>2. dest' \in [Assets -> {"none", "good", "bad"}]
    BY <1>6 DEF Install, TypeOK, disk
  <2>3. part' \in [Assets -> [len : Nat, ok : BOOLEAN]]
    BY <1>6, <2>1 DEF Install, TypeOK, disk
  <2>4. pc' \in [Calls -> Holding \cup {"off", "lock", "sent", "tell", "done"}]
    BY <1>6 DEF Install, Goto, TypeOK
  <2> QED BY <1>6, <2>2, <2>3, <2>4 DEF Install, TypeOK, gui, news
<1>7. CASE Ready(c)
  BY <1>7 DEF Ready, Goto, TypeOK, disk, gui, news
<1>8. CASE Deliver(c) \/ Tell(c)
  <2>1. inbox' \in Seq(Message)
    BY <1>8, PostTypes DEF Deliver, Tell, TypeOK
  <2> QED BY <1>8, <2>1 DEF Deliver, Tell, Goto, TypeOK, disk, gui
<1> QED BY <1>1, <1>2, <1>3, <1>4, <1>5, <1>6, <1>7, <1>8 DEF Step

\* The types are kept by every step.
LEMMA NextTypes ==
  ASSUME TypeOK, [Next]_vars
  PROVE  TypeOK'
<1>1. ASSUME NEW c \in Calls, Step(c) PROVE TypeOK'
  BY <1>1, StepTypes
<1>2. ASSUME NEW c \in Calls, Start(c) PROVE TypeOK'
  BY <1>2 DEF Start, TypeOK, Holding, disk, news
<1>3. CASE EndJoin
  BY <1>3 DEF EndJoin, TypeOK, disk, engine, news
<1>4. CASE HandleMessage
  <2>1. inbox' \in Seq(Message) /\ Head(inbox) \in Message
    BY <1>4, TakeTypes DEF HandleMessage
  <2> QED BY <1>4, <2>1 DEF HandleMessage, TypeOK, Message, disk, engine
<1>5. CASE RunJunk \/ CancelPrep
  BY <1>5 DEF RunJunk, CancelPrep, TypeOK, disk, engine, news
<1>6. CASE JunkAnswer
  BY <1>6 DEF JunkAnswer, TypeOK, disk, gui, news
<1>7. CASE Crash
  <2>1. part' \in [Assets -> [len : Nat, ok : BOOLEAN]]
    <3>1. ASSUME NEW d \in Calls, NEW n \in 0 .. Size, NEW right \in {part[at[d]].ok, TRUE},
                 part' = [part EXCEPT ![at[d]] = [len |-> n, ok |-> right \/ n = 0]]
          PROVE  part' \in [Assets -> [len : Nat, ok : BOOLEAN]]
      <4>1. n \in Nat
        BY BoundAssumption
      <4>2. [len |-> n, ok |-> right \/ n = 0] \in [len : Nat, ok : BOOLEAN]
        BY <4>1
      <4> QED BY <3>1, <4>2 DEF TypeOK
    <3> QED BY <1>7, <3>1 DEF Crash, TypeOK
  <2>2. inbox' \in Seq(Message)
    BY <1>7, EmptySeq DEF Crash
  <2>3. /\ pc' = [c \in Calls |-> "off"] /\ at' = [c \in Calls |-> 1] /\ mutex' = Nobody
        /\ engineReady' = FALSE /\ state' = "unknown" /\ screen' = "menu" /\ junk' = "none"
        /\ dest' = dest
    BY <1>7 DEF Crash
  <2>4. pc' \in [Calls -> Holding \cup {"off", "lock", "sent", "tell", "done"}]
    BY <2>3
  <2>5. at' \in [Calls -> Assets]
    BY <2>3 DEF Assets
  <2> QED BY <2>1, <2>2, <2>3, <2>4, <2>5 DEF TypeOK
<1>8. CASE UNCHANGED vars
  BY <1>8 DEF vars, TypeOK, disk, engine, gui, news
<1> QED BY <1>1, <1>2, <1>3, <1>4, <1>5, <1>6, <1>7, <1>8 DEF Next

------------------------------------------------------------------------------
(* The calls one after the other.                                             *)

\* The call that starts has not started before.
LEMMA StartsNew ==
  ASSUME TypeOK, OrderInv, NEW c \in Calls, Start(c)
  PROVE  pc[c] = "off" /\ Started' = Started \cup {c} /\ Started = 1 .. (c - 1)
<1>1. PICK k \in 0 .. MaxCalls : Started = 1 .. k
  BY DEF OrderInv
<1>2. k \in Nat /\ MaxCalls \in Nat
  BY BoundAssumption
<1>3. Cardinality(1 .. k) = k
  BY <1>2, FS_Interval
<1>4. c = k + 1
  BY <1>1, <1>3 DEF Start, LastCall
<1>5. c \notin Started
  BY <1>1, <1>2, <1>4
<1>6. pc[c] = "off"
  BY <1>5 DEF Started
<1>7. Started = 1 .. (c - 1)
  BY <1>1, <1>2, <1>4
<1>8. pc' = [pc EXCEPT ![c] = "lock"]
  BY DEF Start
<1>9. \A d \in Calls : pc'[d] = IF d = c THEN "lock" ELSE pc[d]
  BY <1>8 DEF TypeOK
<1>10. Started' = Started \cup {c}
  BY <1>9 DEF Started
<1> QED BY <1>6, <1>7, <1>10

\* The calls go on in their order.
LEMMA NextOrder ==
  ASSUME TypeOK, OrderInv, [Next]_vars
  PROVE  OrderInv'
<1>1. ASSUME Started' = Started PROVE OrderInv'
  BY <1>1 DEF OrderInv
<1>2. ASSUME NEW c \in Calls, Step(c) PROVE Started' = Started
  BY <1>2 DEF Step, Lock, LockCancelled, Probe, Open, Receive, EndTransfer, Verify, Install,
    Ready, Deliver, Fail, Tell, Goto, TypeOK, Started, engine
<1>3. ASSUME NEW c \in Calls, Start(c) PROVE OrderInv'
  <2>1. Started' = Started \cup {c} /\ Started = 1 .. (c - 1)
    BY <1>3, StartsNew
  <2>2. Started' = 1 .. c /\ c \in 0 .. MaxCalls
    BY <2>1 DEF Calls
  <2> QED BY <2>2 DEF OrderInv
<1>4. CASE EndJoin \/ HandleMessage \/ RunJunk \/ CancelPrep
  <2>1. Started' = Started
    BY <1>4 DEF EndJoin, HandleMessage, RunJunk, CancelPrep, engine, Started
  <2> QED BY <1>1, <2>1
<1>5. CASE JunkAnswer \/ UNCHANGED vars
  <2>1. Started' = Started
    BY <1>5 DEF JunkAnswer, vars, engine, Started
  <2> QED BY <1>1, <2>1
<1>6. CASE Crash
  <2>1. Started' = 1 .. 0 /\ 0 \in 0 .. MaxCalls
    BY <1>6, BoundAssumption DEF Crash, Started
  <2> QED BY <2>1 DEF OrderInv
<1> QED BY <1>1, <1>2, <1>3, <1>4, <1>5, <1>6 DEF Next

------------------------------------------------------------------------------
(* The mutex.                                                                 *)

\* A call that starts holds nothing, and the mutex passes from one call to the next.
LEMMA NextMutex ==
  ASSUME TypeOK, OrderInv, MutexInv, [Next]_vars
  PROVE  MutexInv'
<1> USE DEF MutexInv
<1>1. ASSUME NEW c \in Calls, Step(c) PROVE MutexInv'
  <2>1. Nobody \notin Calls
    BY BoundAssumption DEF Calls, Nobody
  <2>2. CASE Lock(c)
    BY <2>1, <2>2 DEF Lock, Goto, TypeOK, Holding
  <2>3. CASE LockCancelled(c) \/ Deliver(c) \/ Tell(c)
    BY <2>3 DEF LockCancelled, Deliver, Tell, Goto, TypeOK, Holding
  <2>4. CASE Probe(c) \/ Open(c) \/ Receive(c) \/ EndTransfer(c) \/ Verify(c) \/ Install(c)
    <3>1. pc[c] \in Holding /\ mutex' = mutex
      BY <2>4 DEF Probe, Open, Receive, EndTransfer, Verify, Install, Goto, Holding, engine
    <3>2. pc' = pc \/ \E to \in Holding : pc' = [pc EXCEPT ![c] = to]
      BY <2>4 DEF Probe, Open, Receive, EndTransfer, Verify, Install, Goto, Holding, engine
    <3> QED BY <3>1, <3>2 DEF TypeOK
  <2>5. CASE Ready(c) \/ Fail(c)
    <3>1. pc[c] \in Holding /\ mutex' = Nobody
      BY <2>5 DEF Ready, Fail, Goto, Holding
    <3>2. \E to \in {"sent", "done", "tell"} : pc' = [pc EXCEPT ![c] = to]
      BY <2>5 DEF Ready, Fail, Goto
    <3> QED BY <3>1, <3>2 DEF TypeOK, Holding
  <2> QED BY <1>1, <2>2, <2>3, <2>4, <2>5 DEF Step
<1>2. ASSUME NEW c \in Calls, Start(c) PROVE MutexInv'
  <2>1. pc[c] \notin Holding
    BY <1>2, StartsNew DEF Holding
  <2> QED BY <1>2, <2>1 DEF Start, TypeOK, Holding, Nobody
<1>3. CASE EndJoin \/ HandleMessage \/ RunJunk \/ CancelPrep
  BY <1>3 DEF EndJoin, HandleMessage, RunJunk, CancelPrep, engine
<1>4. CASE JunkAnswer
  BY <1>4 DEF JunkAnswer
<1>5. CASE Crash
  BY <1>5 DEF Crash, Holding
<1>6. CASE UNCHANGED vars
  BY <1>6 DEF vars, engine
<1> QED BY <1>1, <1>2, <1>3, <1>4, <1>5, <1>6 DEF Next

------------------------------------------------------------------------------
(* What a call knows of the disk.                                             *)

\* What a call has found it keeps finding:  nobody takes away what is installed.
LEMMA NextCall ==
  ASSUME TypeOK, OrderInv, MutexInv, CallInv, NothingBadInstalled, [Next]_vars
  PROVE  CallInv' /\ NothingBadInstalled'
<1> USE DEF NothingBadInstalled
<1>1. ASSUME NEW c \in Calls, Step(c) PROVE CallInv' /\ NothingBadInstalled'
  <2>1. CASE Lock(c) \/ LockCancelled(c) \/ EndTransfer(c) \/ Fail(c)
    BY <1>1, <2>1 DEF CallInv, Lock, LockCancelled, EndTransfer, Fail, Goto, TypeOK, Holding,
      Assets, disk
  <2>2. CASE Probe(c)
    <3>1. CASE ~AssetReady(at[c])
      BY <2>2, <3>1 DEF CallInv, Probe, Goto, TypeOK, Holding, disk
    <3>2. CASE AssetReady(at[c]) /\ at[c] + 1 \in Assets
      BY <2>2, <3>2 DEF CallInv, Probe, AssetReady, Goto, TypeOK, Holding, Assets, disk
    <3>3. CASE AssetReady(at[c]) /\ at[c] + 1 \notin Assets
      BY <2>2, <3>3 DEF CallInv, Probe, AssetReady, Goto, TypeOK, Holding, Assets, disk
    <3> QED BY <3>1, <3>2, <3>3
  <2>3. CASE Open(c) \/ Receive(c) \/ Verify(c)
    <3>1. mutex = c /\ pc[c] # "install" /\ mutex' = mutex /\ at' = at /\ dest' = dest
      BY <2>3 DEF Open, Receive, Verify, Goto, MutexInv, Holding, engine
    <3>2. \A d \in Calls \ {c} : pc[d] \notin Holding /\ pc'[d] = pc[d]
      BY <2>3, <3>1 DEF Open, Receive, Verify, Goto, MutexInv, TypeOK, engine
    <3>3. pc'[c] = "install" => Verified(part[at[c]]) /\ part' = part
      BY <2>3 DEF Open, Receive, Verify, Verified, Goto, TypeOK, engine
    <3>4. pc[c] \in Holding /\ pc'[c] \in {"transfer", "failed", "verify", "install"}
      BY <2>3 DEF Open, Receive, Verify, Goto, TypeOK, Holding, engine
    <3> QED BY <3>1, <3>2, <3>3, <3>4 DEF CallInv, Holding
  <2>4. CASE Install(c)
    <3>1. mutex = c /\ at' = at
      BY <2>4 DEF Install, Goto, MutexInv, Holding
    <3>2. \A d \in Calls \ {c} : pc[d] \notin Holding /\ pc'[d] = pc[d]
      BY <2>4, <3>1 DEF Install, Goto, MutexInv, TypeOK
    <3>3. pc[c] = "install" /\ pc'[c] \in {"probe", "failed"}
      BY <2>4 DEF Install, Goto, TypeOK
    <3>4. part[at[c]] = [len |-> Size, ok |-> TRUE]
      BY <3>3 DEF CallInv, Verified, TypeOK
    <3>5. dest' = dest \/ dest' = [dest EXCEPT ![at[c]] = "good"]
      BY <2>4, <3>4 DEF Install, disk
    <3> QED BY <3>1, <3>2, <3>3, <3>5 DEF CallInv, Holding, TypeOK
  <2>5. CASE Ready(c) \/ Deliver(c) \/ Tell(c)
    BY <1>1, <2>5 DEF CallInv, Ready, Deliver, Tell, Goto, TypeOK, Holding, disk
  <2> QED BY <1>1, <2>1, <2>2, <2>3, <2>4, <2>5 DEF Step
<1>2. ASSUME NEW c \in Calls, Start(c) PROVE CallInv' /\ NothingBadInstalled'
  <2>1. pc[c] = "off"
    BY <1>2, StartsNew
  <2> QED BY <1>2, <2>1 DEF Start, CallInv, TypeOK, Holding, disk
<1>3. CASE EndJoin \/ HandleMessage \/ RunJunk \/ CancelPrep
  BY <1>3 DEF EndJoin, HandleMessage, RunJunk, CancelPrep, CallInv, disk, engine
<1>4. CASE JunkAnswer
  BY <1>4 DEF JunkAnswer, CallInv, disk
<1>5. CASE Crash
  BY <1>5 DEF Crash, CallInv, Holding, Assets
<1>6. CASE UNCHANGED vars
  BY <1>6 DEF vars, CallInv, disk, engine
<1> QED BY <1>1, <1>2, <1>3, <1>4, <1>5, <1>6 DEF Next

------------------------------------------------------------------------------
(* The news that the model is there.                                          *)

\* A file that is there and right stays so.
LEMMA NextKeeps ==
  ASSUME TypeOK, CallInv, [Next]_vars
  PROVE  \A a \in Assets : dest[a] = "good" => dest'[a] = "good"
<1>1. ASSUME NEW c \in Calls, Install(c)
      PROVE  dest' = dest \/ dest' = [dest EXCEPT ![at[c]] = "good"]
  <2>1. part[at[c]] = [len |-> Size, ok |-> TRUE] \/ pc[c] # "install"
    BY DEF CallInv, Verified, TypeOK
  <2> QED BY <1>1, <2>1 DEF Install, Goto, disk
<1>2. ASSUME NEW c \in Calls, Step(c), ~Install(c) PROVE dest' = dest
  BY <1>2 DEF Step, Lock, LockCancelled, Probe, Open, Receive, EndTransfer, Verify, Ready,
    Deliver, Fail, Tell, disk
<1>3. ASSUME NEW c \in Calls, Start(c) PROVE dest' = dest
  BY <1>3 DEF Start, disk
<1>4. CASE EndJoin \/ HandleMessage \/ RunJunk \/ CancelPrep \/ JunkAnswer \/ Crash
  BY <1>4 DEF EndJoin, HandleMessage, RunJunk, CancelPrep, JunkAnswer, Crash, disk
<1>5. CASE UNCHANGED vars
  BY <1>5 DEF vars, disk
<1> QED BY <1>1, <1>2, <1>3, <1>4, <1>5 DEF Next, TypeOK

\* Nobody says that the model is there before it is.
LEMMA NextReady ==
  ASSUME IInv, [Next]_vars
  PROVE  ReadyInv' /\ junk' # "refused"
<1> DEFINE Known == \A a \in Assets : dest[a] = "good"
           Said == \/ engineReady \/ state = "ready" \/ junk # "none"
                   \/ \E i \in DOMAIN inbox : inbox[i].state = "ready"
<1>1. Known => Known'
  BY NextKeeps DEF IInv
<1>2. Said => Known
  BY DEF IInv, ReadyInv
<1>3. ASSUME Said' => Said \/ Known PROVE ReadyInv'
  BY <1>1, <1>2, <1>3 DEF ReadyInv
<1> HIDE DEF Known
<1>4. ASSUME NEW c \in Calls, Step(c)
      PROVE  (Said' => Said \/ Known) /\ junk' = junk
  <2>1. CASE Lock(c) \/ LockCancelled(c) \/ Probe(c) \/ Open(c) \/ EndTransfer(c) \/ Verify(c)
             \/ Install(c) \/ Fail(c)
    BY <2>1 DEF Lock, LockCancelled, Probe, Open, EndTransfer, Verify, Install, Fail, gui,
      news
  <2>2. CASE Receive(c)
    <3>1. UNCHANGED inbox \/ Post(c, "downloading")
      BY <2>2 DEF Receive
    <3>2. \A i \in DOMAIN inbox' : inbox'[i].state = "ready" =>
             \E j \in DOMAIN inbox : inbox[j].state = "ready"
      BY <3>1, PostTypes DEF IInv
    <3> QED BY <2>2, <3>2 DEF Receive, engine, gui
  <2>3. CASE Tell(c)
    <3>1. \A i \in DOMAIN inbox' : inbox'[i].state = "ready" =>
             \E j \in DOMAIN inbox : inbox[j].state = "ready"
      BY <2>3, PostTypes DEF IInv, Tell
    <3> QED BY <2>3, <3>1 DEF Tell, gui
  <2>4. CASE Ready(c) \/ Deliver(c)
    <3>1. pc[c] \in {"ready", "sent"} /\ junk' = junk
      BY <2>4 DEF Ready, Deliver, Goto
    <3> QED BY <3>1 DEF IInv, CallInv, Known
  <2> QED BY <1>4, <2>1, <2>2, <2>3, <2>4 DEF Step
<1>5. ASSUME NEW c \in Calls, Start(c)
      PROVE  (Said' => Said \/ Known) /\ junk' = junk
  BY <1>5 DEF Start, news
<1>6. CASE EndJoin \/ CancelPrep
  <2>1. (Said' => Said \/ Known) /\ junk' = junk
    BY <1>6 DEF EndJoin, CancelPrep, engine, gui, news
  <2> QED BY <1>3, <2>1 DEF IInv
<1>7. CASE HandleMessage
  <2>1. /\ 1 \in DOMAIN inbox /\ Head(inbox) = inbox[1]
        /\ \A i \in DOMAIN inbox' : \E j \in DOMAIN inbox : inbox'[i] = inbox[j]
    BY <1>7, TakeTypes DEF IInv, HandleMessage
  <2>2. Said' => Said
    BY <1>7, <2>1 DEF HandleMessage, engine
  <2>3. junk' = junk \/ junk' = "asked"
    BY <1>7 DEF HandleMessage
  <2> QED BY <1>3, <2>2, <2>3 DEF IInv
<1>8. CASE RunJunk
  BY <1>3, <1>8 DEF RunJunk, engine, news, IInv
<1>9. CASE JunkAnswer
  <2>1. Said /\ Known
    BY <1>2, <1>9 DEF JunkAnswer, news
  <2>2. junk' = "accepted"
    BY <1>9, <2>1 DEF JunkAnswer, Known, AssetReady
  <2> QED BY <1>3, <2>1, <2>2
<1>10. CASE Crash
  BY <1>3, <1>10 DEF Crash
<1>11. CASE UNCHANGED vars
  BY <1>3, <1>11 DEF vars, engine, gui, news, IInv
<1> QED
  BY <1>3, <1>4, <1>5, <1>6, <1>7, <1>8, <1>9, <1>10, <1>11 DEF Next, IInv

------------------------------------------------------------------------------
(* The invariant, and what follows.                                           *)

\* It holds of the first start of the app, and every step keeps it.
THEOREM DownloadInductiveInvariant == Spec => []IInv
<1>1. Init => IInv
  <2> SUFFICES ASSUME Init PROVE IInv
    OBVIOUS
  <2> USE DEF Init, Volatile
  <2>1. TypeOK
    <3>1. None \in [len : Nat, ok : BOOLEAN] /\ inbox \in Seq(Message)
      BY EmptySeq DEF None
    <3>2. pc \in [Calls -> Holding \cup {"off", "lock", "sent", "tell", "done"}]
      BY DEF Holding
    <3>3. at \in [Calls -> Assets]
      BY DEF Assets
    <3>4. part \in [Assets -> [len : Nat, ok : BOOLEAN]]
      BY <3>1
    <3> QED BY <3>1, <3>2, <3>3, <3>4 DEF TypeOK
  <2>2. OrderInv
    <3>1. Started = 1 .. 0 /\ 0 \in 0 .. MaxCalls
      BY BoundAssumption DEF Started
    <3> QED BY <3>1 DEF OrderInv
  <2>3. MutexInv /\ CallInv /\ NothingBadInstalled /\ ReadyInv /\ junk # "refused"
    BY EmptySeq DEF MutexInv, CallInv, NothingBadInstalled, ReadyInv, Holding
  <2> QED BY <2>1, <2>2, <2>3 DEF IInv
<1>2. IInv /\ [Next]_vars => IInv'
  BY NextTypes, NextOrder, NextMutex, NextCall, NextReady DEF IInv
<1> QED BY <1>1, <1>2, PTL DEF Spec

\* The wizard asks for the junk pass only when both files are there, and the engine accepts
\* it, for any number of EnsureModel calls and at whatever point the app died before.
THEOREM JunkPassAlwaysHasModel == Spec => []JunkPassHasModel
<1>1. IInv => JunkPassHasModel
  BY DEF IInv, ReadyInv, JunkPassHasModel
<1> QED BY <1>1, DownloadInductiveInvariant, PTL

\* Whatever was downloaded, resumed, cut off and appended to: no file that is not the one
\* asked for is ever renamed to its name, where asset_ready would believe it for good.
THEOREM NothingBadIsInstalled == Spec => []NothingBadInstalled
<1>1. IInv => NothingBadInstalled
  BY DEF IInv
<1> QED BY <1>1, DownloadInductiveInvariant, PTL

\* What two calls, the old one that is not joined yet and its successor, never do at a time:
\* touch the files.
OneDownloads == \A c, d \in Calls : pc[c] \in Holding /\ pc[d] \in Holding => c = d

THEOREM OneCallDownloads == Spec => []OneDownloads
<1>1. IInv => OneDownloads
  BY DEF IInv, MutexInv, OneDownloads
<1> QED BY <1>1, DownloadInductiveInvariant, PTL
================================================================================

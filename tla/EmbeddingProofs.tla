--------------------------- MODULE EmbeddingProofs ---------------------------
(***************************************************************************)
(* Proofs about embedding.Client for any number of calls and faults.       *)
(*                                                                         *)
(* NoStrayReply needs to know that the call in the middle of an exchange   *)
(* holds the mutex and that there is one frame at most.  FailuresBounded   *)
(* needs a fault in reserve for the broken connection.  EndsInTime needs   *)
(* what is known between holds: how long each call has waited by the time  *)
(* the mutex was last taken, which is one hold for each call that ended.   *)
(***************************************************************************)
EXTENDS EmbeddingClient, FiniteSetTheorems, SequenceTheorems, TLAPS

Active(c) == pc[c] \in {"dial", "write", "read"}

\* The active call holds the mutex, and the holder is active.
Holding ==
  /\ \A c \in Calls : Active(c) => mutex = c
  /\ mutex # Nobody => Active(mutex)

\* The frames on the connection.
Frames == Len(requests) + Len(replies) + (IF work = Nobody THEN 0 ELSE 1)

OneFrame == Frames <= 1

LEMMA Numbers ==
  /\ Timeout \in Nat /\ DialLimit \in Nat /\ MaxFaults \in Nat /\ Horizon \in Nat
  /\ Hold \in Nat /\ Timeout <= Hold /\ DialLimit <= Hold
  /\ Nobody \notin Calls
BY EmbeddingAssumption DEF Hold

-----------------------------------------------------------------------------
(* Types *)

LEMMA InitType == Init => TypeOK
BY Numbers DEF Init, TypeOK, Phases, Ends

LEMMA NextType == ASSUME TypeOK, [Next]_vars PROVE TypeOK'
<1> USE Numbers DEF TypeOK, Phases, Ends, Goto, End, Return, ResetConn, Silent, Fault,
                    wire, IOLimit
<1>1. CASE Tick
  BY <1>1 DEF Tick
<1>2. ASSUME NEW c \in Calls, Begin(c) PROVE TypeOK'
  <2>1. CASE Goto(c, "lock")
    <3>1. now + Timeout \in 0 .. Horizon + Timeout
      OBVIOUS
    <3>2. deadline' \in [Calls -> 0 .. Horizon + Timeout] /\ pc' \in [Calls -> Phases]
      BY <1>2, <2>1, <3>1 DEF Begin
    <3>3. QED BY <1>2, <2>1, <3>2 DEF Begin
  <2>2. CASE End(c, "cancelled")
    BY <1>2, <2>2 DEF Begin
  <2>3. QED BY <1>2, <2>1, <2>2 DEF Begin
<1>3. ASSUME NEW c \in Calls, Lock(c) PROVE TypeOK'
  BY <1>3 DEF Lock
<1>4. ASSUME NEW c \in Calls, Dial(c) PROVE TypeOK'
  BY <1>4 DEF Dial
<1>5. ASSUME NEW c \in Calls, DialFails(c) PROVE TypeOK'
  BY <1>5 DEF DialFails
<1>6. ASSUME NEW c \in Calls, Write(c) PROVE TypeOK'
  BY <1>6 DEF Write
<1>7. ASSUME NEW c \in Calls, Broken(c) PROVE TypeOK'
  BY <1>7 DEF Broken
<1>8. ASSUME NEW c \in Calls, Read(c) PROVE TypeOK'
  <2>1. PICK how \in Ends : Return(c, how)
    BY <1>8 DEF Read
  <2>2. /\ conn' \in {"none", "open", "dead"}
        /\ requests' \in Seq(Calls)
        /\ work' \in Calls \cup {Nobody}
        /\ replies' \in Seq([to : Calls, ok : BOOLEAN])
    <3>1. CASE Head(replies).to = c
      <4>1. replies' = Tail(replies) /\ UNCHANGED <<conn, requests, work>> /\ replies # <<>>
        BY <1>8, <3>1 DEF Read
      <4>2. QED BY <4>1
    <3>2. CASE Head(replies).to # c
      <4>1. ResetConn
        BY <1>8, <3>2 DEF Read
      <4>2. QED BY <4>1
    <3>3. QED BY <3>1, <3>2
  <2>3. UNCHANGED <<now, faults>>
    BY <1>8 DEF Read
  <2>4. QED BY <2>1, <2>2, <2>3
<1>9. ASSUME NEW c \in Calls, Expire(c) PROVE TypeOK'
  BY <1>9 DEF Expire
<1>10. CASE Receive
  BY <1>10 DEF Receive
<1>11. CASE Reply
  BY <1>11 DEF Reply
<1>12. CASE Hangup
  <2>1. replies' \in Seq([to : Calls, ok : BOOLEAN]) /\ requests' \in Seq(Calls)
    <3>1. CASE replies' = replies
      BY <1>12, <3>1 DEF Hangup
    <3>2. CASE replies' = <<>>
      BY <1>12, <3>2 DEF Hangup
    <3>3. QED BY <1>12, <3>1, <3>2 DEF Hangup
  <2>2. QED BY <1>12, <2>1 DEF Hangup
<1>13. CASE UNCHANGED vars
  BY <1>13 DEF vars
<1>14. QED
  BY <1>1, <1>2, <1>3, <1>4, <1>5, <1>6, <1>7, <1>8, <1>9, <1>10, <1>11, <1>12, <1>13 DEF Next

\* The variables keep their types.
THEOREM TypeCorrect == Spec => []TypeOK
BY InitType, NextType, PTL DEF Spec

-----------------------------------------------------------------------------
(* One exchange at a time *)

LEMMA NextHolding == ASSUME TypeOK, Holding, [Next]_vars PROVE Holding'
<1> USE Numbers DEF TypeOK, Phases, Holding, Active, Goto, End, Return
<1>1. CASE Tick
  BY <1>1 DEF Tick
<1>2. ASSUME NEW c \in Calls, Begin(c) PROVE Holding'
  BY <1>2 DEF Begin
<1>3. ASSUME NEW c \in Calls, Lock(c) PROVE Holding'
  BY <1>3 DEF Lock
<1>4. ASSUME NEW c \in Calls, Dial(c) PROVE Holding'
  BY <1>4 DEF Dial
<1>5. ASSUME NEW c \in Calls, DialFails(c) PROVE Holding'
  BY <1>5 DEF DialFails
<1>6. ASSUME NEW c \in Calls, Write(c) PROVE Holding'
  BY <1>6 DEF Write
<1>7. ASSUME NEW c \in Calls, Broken(c) PROVE Holding'
  BY <1>7 DEF Broken
<1>8. ASSUME NEW c \in Calls, Read(c) PROVE Holding'
  BY <1>8 DEF Read
<1>9. ASSUME NEW c \in Calls, Expire(c) PROVE Holding'
  BY <1>9 DEF Expire
<1>10. CASE Receive \/ Reply \/ Hangup \/ UNCHANGED vars
  BY <1>10 DEF Receive, Reply, Hangup, vars
<1>11. QED
  BY <1>1, <1>2, <1>3, <1>4, <1>5, <1>6, <1>7, <1>8, <1>9, <1>10 DEF Next

\* With no frame on the connection nothing is on the way, and conversely.
LEMMA NoFrame == ASSUME TypeOK PROVE
  /\ OnTheWay = {} <=> requests = <<>> /\ work = Nobody /\ replies = <<>>
  /\ OnTheWay = {} => Frames = 0
<1>1. requests = <<>> /\ work = Nobody /\ replies = <<>> => OnTheWay = {} /\ Frames = 0
  BY DEF OnTheWay, Frames
<1>2. ASSUME requests # <<>> PROVE OnTheWay # {}
  <2>1. 1 \in 1 .. Len(requests)
    BY <1>2 DEF TypeOK
  <2>2. QED BY <2>1 DEF OnTheWay
<1>3. ASSUME replies # <<>> PROVE OnTheWay # {}
  <2>1. 1 \in 1 .. Len(replies)
    BY <1>3 DEF TypeOK
  <2>2. QED BY <2>1 DEF OnTheWay
<1>4. ASSUME work # Nobody PROVE OnTheWay # {}
  BY <1>4 DEF OnTheWay
<1>5. QED BY <1>1, <1>2, <1>3, <1>4

Exchange == NoStrayReply /\ OneFrame

LEMMA InitExchange == Init => Holding /\ Exchange
<1> SUFFICES ASSUME Init PROVE Holding /\ Exchange
  OBVIOUS
<1>1. Holding
  BY Numbers DEF Init, Holding, Active
<1>2. Exchange
  BY DEF Init, Exchange, NoStrayReply, OneFrame, OnTheWay, Frames
<1>3. QED BY <1>1, <1>2

LEMMA NextExchange ==
  ASSUME TypeOK, TypeOK', Holding, Exchange, [Next]_vars PROVE Exchange'
<1> USE Numbers DEF Exchange, NoStrayReply, OneFrame
<1>1. ASSUME UNCHANGED wire, Reading' = Reading PROVE Exchange'
  BY <1>1 DEF wire, OnTheWay, Frames
<1>2. ASSUME Silent PROVE Exchange'
  BY <1>2 DEF Silent, OnTheWay, Frames
<1>3. CASE Tick \/ UNCHANGED vars
  BY <1>1, <1>3 DEF Tick, vars, Reading
<1>4. ASSUME NEW c \in Calls, Begin(c) PROVE Exchange'
  BY <1>1, <1>4 DEF Begin, Goto, End, Reading, TypeOK
<1>5. ASSUME NEW c \in Calls, Lock(c) PROVE Exchange'
  <2>1. Reading = {}
    BY <1>5 DEF Lock, Reading
  <2>2. requests = <<>> /\ work = Nobody /\ replies = <<>>
    BY <2>1, NoFrame
  <2>3. QED BY <1>2, <1>5, <2>2 DEF Lock, Silent, wire
<1>6. ASSUME NEW c \in Calls, Dial(c) \/ DialFails(c) PROVE Exchange'
  <2>1. Reading = {}
    BY <1>6 DEF Dial, DialFails, Reading, Holding, Active
  <2>2. requests = <<>> /\ work = Nobody /\ replies = <<>>
    BY <2>1, NoFrame
  <2>3. QED BY <1>2, <1>6, <2>2 DEF Dial, DialFails, Silent, wire
<1>7. ASSUME NEW c \in Calls, Write(c) PROVE Exchange'
  <2>1. mutex = c /\ pc[c] = "write"
    BY <1>7 DEF Write, Holding, Active
  <2>2. Reading = {}
    BY <2>1 DEF Reading
  <2>3. requests = <<>> /\ work = Nobody /\ replies = <<>>
    BY <2>2, NoFrame
  <2>4. c \in Reading'
    BY <1>7, <2>1 DEF Write, Goto, Reading, TypeOK
  <2>5. requests' \in {<<>>, <<c>>} /\ work' = Nobody /\ replies' = <<>>
    BY <1>7, <2>3 DEF Write
  <2>6. CASE requests' = <<>>
    BY <1>2, <2>5, <2>6 DEF Silent
  <2>7. CASE requests' = <<c>>
    <3>1. OnTheWay' = {c} /\ Frames' = 1
      BY <2>5, <2>7 DEF OnTheWay, Frames
    <3>2. QED BY <2>4, <3>1
  <2>8. QED BY <2>5, <2>6, <2>7
<1>8. ASSUME NEW c \in Calls, Read(c) PROVE Exchange'
  <2>1. replies # <<>> /\ Len(requests) \in Nat /\ Len(replies) \in Nat \ {0}
    BY <1>8 DEF Read, TypeOK
  <2>2. Len(requests) = 0 /\ work = Nobody /\ Len(replies) = 1
    BY <2>1 DEF Frames
  <2>3. requests = <<>> /\ Tail(replies) = <<>>
    <3>1. requests \in Seq(Calls) /\ replies \in Seq([to : Calls, ok : BOOLEAN])
      BY DEF TypeOK
    <3>2. Tail(replies) \in Seq([to : Calls, ok : BOOLEAN]) /\ Len(Tail(replies)) = 0
      BY <2>1, <2>2, <3>1
    <3>3. QED BY <2>2, <3>1, <3>2, EmptySeq
  <2>4. CASE Head(replies).to = c
    BY <1>2, <1>8, <2>2, <2>3, <2>4 DEF Read, Silent
  <2>5. CASE Head(replies).to # c
    BY <1>2, <1>8, <2>5 DEF Read, ResetConn
  <2>6. QED BY <2>4, <2>5
<1>9. ASSUME NEW c \in Calls, Broken(c) \/ Expire(c) PROVE Exchange'
  BY <1>2, <1>9 DEF Broken, Expire, ResetConn
<1>10. CASE Receive
  <2>1. Len(requests) = 1 /\ work = Nobody /\ Len(replies) = 0
    <3>1. work = Nobody /\ Len(requests) \in Nat \ {0} /\ Len(replies) \in Nat
      BY <1>10 DEF Receive, TypeOK
    <3>2. Frames = Len(requests) + Len(replies)
      BY <3>1 DEF Frames
    <3>3. Frames <= 1 /\ Len(requests) >= 1
      BY <3>1
    <3>4. \A m, n \in Nat : m >= 1 /\ m + n <= 1 => m = 1 /\ n = 0
      OBVIOUS
    <3>5. QED BY <3>1, <3>2, <3>3, <3>4
  <2>2. work' = requests[1] /\ requests' = <<>> /\ replies' = replies
    BY <1>10, <2>1 DEF Receive, TypeOK
  <2>3. OnTheWay' \subseteq OnTheWay /\ Frames' <= 1
    BY <2>1, <2>2 DEF OnTheWay, Frames
  <2>4. QED BY <1>10, <2>3 DEF Receive, Reading
<1>11. CASE Reply
  <2>1. requests = <<>> /\ replies = <<>> /\ work \in Calls
    BY <1>11 DEF Reply, Frames, TypeOK
  <2>2. PICK ok \in BOOLEAN : replies' = <<[to |-> work, ok |-> ok]>>
    BY <1>11, <2>1 DEF Reply
  <2>3. requests' = <<>> /\ work' = Nobody
    BY <1>11, <2>1 DEF Reply
  <2>4. OnTheWay' = {work} /\ Frames' = 1
    BY <2>2, <2>3 DEF OnTheWay, Frames
  <2>5. work \in OnTheWay
    BY <1>11 DEF Reply, OnTheWay
  <2>6. QED BY <1>11, <2>4, <2>5 DEF Reply, Reading
<1>12. CASE Hangup
  <2>1. requests' = <<>> /\ work' = Nobody /\ replies' \in {replies, <<>>}
    BY <1>12 DEF Hangup
  <2>2. OnTheWay' \subseteq OnTheWay /\ Frames' <= Frames
    <3>1. CASE replies' = replies
      BY <2>1, <3>1 DEF OnTheWay, Frames, TypeOK
    <3>2. CASE replies' = <<>>
      BY <1>2, <2>1, <3>2 DEF OnTheWay, Frames, TypeOK
    <3>3. QED BY <2>1, <3>1, <3>2
  <2>3. Reading' = Reading
    BY <1>12 DEF Hangup, Reading
  <2>4. QED BY <2>2, <2>3 DEF Frames, TypeOK
<1>13. QED
  BY <1>3, <1>4, <1>5, <1>6, <1>7, <1>8, <1>9, <1>10, <1>11, <1>12 DEF Next

LEMMA ExchangeHolds == Spec => [](Holding /\ Exchange)
<1>1. TypeOK /\ TypeOK' /\ Holding /\ Exchange /\ [Next]_vars => Holding' /\ Exchange'
  BY NextHolding, NextExchange
<1>2. QED BY InitExchange, TypeCorrect, <1>1, PTL DEF Spec

\* No frame on the connection belongs to another call than the one that is waiting
\* for its reply, however many calls time out and in whatever order they come.
THEOREM OwnReplies == Spec => []NoStrayReply
<1>1. Exchange => NoStrayReply
  BY DEF Exchange
<1>2. QED BY ExchangeHolds, <1>1, PTL

-----------------------------------------------------------------------------
(* A fault costs one call *)

Failed == {c \in Calls : out[c] = "failed"}

\* A fault is in reserve for the connection that is broken and still kept.
Paid == Cardinality(Failed) + (IF conn = "dead" THEN 1 ELSE 0) <= faults

LEMMA FiniteSubsets == \A S \in SUBSET Calls : IsFiniteSet(S) /\ Cardinality(S) \in Nat
BY EmbeddingAssumption, FS_Subset, FS_CardinalityType

\* One call that ends adds one failure at most, and none if it ends otherwise.
LEMMA OneMoreFailed ==
  ASSUME TypeOK, NEW c \in Calls, NEW how, out' = [out EXCEPT ![c] = how]
  PROVE  /\ Cardinality(Failed)' <= Cardinality(Failed) + 1
         /\ how # "failed" => Cardinality(Failed)' <= Cardinality(Failed)
<1>1. Failed \in SUBSET Calls /\ Failed' \in SUBSET Calls
  BY DEF Failed
<1>2. Failed' \subseteq Failed \cup {c}
  BY DEF Failed, TypeOK
<1>3. how # "failed" => Failed' \subseteq Failed
  BY DEF Failed, TypeOK
<1>4. IsFiniteSet(Failed \cup {c}) /\ Cardinality(Failed \cup {c}) <= Cardinality(Failed) + 1
  BY <1>1, FiniteSubsets, FS_AddElement
<1>5. Cardinality(Failed') <= Cardinality(Failed \cup {c})
  BY <1>2, <1>4, FS_Subset
<1>6. how # "failed" => Cardinality(Failed') <= Cardinality(Failed)
  BY <1>1, <1>3, FiniteSubsets, FS_Subset
<1>7. /\ Cardinality(Failed') \in Nat
      /\ Cardinality(Failed) \in Nat
      /\ Cardinality(Failed \cup {c}) \in Nat
  BY <1>1, <1>4, FiniteSubsets, FS_CardinalityType
<1>8. QED BY <1>4, <1>5, <1>6, <1>7

LEMMA NextPaid == ASSUME TypeOK, TypeOK', Paid, [Next]_vars PROVE Paid'
<1> USE DEF Paid
<1>1. faults \in Nat /\ faults' \in Nat
  BY Numbers DEF TypeOK
<1>2. Cardinality(Failed) \in Nat /\ Cardinality(Failed)' \in Nat
  BY FiniteSubsets DEF Failed
<1>3. ASSUME UNCHANGED <<out, conn, faults>> PROVE Paid'
  BY <1>3 DEF Failed
<1>4. CASE Tick \/ Receive \/ Reply \/ UNCHANGED vars
  BY <1>3, <1>4 DEF Tick, Receive, Reply, vars
<1>5. ASSUME NEW c \in Calls, Lock(c) \/ Write(c) PROVE Paid'
  BY <1>3, <1>5 DEF Lock, Write
<1>6. ASSUME NEW c \in Calls, Begin(c) PROVE Paid'
  <2>1. CASE UNCHANGED out
    BY <1>3, <1>6, <2>1 DEF Begin
  <2>2. CASE End(c, "cancelled")
    <3>1. Cardinality(Failed)' <= Cardinality(Failed)
      <4>1. PICK how \in Ends \ {"failed"} : End(c, how)
        BY <2>2 DEF Ends
      <4>2. QED BY <4>1, OneMoreFailed DEF End
    <3>2. UNCHANGED <<conn, faults>>
      BY <1>6 DEF Begin
    <3>3. QED BY <1>1, <1>2, <3>1, <3>2
  <2>3. QED BY <1>6, <2>1, <2>2 DEF Begin
<1>7. ASSUME NEW c \in Calls, Dial(c) PROVE Paid'
  BY <1>1, <1>2, <1>7 DEF Dial, Failed
<1>8. ASSUME NEW c \in Calls, DialFails(c) PROVE Paid'
  <2>1. Cardinality(Failed)' <= Cardinality(Failed) + 1
    BY <1>8, OneMoreFailed DEF DialFails, Return, End
  <2>2. conn' = conn /\ faults' = faults + 1
    BY <1>8 DEF DialFails, Fault
  <2>3. QED BY <1>1, <1>2, <2>1, <2>2
<1>9. ASSUME NEW c \in Calls, Broken(c) PROVE Paid'
  <2>1. Cardinality(Failed)' <= Cardinality(Failed) + 1
    BY <1>9, OneMoreFailed DEF Broken, Return, End
  <2>2. conn = "dead" /\ conn' = "none" /\ faults' = faults
    BY <1>9 DEF Broken, ResetConn
  <2>3. QED BY <1>1, <1>2, <2>1, <2>2
<1>10. ASSUME NEW c \in Calls, Read(c) PROVE Paid'
  <2>1. PICK how \in Ends \ {"failed"} : Return(c, how)
    BY <1>10 DEF Read, Ends
  <2>2. conn' \in {conn, "none"} /\ faults' = faults
    BY <1>10 DEF Read, ResetConn
  <2>3. Cardinality(Failed)' <= Cardinality(Failed)
    BY <2>1, OneMoreFailed DEF Return, End
  <2>4. QED BY <1>1, <1>2, <2>2, <2>3
<1>11. ASSUME NEW c \in Calls, Expire(c) PROVE Paid'
  <2>1. Cardinality(Failed)' <= Cardinality(Failed)
    <3>1. PICK how \in Ends \ {"failed"} : Return(c, how)
      BY <1>11 DEF Expire, Ends
    <3>2. QED BY <3>1, OneMoreFailed DEF Return, End
  <2>2. conn' = "none" /\ faults' = faults
    BY <1>11 DEF Expire, ResetConn
  <2>3. QED BY <1>1, <1>2, <2>1, <2>2
<1>12. CASE Hangup
  BY <1>1, <1>2, <1>12 DEF Hangup, Fault, Failed
<1>13. QED
  BY <1>4, <1>5, <1>6, <1>7, <1>8, <1>9, <1>10, <1>11, <1>12 DEF Next

\* However often the sidecar dies or cannot be reached, each time costs at most one
\* of the calls that had time left.
THEOREM FaultsCostOneCall == Spec => []FailuresBounded
<1>1. Init => Paid
  BY FS_EmptySet, Numbers DEF Init, Paid, Failed
<1>2. TypeOK /\ Paid => FailuresBounded
  <2>1. Cardinality(Failed) \in Nat
    BY FiniteSubsets DEF Failed
  <2>2. QED BY <2>1, Numbers DEF TypeOK, Paid, FailuresBounded, Failed
<1>3. TypeOK /\ TypeOK' /\ Paid /\ [Next]_vars => Paid'
  BY NextPaid
<1>4. QED BY TypeCorrect, <1>1, <1>2, <1>3, PTL DEF Spec

-----------------------------------------------------------------------------
(* How long a call waits *)

Waiting(c) == pc[c] \notin {"new", "done"}

Began(c) == deadline[c] - Timeout

Ended == {c \in Calls : pc[c] = "done"}

\* When the mutex was last taken, or now if it is free.
LastLock == IF mutex = Nobody THEN now ELSE since

\* A hold of the mutex ends in time, and until it began a waiting call had waited
\* for no more holds than calls have ended.
Queue ==
  /\ \A c \in Calls : Active(c) => now <= since + Hold /\ Began(c) <= since
  /\ \A c \in Calls : Waiting(c) =>
       /\ Began(c) <= now
       /\ LastLock <= Began(c) + Hold * Cardinality(Ended)

LEMMA Products ==
  ASSUME NEW h \in Nat, NEW m \in Nat, NEW n \in Nat
  PROVE  /\ h * n \in Nat
         /\ h * (n + 1) = h * n + h
         /\ m <= n => h * m <= h * n
<1>1. h * n \in Nat /\ h * (n + 1) = h * n + h
  OBVIOUS
<1>2. ASSUME m <= n PROVE h * m <= h * n
  <2>1. PICK k \in Nat : n = m + k
    <3>1. n - m \in Nat /\ n = m + (n - m)
      BY <1>2
    <3>2. QED BY <3>1
  <2>2. h * n = h * m + h * k /\ h * k \in Nat /\ h * m \in Nat
    BY <2>1
  <2>3. QED BY <2>2
<1>3. QED BY <1>1, <1>2

LEMMA EndedCount ==
  /\ Cardinality(Ended) \in Nat /\ Cardinality(Ended)' \in Nat
  /\ Hold * Cardinality(Ended) \in Nat /\ Hold * Cardinality(Ended)' \in Nat
<1>1. Cardinality(Ended) \in Nat /\ Cardinality(Ended)' \in Nat
  BY FiniteSubsets DEF Ended
<1>2. QED BY <1>1, Products, Numbers

\* The count of the ended calls when one more ends.
LEMMA OneMoreEnded ==
  ASSUME TypeOK, NEW c \in Calls, pc[c] # "done", Goto(c, "done")
  PROVE  /\ Cardinality(Ended)' = Cardinality(Ended) + 1
         /\ Hold * Cardinality(Ended)' = Hold * Cardinality(Ended) + Hold
<1>1. Ended' = Ended \cup {c} /\ c \notin Ended
  BY DEF Ended, Goto, TypeOK, Phases
<1>2. IsFiniteSet(Ended)
  BY FiniteSubsets DEF Ended
<1>3. Cardinality(Ended)' = Cardinality(Ended) + 1
  BY <1>1, <1>2, FS_AddElement
<1>4. QED BY <1>3, EndedCount, Products, Numbers

\* A call that ends while it holds the mutex leaves the queue in order.
LEMMA ReturnQueue ==
  ASSUME TypeOK, Holding, Queue, NEW c \in Calls, Active(c), NEW how, Return(c, how),
         now' = now
  PROVE  Queue'
<1>1. mutex = c /\ LastLock = since /\ LastLock' = now
  BY Numbers DEF Holding, Return, LastLock
<1>2. Hold * Cardinality(Ended)' = Hold * Cardinality(Ended) + Hold
  BY OneMoreEnded DEF Return, End, Active
<1>3. now <= since + Hold
  BY DEF Queue
<1>4. \A d \in Calls : pc'[d] = IF d = c THEN "done" ELSE pc[d]
  BY DEF Return, End, Goto, TypeOK
<1>5. \A d \in Calls : d # c => Began(d)' = Began(d)
  BY DEF Return, Began, TypeOK
<1>6. ASSUME NEW d \in Calls, Waiting(d)'
      PROVE  Began(d)' <= now' /\ LastLock' <= Began(d)' + Hold * Cardinality(Ended)'
  <2>1. d # c /\ Waiting(d)
    BY <1>4, <1>6 DEF Waiting
  <2>2. Began(d) <= now /\ since <= Began(d) + Hold * Cardinality(Ended)
    BY <1>1, <2>1 DEF Queue
  <2>3. Began(d) \in Int /\ now \in Nat /\ since \in Nat
    BY Numbers DEF Began, TypeOK
  <2>4. QED BY <1>1, <1>2, <1>3, <1>5, <2>1, <2>2, <2>3, EndedCount, Numbers
<1>7. \A d \in Calls : ~Active(d)'
  BY <1>1, <1>4 DEF Active, Holding
<1>8. QED BY <1>6, <1>7 DEF Queue

LEMMA NextQueue == ASSUME TypeOK, TypeOK', Holding, Queue, [Next]_vars PROVE Queue'
<1>1. ASSUME UNCHANGED <<now, mutex, since, deadline, Ended>>,
             \A d \in Calls : Active(d)' => Active(d),
             \A d \in Calls : Waiting(d)' => Waiting(d)
      PROVE  Queue'
  BY <1>1 DEF Queue, LastLock, Began
<1>2. CASE Tick
  <2>1. CASE mutex = Nobody
    \* nobody waits
    <3>1. \A d \in Calls : ~Waiting(d)' /\ ~Active(d)'
      BY <1>2, <2>1, Numbers DEF Tick, Blocked, Waiting, Active, Holding, TypeOK, Phases
    <3>2. QED BY <3>1 DEF Queue
  <2>2. CASE mutex # Nobody
    <3>1. LastLock' = LastLock /\ UNCHANGED <<since, deadline, pc>> /\ now' = now + 1
      BY <1>2, <2>2 DEF Tick, LastLock
    <3>2. ASSUME NEW d \in Calls, Active(d) PROVE now + 1 <= since + Hold
      <4>1. Blocked(d)
        BY <1>2 DEF Tick
      <4>2. deadline[d] \in Nat /\ now \in Nat /\ since \in Nat
        BY Numbers DEF TypeOK
      <4>3. CASE pc[d] = "dial"
        <5>1. now < since + DialLimit
          BY <4>1, <4>3 DEF Blocked
        <5>2. QED BY <4>2, <5>1, Numbers
      <4>4. CASE pc[d] = "write"
        BY <4>1, <4>4 DEF Blocked
      <4>5. CASE pc[d] = "read"
        <5>1. now < deadline[d]
          BY <4>1, <4>5 DEF Blocked, IOLimit
        <5>2. deadline[d] - Timeout <= since
          BY <3>2 DEF Queue, Began
        <5>3. QED BY <4>2, <5>1, <5>2, Numbers
      <4>6. QED BY <3>2, <4>3, <4>4, <4>5 DEF Active
    <3>3. \A d \in Calls : Began(d)' = Began(d) /\ (Waiting(d)' <=> Waiting(d)) /\ (Active(d)' <=> Active(d))
      BY <3>1 DEF Began, Waiting, Active
    <3>4. Ended' = Ended
      BY <3>1 DEF Ended
    <3>5. \A d \in Calls : Began(d) <= now => Began(d) <= now + 1
      BY Numbers DEF Began, TypeOK
    <3>6. QED BY <3>1, <3>2, <3>3, <3>4, <3>5 DEF Queue
  <2>3. QED BY <2>1, <2>2
<1>3. ASSUME NEW c \in Calls, Begin(c) PROVE Queue'
  <2>1. CASE Goto(c, "lock") /\ deadline' = [deadline EXCEPT ![c] = now + Timeout]
    <3>1. /\ \A d \in Calls : pc'[d] = IF d = c THEN "lock" ELSE pc[d]
          /\ \A d \in Calls : d # c => Began(d)' = Began(d)
          /\ Began(c)' = now
          /\ UNCHANGED <<now, mutex, since, LastLock>>
      BY <1>3, <2>1, Numbers DEF Begin, Goto, Began, LastLock, TypeOK
    <3>2. Ended' = Ended
      BY <1>3, <3>1 DEF Begin, Ended
    <3>3. LastLock <= now
      BY DEF LastLock, TypeOK
    <3>4. ASSUME NEW d \in Calls, Waiting(d)'
          PROVE  Began(d)' <= now' /\ LastLock' <= Began(d)' + Hold * Cardinality(Ended)'
      <4>1. CASE d = c
        BY <3>1, <3>2, <3>3, <4>1, EndedCount DEF TypeOK, LastLock
      <4>2. CASE d # c
        BY <3>1, <3>2, <3>4, <4>2 DEF Waiting, Queue
      <4>3. QED BY <4>1, <4>2
    <3>5. \A d \in Calls : Active(d)' => now' <= since' + Hold /\ Began(d)' <= since'
      BY <3>1 DEF Active, Queue
    <3>6. QED BY <3>4, <3>5 DEF Queue
  <2>2. CASE End(c, "cancelled") /\ UNCHANGED deadline
    <3>1. Hold * Cardinality(Ended)' = Hold * Cardinality(Ended) + Hold
      BY <1>3, <2>2, OneMoreEnded DEF Begin, End
    <3>2. \A d \in Calls : (Active(d)' => Active(d)) /\ (Waiting(d)' => Waiting(d))
      BY <2>2 DEF End, Goto, Active, Waiting, TypeOK
    <3>3. UNCHANGED <<now, mutex, since, deadline>>
      BY <1>3, <2>2 DEF Begin
    <3>4. ASSUME NEW d \in Calls, Waiting(d)'
          PROVE  Began(d)' <= now' /\ LastLock' <= Began(d)' + Hold * Cardinality(Ended)'
      <4>1. Began(d) <= now /\ LastLock <= Began(d) + Hold * Cardinality(Ended)
        BY <3>2, <3>4 DEF Queue
      <4>2. LastLock \in Int /\ Began(d) \in Int
        BY Numbers DEF LastLock, Began, TypeOK
      <4>3. LastLock' = LastLock /\ Began(d)' = Began(d)
        BY <3>3 DEF LastLock, Began
      <4>4. QED BY <3>1, <3>3, <4>1, <4>2, <4>3, EndedCount, Numbers
    <3>5. QED BY <3>2, <3>3, <3>4 DEF Queue, Began
  <2>3. QED BY <1>3, <2>1, <2>2 DEF Begin
<1>4. ASSUME NEW c \in Calls, Lock(c) PROVE Queue'
  <2>1. \A d \in Calls : Active(d)' => d = c
    BY <1>4, Numbers DEF Lock, Goto, Active, Holding, TypeOK
  <2>2. /\ \A d \in Calls : (Waiting(d)' => Waiting(d)) /\ Began(d)' = Began(d)
        /\ now' = now /\ since' = now /\ LastLock' = LastLock /\ Ended' = Ended
    BY <1>4, Numbers DEF Lock, Goto, Waiting, Began, LastLock, Ended, TypeOK
  <2>3. Began(c) <= now
    BY <1>4 DEF Lock, Waiting, Queue
  <2>4. now \in Nat
    BY DEF TypeOK
  <2>5. QED BY <2>1, <2>2, <2>3, <2>4, Numbers DEF Queue
<1>5. ASSUME NEW c \in Calls, Dial(c) \/ Write(c) PROVE Queue'
  BY <1>1, <1>5 DEF Dial, Write, Goto, Active, Waiting, Ended, TypeOK
<1>6. ASSUME NEW c \in Calls, DialFails(c) PROVE Queue'
  BY <1>6, ReturnQueue DEF DialFails, Active
<1>7. ASSUME NEW c \in Calls, Broken(c) PROVE Queue'
  BY <1>7, ReturnQueue DEF Broken, Active
<1>8. ASSUME NEW c \in Calls, Read(c) PROVE Queue'
  <2>1. PICK how : Return(c, how)
    BY <1>8 DEF Read
  <2>2. QED BY <1>8, <2>1, ReturnQueue DEF Read, Active
<1>9. ASSUME NEW c \in Calls, Expire(c) PROVE Queue'
  BY <1>9, ReturnQueue DEF Expire, Active
<1>10. CASE Receive \/ Reply \/ Hangup \/ UNCHANGED vars
  BY <1>1, <1>10 DEF Receive, Reply, Hangup, vars, Active, Waiting, Ended
<1>11. QED
  BY <1>2, <1>3, <1>4, <1>5, <1>6, <1>7, <1>8, <1>9, <1>10 DEF Next

\* With any number of calls, of which any may be served next, a call ends after at
\* most one hold of the mutex for each call made so far.
THEOREM CallsEnd == Spec => []EndsInTime
<1>1. Init => Queue
  BY DEF Init, Queue, Active, Waiting
<1>2. TypeOK /\ Holding /\ Queue => EndsInTime
  <2>1. SUFFICES ASSUME TypeOK, Holding, Queue, NEW c \in Calls, Waiting(c)
                 PROVE  now <= Began(c) + Hold * Cardinality({d \in Calls : pc[d] # "new"})
    BY DEF EndsInTime, Waiting, Began
  <2> DEFINE Begun == {d \in Calls : pc[d] # "new"}
  <2>2. IsFiniteSet(Begun) /\ Cardinality(Begun) \in Nat /\ IsFiniteSet(Ended)
    BY FiniteSubsets DEF Ended
  <2>3. LastLock <= Began(c) + Hold * Cardinality(Ended)
    BY <2>1 DEF Queue
  <2>4. Began(c) \in Int /\ now \in Nat /\ since \in Nat
    BY <2>1, Numbers DEF Began, TypeOK
  <2>5. CASE mutex = Nobody
    <3>1. Cardinality(Ended) <= Cardinality(Begun)
      BY <2>2, FS_Subset DEF Ended
    <3>2. Hold * Cardinality(Ended) <= Hold * Cardinality(Begun)
      BY <2>2, <3>1, Products, EndedCount, Numbers
    <3>3. Hold * Cardinality(Begun) \in Nat
      BY <2>2, Products, Numbers
    <3>4. QED BY <2>3, <2>4, <2>5, <3>2, <3>3, EndedCount DEF LastLock
  <2>6. CASE mutex # Nobody
    <3>1. mutex \in Calls /\ Active(mutex)
      BY <2>1, <2>6 DEF Holding, TypeOK
    <3>2. now <= since + Hold
      BY <2>1, <3>1 DEF Queue
    <3>3. Ended \cup {mutex} \subseteq Begun /\ mutex \notin Ended
      BY <3>1 DEF Ended, Active
    <3>4. Cardinality(Ended) + 1 <= Cardinality(Begun)
      <4>1. Cardinality(Ended \cup {mutex}) = Cardinality(Ended) + 1
        BY <2>2, <3>3, FS_AddElement
      <4>2. Cardinality(Ended \cup {mutex}) <= Cardinality(Begun)
        BY <2>2, <3>3, FS_Subset
      <4>3. QED BY <4>1, <4>2
    <3>5. /\ Hold * (Cardinality(Ended) + 1) <= Hold * Cardinality(Begun)
          /\ Hold * (Cardinality(Ended) + 1) = Hold * Cardinality(Ended) + Hold
          /\ Hold * Cardinality(Begun) \in Nat
      BY <2>2, <3>4, Products, EndedCount, Numbers
    <3>6. QED BY <2>3, <2>4, <2>6, <3>2, <3>5, EndedCount, Numbers DEF LastLock
  <2>7. QED BY <2>5, <2>6
<1>3. TypeOK /\ TypeOK' /\ Holding /\ Queue /\ [Next]_vars => Queue'
  BY NextQueue
<1>4. QED BY TypeCorrect, ExchangeHolds, <1>1, <1>2, <1>3, PTL DEF Spec
=============================================================================

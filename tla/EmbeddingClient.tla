--------------------------- MODULE EmbeddingClient ---------------------------
(***************************************************************************)
(* embedding.Client (internal/embedding/client.go, frame.go) and the       *)
(* sidecar it talks to (ai_service/app/main.py): the calls of one gateway  *)
(* share one connection, one exchange of a request frame and a reply frame *)
(* at a time, under a mutex.                                               *)
(*                                                                         *)
(* The deadline of a call is set before it waits for the mutex, and a dial *)
(* has a limit of its own.  A frame is whole or it is nothing: half a      *)
(* frame makes its reader wait until the connection is closed.  Only the   *)
(* client's present connection is kept: what the sidecar still does for a  *)
(* connection the client has closed reaches nobody.                        *)
(***************************************************************************)
EXTENDS Integers, Sequences, FiniteSets

CONSTANTS Calls,       \* calls of Embed, each made at most once
          Nobody,      \* no call
          Timeout,     \* ClientConfig.Timeout
          DialLimit,   \* of net.DialTimeout
          MaxFaults,   \* bound of the faults
          Horizon      \* bound of the clock

ASSUME EmbeddingAssumption ==
  /\ {Timeout, DialLimit} \subseteq Nat \ {0}
  /\ {MaxFaults, Horizon} \subseteq Nat
  /\ IsFiniteSet(Calls)
  /\ Nobody \notin Calls

VARIABLES now,
          mutex,     \* who holds Client.mu
          conn,      \* Client.conn: "none", "open", or "dead" when the sidecar has closed it
          requests,  \* request frames on the connection, not yet read by the sidecar
          work,      \* whose request the sidecar is computing for the connection
          replies,   \* reply frames on the connection: whose, and if it is a vector
          pc,        \* per call: what it does next
          deadline,  \* per call, while it runs
          since,     \* when the mutex was taken, and the dial begun if there is one
          out,       \* per call: how it ended
          faults

wire == <<requests, work, replies>>
vars == <<now, mutex, conn, wire, pc, deadline, since, out, faults>>

Init ==
  /\ now = 0
  /\ mutex = Nobody
  /\ conn \in {"none", "open"}  \* the ping at startup failed or succeeded
  /\ requests = <<>> /\ work = Nobody /\ replies = <<>>
  /\ pc = [c \in Calls |-> "new"]
  /\ deadline = [c \in Calls |-> 0]
  /\ since = 0
  /\ out = [c \in Calls |-> "none"]
  /\ faults = 0

Goto(c, label) == pc' = [pc EXCEPT ![c] = label]

End(c, how) ==
  /\ Goto(c, "done")
  /\ out' = [out EXCEPT ![c] = how]

\* The call returns and its deferred Unlock runs.
Return(c, how) ==
  /\ End(c, how)
  /\ mutex' = Nobody
  /\ since' = 0
  /\ deadline' = [deadline EXCEPT ![c] = 0]

\* No frame is on the way.
Silent == requests' = <<>> /\ work' = Nobody /\ replies' = <<>>

\* resetConn: the next call dials.
ResetConn == conn' = "none" /\ Silent

\* Something failed that counts against MaxFaults.
Fault ==
  /\ faults < MaxFaults
  /\ faults' = faults + 1

\* (variant) SetDeadline is forgotten.
NoIOLimit(c) == Horizon + 1

\* The limit of the reads and writes of c, by SetDeadline.
IOLimit(c) == deadline[c]

-----------------------------------------------------------------------------

\* roundTrip up to the mutex: the deadline runs from here.  A call whose client
\* has gone by now returns; later nothing looks at that.
Begin(c) ==
  /\ pc[c] = "new"
  /\ \/ /\ deadline' = [deadline EXCEPT ![c] = now + Timeout]
        /\ Goto(c, "lock")
        /\ UNCHANGED out
     \/ End(c, "cancelled") /\ UNCHANGED deadline
  /\ UNCHANGED <<now, mutex, conn, wire, since, faults>>

\* mu.Lock and ensureConn: any waiter may be next, and it dials if it must.
Lock(c) ==
  /\ pc[c] = "lock"
  /\ mutex = Nobody
  /\ mutex' = c
  /\ Goto(c, IF conn = "none" THEN "dial" ELSE "write")
  /\ since' = now
  /\ UNCHANGED <<now, conn, wire, deadline, out, faults>>

\* The dial succeeds within DialLimit, whatever the deadline of the call.
Dial(c) ==
  /\ pc[c] = "dial"
  /\ conn' = "open"
  /\ Goto(c, "write")
  /\ UNCHANGED <<now, mutex, wire, deadline, since, out, faults>>

\* The dial is refused, or takes too long.
DialFails(c) ==
  /\ pc[c] = "dial"
  /\ Fault
  /\ Return(c, "failed")
  /\ UNCHANGED <<now, conn, wire>>

\* SetDeadline and writeFrame.  On a connection the sidecar has closed the write
\* may still succeed, and the frame is lost.
Write(c) ==
  /\ pc[c] = "write"
  /\ now <= IOLimit(c)
  /\ Goto(c, "read")
  /\ requests' = IF conn = "open" THEN Append(requests, c) ELSE requests
  /\ UNCHANGED <<now, mutex, conn, work, replies, deadline, since, out, faults>>

\* (variant) A connection the sidecar has closed is kept.
BrokenKept(c) ==
  /\ conn = "dead"
  /\ \/ pc[c] = "write"
     \/ pc[c] = "read" /\ replies = <<>>
  /\ Return(c, "failed")
  /\ UNCHANGED <<now, conn, wire, faults>>

\* writeFrame or readFrame finds that the sidecar has closed the connection.
Broken(c) ==
  /\ conn = "dead"
  /\ \/ pc[c] = "write"
     \/ pc[c] = "read" /\ replies = <<>>
  /\ ResetConn
  /\ Return(c, "failed")
  /\ UNCHANGED <<now, faults>>

\* readFrame and what follows: a reply to another call costs the connection, an
\* error the sidecar reports does not.
Read(c) ==
  /\ pc[c] = "read"
  /\ replies # <<>>
  /\ LET reply == Head(replies) IN
       IF reply.to = c
         THEN /\ Return(c, IF reply.ok THEN "vector" ELSE "refused")
              /\ replies' = Tail(replies)
              /\ UNCHANGED <<conn, requests, work>>
         ELSE ResetConn /\ Return(c, "mismatch")
  /\ UNCHANGED <<now, faults>>

\* (variant) The connection is kept after a timeout.
ExpireKept(c) ==
  /\ pc[c] \in {"write", "read"}
  /\ now >= IOLimit(c)
  /\ Return(c, "late")
  /\ UNCHANGED <<now, conn, wire, faults>>

\* writeFrame or readFrame fails at the deadline, be the connection as good as new.
Expire(c) ==
  /\ pc[c] \in {"write", "read"}
  /\ now >= IOLimit(c)
  /\ ResetConn
  /\ Return(c, "late")
  /\ UNCHANGED <<now, faults>>

-----------------------------------------------------------------------------
(* The sidecar *)

\* _handle_client, _read_frame: the next request is read when the last is answered.
Receive ==
  /\ work = Nobody
  /\ requests # <<>>
  /\ work' = Head(requests)
  /\ requests' = Tail(requests)
  /\ UNCHANGED <<now, mutex, conn, replies, pc, deadline, since, out, faults>>

\* _dispatch, _write_all: a vector or an error frame with the id of the request,
\* however late.
Reply ==
  /\ work # Nobody
  /\ \E ok \in BOOLEAN : replies' = Append(replies, [to |-> work, ok |-> ok])
  /\ work' = Nobody
  /\ UNCHANGED <<now, mutex, conn, requests, pc, deadline, since, out, faults>>

\* The sidecar dies, restarts or closes the connection: what it has not answered
\* is lost, what it has answered may be.
Hangup ==
  /\ conn = "open"
  /\ Fault
  /\ conn' = "dead"
  /\ requests' = <<>>
  /\ work' = Nobody
  /\ replies' \in {replies, <<>>}
  /\ UNCHANGED <<now, mutex, pc, deadline, since, out>>

-----------------------------------------------------------------------------

\* c can only wait.
Blocked(c) ==
  \/ pc[c] \in {"new", "done"}
  \/ pc[c] = "lock" /\ mutex # Nobody
  \/ pc[c] = "dial" /\ now < since + DialLimit
  \/ pc[c] = "read" /\ now < IOLimit(c) /\ replies = <<>> /\ conn # "dead"

\* Time passes only while every call can only wait; the sidecar takes any time.
Tick ==
  /\ now < Horizon
  /\ \A c \in Calls : Blocked(c)
  /\ now' = now + 1
  /\ UNCHANGED <<mutex, conn, wire, pc, deadline, since, out, faults>>

\* All calls have ended, or the clock has reached its bound.
Over == now = Horizon \/ \A c \in Calls : pc[c] = "done"

Next ==
  \/ Tick
  \/ \E c \in Calls :
       \/ Begin(c) \/ Lock(c) \/ Dial(c) \/ DialFails(c) \/ Write(c)
       \/ Broken(c) \/ Read(c) \/ Expire(c)
  \/ Receive \/ Reply \/ Hangup
  \/ Over /\ UNCHANGED vars

Spec == Init /\ [][Next]_vars

-----------------------------------------------------------------------------
(* Properties *)

Phases == {"new", "lock", "dial", "write", "read", "done"}
Ends == {"none", "cancelled", "failed", "late", "mismatch", "refused", "vector"}

\* Types of the variables.
TypeOK ==
  /\ now \in 0 .. Horizon
  /\ mutex \in Calls \cup {Nobody}
  /\ conn \in {"none", "open", "dead"}
  /\ requests \in Seq(Calls)
  /\ work \in Calls \cup {Nobody}
  /\ replies \in Seq([to : Calls, ok : BOOLEAN])
  /\ pc \in [Calls -> Phases]
  /\ deadline \in [Calls -> 0 .. Horizon + Timeout]
  /\ since \in 0 .. now
  /\ out \in [Calls -> Ends]
  /\ faults \in 0 .. MaxFaults

\* Whose frames are on the connection, or being computed for it.
OnTheWay ==
  {requests[i] : i \in 1 .. Len(requests)} \cup ({work} \ {Nobody})
    \cup {replies[i].to : i \in 1 .. Len(replies)}

Reading == {c \in Calls : pc[c] = "read" /\ mutex = c}

\* The connection carries nothing but the exchange of the call that is waiting for
\* its reply under the mutex: the reply to a call that has given up cannot be taken
\* for the reply to the next (client.go:192-214, UDS_EMBEDDING.md:26).
NoStrayReply == OnTheWay \subseteq Reading

\* A broken connection costs one call: no more calls fail for another reason than
\* time than there were faults, so the broken connection is never used again
\* (client.go:63-80, 188-205).
FailuresBounded == Cardinality({c \in Calls : out[c] = "failed"}) <= faults

\* The longest a call holds the mutex.
Hold == IF Timeout > DialLimit THEN Timeout ELSE DialLimit

\* A call that waits behind others ends after at most one hold of the mutex for
\* each call made so far, itself included (client.go:171-187).
EndsInTime ==
  \A c \in Calls : pc[c] \notin {"new", "done"} =>
    now <= deadline[c] - Timeout + Hold * Cardinality({d \in Calls : pc[d] # "new"})
=============================================================================

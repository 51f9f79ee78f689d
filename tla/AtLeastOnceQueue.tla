-------------------------- MODULE AtLeastOnceQueue --------------------------
(***************************************************************************)
(* What the Redis Stream task queue promises to the API that enqueues a    *)
(* scan task, with workers, claims, delivery counts and time left out.     *)
(*                                                                         *)
(* A submitted task waits until its run has returned or a copy of it is in *)
(* the dead-letter stream; only a stream that overflowed its MAXLEN may    *)
(* drop it.  A settled task is never handed out again.                     *)
(***************************************************************************)
EXTENDS Integers

CONSTANTS
  Entry,      \* positions in the stream, in the order of XADD
  StreamMax   \* MAXLEN of the stream

VARIABLES
  fate,       \* what the queue knows of each entry
  returned,   \* entries whose run returned at least once
  buried      \* entries with at least one copy in a dead-letter stream

avars == <<fate, returned, buried>>

Fates == {"absent", "waiting", "finished", "dead", "lost"}

AInit ==
  /\ fate = [e \in Entry |-> "absent"]
  /\ returned = {}
  /\ buried = {}

\* The stream is append-only; an append may push out the oldest entries.
Submit ==
  \E e \in Entry, out \in SUBSET Entry :
    /\ fate[e] = "absent"
    /\ \A f \in Entry : f < e => fate[f] # "absent"
    /\ \A f \in out : fate[f] = "waiting" /\ f + StreamMax <= e
    /\ fate' = [f \in Entry |-> IF f = e THEN "waiting"
                                ELSE IF f \in out THEN "lost" ELSE fate[f]]
    /\ UNCHANGED <<returned, buried>>

RunReturned(e) ==
  /\ fate[e] # "absent"
  /\ returned' = returned \cup {e}
  /\ UNCHANGED <<fate, buried>>

Bury(e) ==
  /\ fate[e] # "absent"
  /\ buried' = buried \cup {e}
  /\ UNCHANGED <<fate, returned>>

\* An entry leaves the queue with a reason, and only once.
Settle(e, how) ==
  /\ fate[e] = "waiting"
  /\ \/ how = "finished" /\ e \in returned
     \/ how = "dead" /\ e \in buried
     \/ how = "lost" /\ \E f \in Entry : fate[f] # "absent" /\ e + StreamMax <= f
  /\ fate' = [fate EXCEPT ![e] = how]
  /\ UNCHANGED <<returned, buried>>

ANext ==
  \/ Submit
  \/ \E e \in Entry : RunReturned(e) \/ Bury(e)
  \/ \E e \in Entry, how \in {"finished", "dead", "lost"} : Settle(e, how)

ASpec == AInit /\ [][ANext]_avars
=============================================================================

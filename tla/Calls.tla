------------------------------- MODULE Calls -------------------------------
(***************************************************************************)
(* What the dd_ functions promise their callers: a call is queued, taken   *)
(* in the order of the requests, answered once, and its caller gets the    *)
(* answer that was given to it and to nobody else.                         *)
(***************************************************************************)
EXTENDS Sequences

CONSTANTS Clients, Answers, None

VARIABLES
  pending,   \* the clients whose requests wait, in order
  serving,   \* the client whose request the scheduler works on
  answer,    \* the answer a client has been given and not yet fetched
  returned   \* the result of a call that is about to return

vars == <<pending, serving, answer, returned>>

Init ==
  /\ pending = <<>> /\ serving = None
  /\ answer = [c \in Clients |-> None]
  /\ returned = [c \in Clients |-> None]

Idle(c) ==
  serving # c /\ answer[c] = None /\ returned[c] = None
  /\ \A i \in DOMAIN pending : pending[i] # c

Request(c) ==
  /\ Idle(c)
  /\ pending' = Append(pending, c)
  /\ UNCHANGED <<serving, answer, returned>>

Accept ==
  /\ serving = None /\ pending # <<>>
  /\ serving' = Head(pending) /\ pending' = Tail(pending)
  /\ UNCHANGED <<answer, returned>>

Give(a) ==
  /\ serving # None
  /\ answer' = [answer EXCEPT ![serving] = a]
  /\ serving' = None
  /\ UNCHANGED <<pending, returned>>

Fetch(c) ==
  /\ answer[c] # None
  /\ returned' = [returned EXCEPT ![c] = answer[c]]
  /\ answer' = [answer EXCEPT ![c] = None]
  /\ UNCHANGED <<pending, serving>>

Return(c) ==
  /\ returned[c] # None
  /\ returned' = [returned EXCEPT ![c] = None]
  /\ UNCHANGED <<pending, serving, answer>>

(* A task that is aborted never fetches its answer.                        *)
Drop(c) ==
  /\ answer[c] # None
  /\ answer' = [answer EXCEPT ![c] = None]
  /\ UNCHANGED <<pending, serving, returned>>

Next ==
  \/ Accept
  \/ \E a \in Answers : Give(a)
  \/ \E c \in Clients : Request(c) \/ Fetch(c) \/ Return(c) \/ Drop(c)

Spec == Init /\ [][Next]_vars
=============================================================================

------------------------------ MODULE Requests ------------------------------
(***************************************************************************)
(* Requests that overlap.  The server is one process; a handler runs       *)
(* without interruption up to its next awaited call, so a request is a     *)
(* label, the awaited call it makes next, and a record of what it was sent *)
(* and has read so far.  The modules of the workshop's components extend   *)
(* this one and give a request its steps.                                  *)
(***************************************************************************)
EXTENDS Naturals, TLC

CONSTANTS
  Clients,      \* requests that can be under way at once
  MaxRequests,  \* bound: requests sent in a behaviour
  Null

VARIABLES
  pc,    \* per client: the call its request makes next
  req,   \* per client: what its request holds
  sent   \* requests sent so far

requestVars == <<pc, req, sent>>

RequestInit ==
  /\ pc = [c \in Clients |-> "idle"]
  /\ req = [c \in Clients |-> Null]
  /\ sent = 0

\* A client sends a request whose handler starts at label with the record r.
Arrive(c, label, r) ==
  /\ pc[c] = "idle"
  /\ sent < MaxRequests
  /\ sent' = sent + 1
  /\ pc' = [pc EXCEPT ![c] = label]
  /\ req' = [req EXCEPT ![c] = r]

\* A request answered within one step of the database.
AtOnce(c) ==
  /\ pc[c] = "idle"
  /\ sent < MaxRequests
  /\ sent' = sent + 1
  /\ UNCHANGED <<pc, req>>

\* The handler goes on to the call at label, holding r.
Goto(c, label, r) ==
  /\ pc' = [pc EXCEPT ![c] = label]
  /\ req' = [req EXCEPT ![c] = r]
  /\ UNCHANGED sent

\* The handler answers, with a result or an error.
Answer(c) ==
  /\ pc' = [pc EXCEPT ![c] = "idle"]
  /\ req' = [req EXCEPT ![c] = Null]
  /\ UNCHANGED sent

\* Every request has been answered.
Quiet == \A c \in Clients : pc[c] = "idle"
=============================================================================

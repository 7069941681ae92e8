---------------------------- MODULE RequestReply ----------------------------
(***************************************************************************)
(* What an HTTP server promises to each of its clients on one connection:  *)
(* the requests are answered one at a time, in the order in which they     *)
(* were sent, each at most once, and nothing is answered after a request   *)
(* that asked for the connection to be closed or that could not be read.   *)
(*                                                                         *)
(* The variables are those of the servers that implement it, and a client  *)
(* may be cut off at any time.                                             *)
(***************************************************************************)
EXTENDS Integers, Sequences

CONSTANTS
  Clients,
  Requests              \* "last" and "bad" are two of them, if at all

VARIABLES
  sent,                 \* the requests each client has sent
  replies,              \* the numbers of those that were answered, in order
  over                  \* clients whose connection is not served any more

rrVars == <<sent, replies, over>>

RRInit ==
  /\ sent = [c \in Clients |-> <<>>]
  /\ replies = [c \in Clients |-> <<>>]
  /\ over = {}

Ask(c) ==
  /\ \E r \in Requests : sent' = [sent EXCEPT ![c] = Append(@, r)]
  /\ UNCHANGED <<replies, over>>

Answer(c) ==
  LET next == Len(replies[c]) + 1
  IN  /\ c \notin over
      /\ next \in DOMAIN sent[c]
      /\ sent[c][next] # "bad"
      /\ replies' = [replies EXCEPT ![c] = Append(@, next)]
      /\ over' = IF sent[c][next] = "last" THEN over \cup {c} ELSE over
      /\ UNCHANGED sent

GiveUp(c) ==
  /\ over' = over \cup {c}
  /\ UNCHANGED <<sent, replies>>

RRNext == \E c \in Clients : Ask(c) \/ Answer(c) \/ GiveUp(c)

RRSpec == RRInit /\ [][RRNext]_rrVars

=============================================================================

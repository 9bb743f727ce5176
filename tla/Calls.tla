------------------------------- MODULE Calls -------------------------------
(***************************************************************************)
(* A call of agv that goes through a list, or through several, one element *)
(* at a time, and keeps what it has found so far.  A behavior is one call. *)
(***************************************************************************)
EXTENDS Naturals, Sequences

VARIABLES
  call,   \* the call and its arguments
  pass,   \* which walk it is in, "done" once it has returned
  at,     \* the element that is next
  out     \* what the call has found; its result when it is done

(* A list: a sequence, of whatever. *)
IsList(s) == s \in Seq({s[i] : i \in DOMAIN s})

In(kind, p) == call.kind = kind /\ pass = p /\ UNCHANGED call
On(list) == at <= Len(list) /\ at' = at + 1
Past(list) == at > Len(list)
Walk(p) == pass' = p /\ at' = 1
Done(result) == pass' = "done" /\ out' = result /\ UNCHANGED at

Returned(kind) == call.kind = kind /\ pass = "done"
=============================================================================

----------------------------- MODULE RpcFailover -----------------------------
(***************************************************************************)
(* RpcFailoverClient (rpc_manager.py): which endpoint a client asks, and   *)
(* how a call goes on after an error.  Only the client is modelled here;   *)
(* what an endpoint does with a request is up to the module that uses it.  *)
(***************************************************************************)
EXTENDS Naturals, Sequences, FiniteSets

CONSTANTS
  Urls,         \* the configured urls in their order, "" for a blank one
  MaxRetries    \* max_retries of a call

ASSUME FailoverAssumption ==
  /\ Urls \in Seq(STRING)
  /\ MaxRetries \in Nat
  /\ \E i \in DOMAIN Urls : Urls[i] # ""

VARIABLES
  current,      \* current_index
  attempt       \* the attempt under way, 0 between calls

\* normalize_rpc_urls(): without blanks and repetitions, in their order.  The
\* list keeps the places where a url that is not blank stands first.
FirstPlaces ==
  {i \in DOMAIN Urls :
     Urls[i] # "" /\ \A j \in DOMAIN Urls : j < i => Urls[j] # Urls[i]}
Place(n) ==
  CHOOSE i \in FirstPlaces : Cardinality({j \in FirstPlaces : j <= i}) = n
Endpoints == [n \in 1..Cardinality(FirstPlaces) |-> Urls[Place(n)]]

InitClient == current = 1 /\ attempt = 0

\* What classify_rpc_error() makes of an error, by the words in its message.
Retryable(kind) == kind \in {"rate_limit", "timeout", "connection"}

\* Mutant of Rotated: the client stays with its endpoint.
RotatedNever == current

\* Mutant of Rotated: the end of the list is not the end.
RotatedPast == current + 1

\* rotate()
Rotated == (current % Len(Endpoints)) + 1

\* perform(): the first attempt of a call.
StartCall == attempt = 0 /\ attempt' = 1 /\ UNCHANGED current

\* An answer ends the call; the client stays with the endpoint.
Answered == attempt > 0 /\ attempt' = 0 /\ UNCHANGED current

\* An error with an attempt left: only a retryable one moves on.
Retry(kind) ==
  /\ attempt \in 1..MaxRetries
  /\ attempt' = attempt + 1
  /\ current' = IF Retryable(kind) THEN Rotated ELSE current

\* An error of the last attempt is the error of the call: no rotation.
GiveUp == attempt = MaxRetries + 1 /\ attempt' = 0 /\ UNCHANGED current
==============================================================================

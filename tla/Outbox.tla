------------------------------- MODULE Outbox -------------------------------
(***************************************************************************)
(* What the client promises about the results of its tests, free of its    *)
(* memory, its loops, its posts and the faults.  Its file has at most one  *)
(* result for each target and each task.  One that the server has not      *)
(* answered for stays, and only a newer one of the same target or task,    *)
(* which the server has not answered for either, takes its place: who owes *)
(* the server a result owes one until the server has answered for it.      *)
(***************************************************************************)
CONSTANTS
  Keys,       \* the targets and tasks
  Deferred,   \* those whose result may get into the file with a later write
  Results, NoResult

VARIABLES
  box,       \* the result of each target and each task in the file
  answered   \* those whose result the server has stored or rejected

ovars == <<box, answered>>

OInit ==
  /\ box = [k \in Keys |-> NoResult]
  /\ answered = {}

Owing(k) == box[k] # NoResult /\ k \notin answered

\* The server accepts the result, knows it already, or rejects it.
Answer(k) ==
  /\ Owing(k)
  /\ answered' = answered \union {k}
  /\ UNCHANGED box

Stays(k) == box'[k] = box[k] /\ (k \in answered' <=> k \in answered)

Removed(k) == k \in answered /\ box'[k] = NoResult /\ k \notin answered'

Recorded(k) == box'[k] \in Results /\ k \notin answered'

\* What an earlier write should have put there, which may be answered for by now.
MadeUp(k) == k \in Deferred /\ ~ Owing(k) /\ box'[k] \in Results

\* The file is written as a whole, with one new result or none.
Write(k) ==
  /\ box' \in [Keys -> Results \union {NoResult}]
  /\ answered' \subseteq Keys
  /\ Recorded(k) \/ Stays(k) \/ Removed(k) \/ MadeUp(k)
  /\ \A other \in Keys \ {k} : Stays(other) \/ Removed(other) \/ MadeUp(other)

ONext == \E k \in Keys : Answer(k) \/ Write(k)

OSpec == OInit /\ [][ONext]_ovars
=============================================================================

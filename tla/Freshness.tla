----------------------------- MODULE Freshness -----------------------------
(***************************************************************************)
(* What the cache promises to whoever looks at a page: not that it shows   *)
(* the last write, but that what it shows was the truth at most Bound[k]   *)
(* ago.  There is no store here, only the history of the database and the  *)
(* answers; Cache is shown to implement this module.                       *)
(***************************************************************************)
EXTENDS Integers, Sequences

CONSTANTS
  Threads,    \* whoever serves the answers
  Keys,       \* what can be asked for
  Changes,    \* what a write is known by, besides its time
  None,       \* stands for "no answer"
  Bound       \* Bound[k]: how old an answer for k may be

VARIABLES
  now,        \* the time
  log,        \* log[n]: the n-th committed write, its time in log[n].at
  answer      \* answer[t]: the key and the version thread t answers with

(* Version n is the database after n writes.  It was current at some time  *)
(* not before "moment" iff the write that ended it came no earlier.        *)
CurrentSince(n, moment) ==
  /\ n \in 0..Len(log)
  /\ n < Len(log) => log[n + 1].at >= moment

Init ==
  /\ now = 0
  /\ log = <<>>
  /\ answer = [t \in Threads |-> None]

Pass == now' = now + 1 /\ UNCHANGED <<log, answer>>

Write(c) ==
  /\ log' = Append(log, [at |-> now, change |-> c])
  /\ UNCHANGED <<now, answer>>

(* An answer is old by no more than its key allows. *)
Answer(t, k) ==
  /\ \E n \in 0..Len(log) :
       /\ CurrentSince(n, now - Bound[k])
       /\ answer' = [answer EXCEPT ![t] = [key |-> k, seen |-> n]]
  /\ UNCHANGED <<now, log>>

(* Answers go out, from some of the threads at once. *)
Forget ==
  /\ \E T \in SUBSET Threads :
       answer' = [t \in Threads |-> IF t \in T THEN None ELSE answer[t]]
  /\ UNCHANGED <<now, log>>

Next ==
  \/ Pass \/ Forget
  \/ \E c \in Changes : Write(c)
  \/ \E t \in Threads, k \in Keys : Answer(t, k)

Spec == Init /\ [][Next]_<<now, log, answer>>
=============================================================================

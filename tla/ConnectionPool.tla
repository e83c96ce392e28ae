-------------------------- MODULE ConnectionPool --------------------------
(***************************************************************************)
(* What the database layer promises its callers, without the queue, the    *)
(* condition variable or the time-outs: a MongoDB client object is idle,   *)
(* in the hands of one thread, or destroyed by the shutdown.               *)
(***************************************************************************)
CONSTANTS Threads, Connections, Free, Gone

VARIABLE holder   \* holder[c]: the thread that owns c, or Free, or Gone

Init == holder = [c \in Connections |-> Free]

Take(t, c) ==
  /\ holder[c] = Free
  /\ \A d \in Connections : holder[d] # t
  /\ holder' = [holder EXCEPT ![c] = t]

Give(t, c) ==
  /\ holder[c] = t
  /\ holder' = [holder EXCEPT ![c] = Free]

\* The shutdown destroys the idle objects; one in use outlives it.
Close ==
  holder' = [c \in Connections |-> IF holder[c] = Free THEN Gone ELSE holder[c]]

Next ==
  \/ \E t \in Threads, c \in Connections : Take(t, c) \/ Give(t, c)
  \/ Close

Spec == Init /\ [][Next]_holder
===========================================================================

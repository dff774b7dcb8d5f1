---- MODULE MutexContract ----
(* What a caller of lock.zig's Mutex may rely on, whatever it is made of:    *)
(* the two calls, seen from the section between them.                        *)
CONSTANT Threads

VARIABLES
  asking,   \* who called lock and has not come back from it
  inside    \* who came back from it and has not given it up

NobodyThere == asking = {} /\ inside = {}

Asks(t) ==
  /\ t \notin asking \cup inside
  /\ asking' = asking \cup {t}
  /\ UNCHANGED inside

\* lock returns: to one that asked, while the section is empty.
Enters(t) ==
  /\ t \in asking /\ inside = {}
  /\ inside' = {t}
  /\ asking' = asking \ {t}

\* unlock takes effect: only for the one inside, and it keeps no asker out.
Leaves(t) ==
  /\ inside = {t}
  /\ inside' = {}
  /\ UNCHANGED asking

Calls == \E t \in Threads : Asks(t) \/ Enters(t) \/ Leaves(t)

Contract == NobodyThere /\ [][Calls]_<<asking, inside>>
====

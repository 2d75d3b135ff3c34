----------------------------- MODULE ContextPool -----------------------------
(***************************************************************************)
(* What the pool of database contexts promises to the threads of smsd, in  *)
(* the words of sms_db.h: a context is used by a thread or it is not.  A   *)
(* thread takes a context nobody holds, executes statements on it while it *)
(* holds it, and it alone gives it back.  Once the daemon shuts down the   *)
(* pool promises nothing more: every statement is refused.                 *)
(***************************************************************************)
CONSTANTS Worker, Ctx

VARIABLES
  holds,   \* [Worker -> the contexts it has taken and not given back]
  uses,    \* [Worker -> the contexts on which it executes a statement]
  closed

poolVars == <<holds, uses, closed>>

None == [w \in Worker |-> {}]

Init == holds = None /\ uses = None /\ closed = FALSE

\* Whether the first statement starts at once is up to the thread.
Take(w, c) ==
  /\ \A v \in Worker : c \notin holds[v]
  /\ holds' = [holds EXCEPT ![w] = @ \cup {c}]
  /\ uses' = [uses EXCEPT ![w] = @ \cup {c}] \/ UNCHANGED uses

Give(w, c) ==
  /\ c \in holds[w]
  /\ holds' = [holds EXCEPT ![w] = @ \ {c}]
  /\ uses' = [uses EXCEPT ![w] = @ \ {c}]

Begin(w, c) ==
  /\ c \in holds[w] \ uses[w]
  /\ uses' = [uses EXCEPT ![w] = @ \cup {c}]
  /\ UNCHANGED holds

End(w, c) ==
  /\ c \in uses[w]
  /\ uses' = [uses EXCEPT ![w] = @ \ {c}]
  /\ UNCHANGED holds

Close == closed' = TRUE /\ holds' = None /\ uses' = None

Next ==
  /\ ~closed
  /\ \/ Close
     \/ /\ UNCHANGED closed
        /\ \E w \in Worker, c \in Ctx : Take(w, c) \/ Give(w, c) \/ Begin(w, c) \/ End(w, c)

Spec == Init /\ [][Next]_poolVars
=============================================================================

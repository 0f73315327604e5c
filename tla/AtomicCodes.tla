---------------------------- MODULE AtomicCodes ----------------------------
(***************************************************************************)
(* What the local confirmation codes promise to the routes that use them:  *)
(* one table, from address to the live code, on which a check is a single  *)
(* step.  LocalCodes, the dictionary of main.py with the steps of          *)
(* check_local_code that a thread switch can separate, implements this     *)
(* specification as long as requests for one address take turns.           *)
(***************************************************************************)
EXTENDS Integers

CONSTANTS
  Threads,      \* workers of the server's thread pool
  Keys,         \* lower-cased addresses
  Codes,        \* confirmation codes
  Values,       \* submitted texts, stripped
  NonAscii,     \* the values compare_digest refuses to compare
  TTL,          \* lifetime of a code
  MaxAttempts,  \* checks a code survives
  None

VARIABLES
  live,         \* [Keys -> a code with its expiry and attempts, or None]
  now,
  phase,        \* [Threads -> where the thread's check is]
  ask           \* [Threads -> what the thread was asked to check, or None]

vars == <<live, now, phase, ask>>

Answers == {"true", "false", "error"}

Init ==
  /\ live = [k \in Keys |-> None]
  /\ now = 0
  /\ phase = [t \in Threads |-> "idle"]
  /\ ask = [t \in Threads |-> None]

\* A new code replaces the address's former one.
Offer(k, code) ==
  /\ live' = [live EXCEPT ![k] =
                [code |-> code, expires |-> now + TTL, attempts |-> 0]]
  /\ UNCHANGED <<now, phase, ask>>

Ask(t, k, v) ==
  /\ phase[t] = "idle"
  /\ phase' = [phase EXCEPT ![t] = "asked"]
  /\ ask' = [ask EXCEPT ![t] = [key |-> k, value |-> v]]
  /\ UNCHANGED <<live, now>>

Settle(t, remains, verdict) ==
  /\ phase[t] = "asked"
  /\ live' = [live EXCEPT ![ask[t].key] = remains]
  /\ phase' = [phase EXCEPT ![t] = verdict]
  /\ UNCHANGED <<now, ask>>

Dead(c) == now > c.expires \/ c.attempts >= MaxAttempts

\* No code, or one that is spent: the address has no live code afterwards.
Refuse(t) ==
  LET c == live[ask[t].key] IN
  /\ phase[t] = "asked"
  /\ c # None => Dead(c)
  /\ Settle(t, None, "false")

\* A wrong text costs the live code one attempt and nothing else.
Miss(t) ==
  LET c == live[ask[t].key] IN
  /\ phase[t] = "asked"
  /\ c # None
  /\ ~Dead(c)
  /\ ask[t].value # c.code
  /\ Settle(t, [c EXCEPT !.attempts = @ + 1],
            IF ask[t].value \in NonAscii THEN "error" ELSE "false")

\* The right text takes the code: no later check can be answered "true" by it.
Accept(t) ==
  LET c == live[ask[t].key] IN
  /\ phase[t] = "asked"
  /\ c # None
  /\ ~Dead(c)
  /\ ask[t].value = c.code
  /\ Settle(t, None, "true")

Answer(t) ==
  /\ phase[t] \in Answers
  /\ phase' = [phase EXCEPT ![t] = "idle"]
  /\ ask' = [ask EXCEPT ![t] = None]
  /\ UNCHANGED <<live, now>>

Elapse ==
  /\ now' = now + 1
  /\ UNCHANGED <<live, phase, ask>>

\* The process restarts: codes and unanswered checks are gone.
Forget ==
  /\ live' = [k \in Keys |-> None]
  /\ phase' = [t \in Threads |-> "idle"]
  /\ ask' = [t \in Threads |-> None]
  /\ UNCHANGED now

Next ==
  \/ \E k \in Keys, code \in Codes : Offer(k, code)
  \/ \E t \in Threads, k \in Keys, v \in Values : Ask(t, k, v)
  \/ \E t \in Threads : Refuse(t) \/ Miss(t) \/ Accept(t) \/ Answer(t)
  \/ Elapse
  \/ Forget

Spec == Init /\ [][Next]_vars
=============================================================================

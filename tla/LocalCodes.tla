---------------------------- MODULE LocalCodes ------------------------------
(***************************************************************************)
(* The confirmation codes main.py issues itself when Cognito is the local  *)
(* emulator: the dictionary _LOCAL_CODES, issue_local_code and             *)
(* check_local_code.  FastAPI runs the routes that call them (sync         *)
(* functions) on a pool of threads, and nothing locks the dictionary, so a *)
(* check is a sequence of steps, one per access to shared data, and other  *)
(* requests may run between any two of them.                               *)
(*                                                                         *)
(* An entry of the dictionary is an object with an identity: a check keeps *)
(* the object it looked up, while its pops remove whatever object the key  *)
(* holds by then.  Entries is the set of identities; its size bounds the   *)
(* codes issued in a run.                                                  *)
(***************************************************************************)
EXTENDS Integers, FiniteSets
LOCAL INSTANCE Combinatorics

CONSTANTS
  Threads,      \* workers of the server's thread pool
  Emails,       \* addresses as the user typed them
  Lower,        \* [Emails -> lower-cased addresses]: str.lower()
  Codes,        \* confirmation codes generate_local_code may return
  Texts,        \* texts a user may submit as the code
  Strip,        \* [Texts -> stripped texts]: str.strip()
  NonAscii,     \* stripped texts that are not ASCII
  Entries,      \* identities of the dictionary's entries
  TTL,          \* LOCAL_CODE_TTL_SECONDS
  MaxAttempts,  \* LOCAL_CODE_MAX_ATTEMPTS
  MaxNow,       \* bound of the model: the clock stops here
  None

Keys   == {Lower[email] : email \in Emails}
Values == {Strip[text] : text \in Texts}

\* The fields of an entry, what the atomic table shows of them, and the
\* arguments of a check.
Fields == [key : Keys, code : Codes, expires : Int, attempts : Nat]
Shown  == [code : Codes, expires : Int, attempts : Nat]
Asked  == [key : Keys, value : Values]

ASSUME ThreadsAssumption == IsFiniteSet(Threads) /\ Threads # {}
ASSUME NumbersAssumption == TTL \in Int /\ MaxAttempts \in Nat /\ MaxNow \in Nat
ASSUME NoneAssumption ==
  None \notin Entries \cup Keys \cup Fields \cup Shown \cup Asked
ASSUME FunctionsAssumption ==
  /\ Lower \in [Emails -> Keys]
  /\ Strip \in [Texts -> Values]
  /\ NonAscii \cap Codes = {}   \* a generated code is six digits

VARIABLES
  entry,     \* [Entries -> the entry's fields, None if it was not made yet]
  store,     \* _LOCAL_CODES: [Keys -> Entries or None]
  now,       \* time.time()
  pc,        \* [Threads -> the next step of the thread's check, its result]
  call,      \* [Threads -> the arguments of the thread's check, or None]
  held,      \* [Threads -> the local variable entry of the check, or None]
  seen,      \* [Threads -> the attempts the += under way has read, or 0]
  tried,     \* history: [Entries -> texts compared with the entry's code]
  accepted,  \* history: [Entries -> checks that answered True for the entry]
  latest     \* history: [Keys -> the entry issued last in this process]

vars == <<entry, store, now, pc, call, held, seen, tried, accepted, latest>>

Results == {"true", "false", "error"}
Steps   == {"lookup", "judge", "drop", "count", "try", "take"}

TypeOK ==
  /\ entry \in [Entries -> Fields \cup {None}]
  /\ store \in [Keys -> Entries \cup {None}]
  /\ now \in Nat
  /\ pc \in [Threads -> {"idle"} \cup Steps \cup Results]
  /\ call \in [Threads -> Asked \cup {None}]
  /\ held \in [Threads -> Entries \cup {None}]
  /\ seen \in [Threads -> Nat]
  /\ tried \in [Entries -> Nat]
  /\ accepted \in [Entries -> Nat]
  /\ latest \in [Keys -> Entries \cup {None}]
  /\ \A t \in Threads : pc[t] # "idle" => call[t] # None
  /\ \A t \in Threads : pc[t] \in {"judge", "drop", "count", "try", "take"} =>
       held[t] # None /\ entry[held[t]] # None
  /\ \A k \in Keys : store[k] # None => entry[store[k]] # None

Init ==
  /\ entry = [e \in Entries |-> None]
  /\ store = [k \in Keys |-> None]
  /\ now = 0
  /\ pc = [t \in Threads |-> "idle"]
  /\ call = [t \in Threads |-> None]
  /\ held = [t \in Threads |-> None]
  /\ seen = [t \in Threads |-> 0]
  /\ tried = [e \in Entries |-> 0]
  /\ accepted = [e \in Entries |-> 0]
  /\ latest = [k \in Keys |-> None]

-----------------------------------------------------------------------------
(* issue_local_code: the entry is built, then stored in one assignment.    *)

\* The fields of a new entry.  key is history: the key it is filed under.
NewEntry(k, code) ==
  [key |-> k, code |-> code, expires |-> now + TTL, attempts |-> 0]

Unmade == {e \in Entries : entry[e] = None}

Issue(t, email, code) ==
  LET k == Lower[email]
      e == CHOOSE f \in Unmade : TRUE
  IN
  /\ pc[t] = "idle"
  /\ Unmade # {}
  /\ entry' = [entry EXCEPT ![e] = NewEntry(k, code)]
  /\ store' = [store EXCEPT ![k] = e]
  /\ latest' = [latest EXCEPT ![k] = e]
  /\ UNCHANGED <<now, pc, call, held, seen, tried, accepted>>

-----------------------------------------------------------------------------
(* check_local_code, one action per access to shared data.                 *)

Goto(t, step) == pc' = [pc EXCEPT ![t] = step]

\* _LOCAL_CODES.pop(key, None): removes whatever the key holds now.
Pop(k) == store' = [store EXCEPT ![k] = None]

Call(t, email, text) ==
  /\ pc[t] = "idle"
  /\ call' = [call EXCEPT ![t] = [key |-> Lower[email], value |-> Strip[text]]]
  /\ Goto(t, "lookup")
  /\ UNCHANGED <<entry, store, now, held, seen, tried, accepted, latest>>

Lookup(t) ==
  /\ pc[t] = "lookup"
  /\ held' = [held EXCEPT ![t] = store[call[t].key]]
  /\ Goto(t, IF store[call[t].key] = None THEN "false" ELSE "judge")
  /\ UNCHANGED <<entry, store, now, call, seen, tried, accepted, latest>>

\* The code is too old, or was tried too often.
RefusedByAge(e) == now > entry[e].expires
RefusedEarly(e) ==
  now > entry[e].expires \/ entry[e].attempts + 1 >= MaxAttempts
Refused(e) ==
  now > entry[e].expires \/ entry[e].attempts >= MaxAttempts

Judge(t) ==
  /\ pc[t] = "judge"
  /\ Goto(t, IF Refused(held[t]) THEN "drop" ELSE "count")
  /\ UNCHANGED <<entry, store, now, call, held, seen, tried, accepted, latest>>

Drop(t) ==
  /\ pc[t] = "drop"
  /\ Pop(call[t].key)
  /\ Goto(t, "false")
  /\ UNCHANGED <<entry, now, call, held, seen, tried, accepted, latest>>

\* compare_digest raises TypeError on a text that is not ASCII.
Compared(e, value) ==
  CASE value \in NonAscii      -> "error"
    [] value = entry[e].code   -> "take"
    [] OTHER                   -> "false"

\* entry["attempts"] += 1 reads the field and then writes it: a thread that
\* runs in between reads the same number, and one of the two is lost.
Count(t) ==
  /\ pc[t] = "count"
  /\ seen' = [seen EXCEPT ![t] = entry[held[t]].attempts]
  /\ Goto(t, "try")
  /\ UNCHANGED <<entry, store, now, call, held, tried, accepted, latest>>

\* The attempt is written before the comparison, so that one that raises is
\* counted too.  The comparison reads nothing that changes: an entry keeps
\* its code.
TryCompareFirst(t) ==
  /\ pc[t] = "try"
  /\ entry' = IF Compared(held[t], call[t].value) = "error" THEN entry
              ELSE [entry EXCEPT ![held[t]].attempts = seen[t] + 1]
  /\ seen' = [seen EXCEPT ![t] = 0]
  /\ tried' = [tried EXCEPT ![held[t]] = @ + 1]
  /\ Goto(t, Compared(held[t], call[t].value))
  /\ UNCHANGED <<store, now, call, held, accepted, latest>>
Try(t) ==
  /\ pc[t] = "try"
  /\ entry' = [entry EXCEPT ![held[t]].attempts = seen[t] + 1]
  /\ seen' = [seen EXCEPT ![t] = 0]
  /\ tried' = [tried EXCEPT ![held[t]] = @ + 1]
  /\ Goto(t, Compared(held[t], call[t].value))
  /\ UNCHANGED <<store, now, call, held, accepted, latest>>

TakeAndKeep(t) ==
  /\ pc[t] = "take"
  /\ accepted' = [accepted EXCEPT ![held[t]] = @ + 1]
  /\ Goto(t, "true")
  /\ UNCHANGED <<entry, store, now, call, held, seen, tried, latest>>
Take(t) ==
  /\ pc[t] = "take"
  /\ Pop(call[t].key)
  /\ accepted' = [accepted EXCEPT ![held[t]] = @ + 1]
  /\ Goto(t, "true")
  /\ UNCHANGED <<entry, now, call, held, seen, tried, latest>>

Return(t) ==
  /\ pc[t] \in Results
  /\ Goto(t, "idle")
  /\ call' = [call EXCEPT ![t] = None]
  /\ held' = [held EXCEPT ![t] = None]
  /\ UNCHANGED <<entry, store, now, seen, tried, accepted, latest>>

Check(t) ==
  \/ Lookup(t) \/ Judge(t) \/ Drop(t)
  \/ Count(t) \/ Try(t) \/ Take(t) \/ Return(t)

-----------------------------------------------------------------------------
Tick ==
  /\ now < MaxNow
  /\ now' = now + 1
  /\ UNCHANGED <<entry, store, pc, call, held, seen, tried, accepted, latest>>

\* The dictionary lives in the process, which its container restarts.
Restart ==
  /\ store' = [k \in Keys |-> None]
  /\ pc' = [t \in Threads |-> "idle"]
  /\ call' = [t \in Threads |-> None]
  /\ held' = [t \in Threads |-> None]
  /\ seen' = [t \in Threads |-> 0]
  /\ latest' = [k \in Keys |-> None]
  /\ UNCHANGED <<entry, now, tried, accepted>>

Next ==
  \/ \E t \in Threads, email \in Emails, code \in Codes : Issue(t, email, code)
  \/ \E t \in Threads, email \in Emails, text \in Texts : Call(t, email, text)
  \/ \E t \in Threads : Check(t)
  \/ Tick
  \/ Restart

Spec == Init /\ [][Next]_vars

\* Requests for one address take turns, as those of one page do; requests
\* for other addresses run beside them.
Quiet(k) == \A t \in Threads : pc[t] # "idle" => call[t].key # k

NextInTurn ==
  \/ \E t \in Threads, email \in Emails, code \in Codes :
       Quiet(Lower[email]) /\ Issue(t, email, code)
  \/ \E t \in Threads, email \in Emails, text \in Texts :
       Quiet(Lower[email]) /\ Call(t, email, text)
  \/ \E t \in Threads : Check(t)
  \/ Tick
  \/ Restart

SpecInTurn == Init /\ [][NextInTurn]_vars

-----------------------------------------------------------------------------
(* Safety *)

\* Threads between the judgement of entry e and the write of its count.
Trying(e) == {t \in Threads : pc[t] \in {"count", "try"} /\ held[t] = e}

\* Threads that may still answer True for entry e.
Holders(e) ==
  {t \in Threads : pc[t] \in {"judge", "count", "try", "take"} /\ held[t] = e}

\* However checks interleave, a code is compared with finitely many texts.
\* A check that passed the limit (main.py:181) may sleep inside its +=, and
\* its write sets the count of all the checks since back to one more than it
\* had read; it can do so once per number it reads, which leaves the other
\* threads as many tries as they have with the attempts still to count.
\* These sums are the binomial coefficients; one thread has MaxAttempts.
GuessesBounded ==
  LET threads == Cardinality(Threads) IN
  \A e \in Entries :
    tried[e] < choose(MaxAttempts + threads, threads)

\* A code that was accepted is out of the dictionary for good (main.py:186):
\* no check that starts later can find it under any key.
ConsumedIsGone ==
  \A e \in Entries : accepted[e] > 0 => \A k \in Keys : store[k] # e

\* One code is accepted by at most as many checks as ran at the same time,
\* one per thread: with ConsumedIsGone, never again afterwards.
AcceptancesBounded ==
  \A e \in Entries : accepted[e] <= Cardinality(Threads)

\* The inductive invariant behind the two: a code is stored and checked
\* under its own key only, so that the pop of a check that accepts it does
\* remove it; a check that may still accept is reckoned in.
FiledUnderKey ==
  /\ \A k \in Keys : store[k] # None => entry[store[k]].key = k
  /\ \A t \in Threads : pc[t] \in {"judge", "drop", "count", "try", "take"} =>
       entry[held[t]].key = call[t].key

AcceptancesReckoned ==
  \A e \in Entries :
    /\ accepted[e] + Cardinality(Holders(e)) <= Cardinality(Threads)
    /\ accepted[e] > 0 => entry[e] # None

\* All of check_local_code's steps, of any number of threads, keep this.
Inv ==
  /\ TypeOK
  /\ FiledUnderKey
  /\ AcceptancesReckoned
  /\ ConsumedIsGone

\* The newest code of an address stays valid until it expires, is accepted
\* or used up: main.py:284-285 sends it "instead of leaving the user stuck".
LiveCodeKept ==
  \A k \in Keys : LET e == latest[k] IN
    /\ e # None
    /\ accepted[e] = 0
    /\ now <= entry[e].expires
    /\ entry[e].attempts < MaxAttempts
    => store[k] = e

\* No code is compared with more texts than the limit (main.py:181), those
\* that compare_digest refuses included.
AttemptsBounded == \A e \in Entries : tried[e] <= MaxAttempts

\* A code is accepted by one check only (main.py:186 takes it out).
AcceptedOnce == \A e \in Entries : accepted[e] <= 1

-----------------------------------------------------------------------------
(* The atomic table this module implements when requests take turns.  A    *)
(* check is decided where it looks up nothing, or else where it judges the *)
(* entry: what it still has to do to the entry counts as done.             *)

Decided(t) ==
  CASE pc[t] \in {"lookup", "judge"} -> "asked"
    [] pc[t] = "drop" -> "false"
    [] pc[t] \in {"count", "try"} ->
         LET step == Compared(held[t], call[t].value) IN
         IF step = "take" THEN "true" ELSE step
    [] pc[t] = "take" -> "true"
    [] OTHER -> pc[t]

\* The entry of key k once the checks already decided are carried out.
Settled(k) ==
  LET e == store[k]
      gone == \E t \in Threads :
                /\ held[t] = e
                /\ pc[t] \in {"drop", "count", "try", "take"}
                /\ pc[t] = "drop" \/ Decided(t) = "true"
  IN IF e = None \/ gone THEN None
     ELSE [code |-> entry[e].code, expires |-> entry[e].expires,
           attempts |-> entry[e].attempts + Cardinality(Trying(e))]

Atomic == INSTANCE AtomicCodes WITH
  live  <- [k \in Keys |-> Settled(k)],
  phase <- [t \in Threads |-> Decided(t)],
  ask   <- call

\* Taken in turn per address, the separate steps of check_local_code are one
\* step: the codes behave as the atomic table does.
ImplementsAtomicCodes == Atomic!Spec
=============================================================================

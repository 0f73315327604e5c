------------------------- MODULE LibraryPageProofs --------------------------
(***************************************************************************)
(* Proofs about LibraryPage for every set of tabs, users and outstanding   *)
(* requests, and any number of sessions.                                   *)
(***************************************************************************)
EXTENDS LibraryPage, TLAPS

\* What a tab shows on an answer is somebody's: a request that was granted
\* carries a token the server gave to a user.
Granted ==
  \A t \in Tabs, s \in Slots :
    slot[t][s] # None /\ slot[t][s].answer = "ok" =>
      slot[t][s].token \in Tokens /\ owner[slot[t][s].token] \in Users

\* Every handler of script.js keeps this.
Inv == TypeOK /\ Granted /\ OneSection /\ AsksWhenSignedOut

-----------------------------------------------------------------------------
(* The pieces the handlers are made of                                     *)

LEMMA FillSlot ==
  ASSUME TypeOK, NEW t \in Tabs, NEW s \in Slots,
         NEW r \in Requests \cup {None}, Fill(t, s, r)
  PROVE  /\ slot' \in [Tabs -> [Slots -> Requests \cup {None}]]
         /\ slot'[t][s] = r
         /\ \A u \in Tabs, v \in Slots :
              u # t \/ v # s => slot'[u][v] = slot[u][v]
BY DEF TypeOK, Fill

\* A request that carries no answer yet, or none at all, grants nothing.
LEMMA FillGrants ==
  ASSUME TypeOK, Granted, UNCHANGED owner, NEW t \in Tabs, NEW s \in Slots,
         NEW r \in Requests \cup {None}, Fill(t, s, r),
         r # None => r.answer = None
  PROVE  Granted'
<1>1. ASSUME NEW u \in Tabs, NEW v \in Slots,
             slot'[u][v] # None, slot'[u][v].answer = "ok"
      PROVE  /\ slot'[u][v].token \in Tokens
             /\ owner'[slot'[u][v].token] \in Users
  <2>1. CASE u = t /\ v = s
    <3>1. slot'[u][v] = r
      BY <2>1, FillSlot
    <3> QED
      BY <1>1, <3>1, PageAssumption
  <2>2. CASE u # t \/ v # s
    <3>1. slot'[u][v] = slot[u][v]
      BY <2>2, FillSlot
    <3> QED
      BY <1>1, <3>1 DEF Granted
  <2> QED
    BY <2>1, <2>2
<1> QED
  BY <1>1 DEF Granted

LEMMA NewRequest ==
  ASSUME NEW k \in Kinds, NEW token \in Tokens \cup {None}
  PROVE  [kind |-> k, token |-> token, answer |-> None] \in Requests
BY DEF Requests

LEMMA ShowViews ==
  ASSUME TypeOK, NEW t \in Tabs,
         NEW c \in Users \cup {None},
         NEW r \in Users \cup {"login", "error", None},
         Show(t, c, r)
  PROVE  /\ collection' \in [Tabs -> Users \cup {None}]
         /\ results' \in [Tabs -> Users \cup {"login", "error", None}]
         /\ collection'[t] = c
         /\ results'[t] = r
         /\ \A u \in Tabs \ {t} :
              collection'[u] = collection[u] /\ results'[u] = results[u]
BY DEF TypeOK, Show

\* An answer keeps a request one.
LEMMA Answered ==
  ASSUME NEW r \in Requests, r.kind # "signin", NEW a \in {"ok", "401"}
  PROVE  /\ [r EXCEPT !.answer = a] \in Requests
         /\ [r EXCEPT !.answer = a].token = r.token
         /\ [r EXCEPT !.answer = a].answer = a
BY DEF Requests, Kinds

LEMMA SignInAnswered ==
  ASSUME NEW r \in Requests, r.kind = "signin", NEW k \in Tokens
  PROVE  /\ [r EXCEPT !.answer = "ok", !.token = k] \in Requests
         /\ [r EXCEPT !.answer = "ok", !.token = k].token = k
BY DEF Requests, Kinds

-----------------------------------------------------------------------------
(* The steps                                                               *)

\* Views and memory of one tab change: the two promises about what it shows
\* need a look at that tab only.
LEMMA OneTab ==
  ASSUME OneSection, AsksWhenSignedOut, TypeOK,
         current' \in [Tabs -> Tokens \cup {None}],
         NEW t \in Tabs,
         NEW c \in Users \cup {None},
         NEW r \in Users \cup {"login", "error", None},
         Show(t, c, r),
         \A u \in Tabs \ {t} : current'[u] = current[u],
         c = None \/ r = None,
         r = "login" => current'[t] = None
  PROVE  OneSection' /\ AsksWhenSignedOut'
<1>1. ASSUME NEW u \in Tabs
      PROVE  /\ collection'[u] = None \/ results'[u] = None
             /\ results'[u] = "login" => current'[u] = None
  BY ShowViews DEF OneSection, AsksWhenSignedOut
<1> QED
  BY <1>1 DEF OneSection, AsksWhenSignedOut

LEMMA SameViews ==
  ASSUME OneSection, AsksWhenSignedOut, UNCHANGED views,
         \A u \in Tabs : current'[u] \in {current[u], None}
  PROVE  OneSection' /\ AsksWhenSignedOut'
BY DEF OneSection, AsksWhenSignedOut, views

LEMMA Cleared ==
  ASSUME TypeOK, NEW t \in Tabs, ClearSession(t) \/ KeepSession
  PROVE  /\ stored' \in Tokens \cup {None}
         /\ current' \in [Tabs -> Tokens \cup {None}]
         /\ \A u \in Tabs : current'[u] \in {current[u], None}
         /\ \A u \in Tabs \ {t} : current'[u] = current[u]
         /\ ClearSession(t) => current'[t] = None
BY DEF TypeOK, ClearSession, KeepSession

LEMMA InvInit == Init => Inv
BY DEF Init, Inv, TypeOK, Granted, OneSection, AsksWhenSignedOut

LEMMA LeaveKeepsInv ==
  ASSUME Inv, NEW t \in Tabs, SignOut(t) \/ Reload(t)
  PROVE  Inv'
<1> USE DEF Inv
<1>1. CASE SignOut(t)
  <2>1. ClearSession(t) /\ Show(t, None, None) /\ UNCHANGED <<server, slot>>
    BY <1>1 DEF SignOut
  <2>2. TypeOK'
    BY <2>1, Cleared, ShowViews DEF TypeOK, server
  <2>3. Granted'
    BY <2>1 DEF Granted, server
  <2> QED
    BY <2>1, <2>2, <2>3, Cleared, OneTab DEF TypeOK
<1>2. CASE Reload(t)
  <2>1. /\ current' = [current EXCEPT ![t] = stored]
        /\ Show(t, None, None)
        /\ slot' = [slot EXCEPT ![t] = [v \in Slots |-> None]]
        /\ UNCHANGED <<server, stored>>
    BY <1>2 DEF Reload
  <2>2. TypeOK'
    BY <2>1, ShowViews DEF TypeOK, server
  <2>3. Granted'
    BY <2>1 DEF Granted, TypeOK, server
  <2> QED
    BY <2>1, <2>2, <2>3, OneTab, PageAssumption DEF TypeOK
<1> QED
  BY <1>1, <1>2

LEMMA ClickKeepsInv ==
  ASSUME Inv, NEW t \in Tabs, NEW s \in Slots,
         SignIn(t, s) \/ Load(t, s) \/ Ask(t, s)
  PROVE  Inv'
<1> USE DEF Inv
<1>1. CASE SignIn(t, s)
  <2>1. PICK u \in Users :
          Fill(t, s, [kind |-> "signin", user |-> u, token |-> None, answer |-> None])
    BY <1>1 DEF SignIn
  <2>2. [kind |-> "signin", user |-> u, token |-> None, answer |-> None] \in Requests
    BY DEF Requests
  <2>3. UNCHANGED <<server, stored, current, views>>
    BY <1>1 DEF SignIn
  <2>4. TypeOK'
    BY <2>1, <2>2, <2>3, FillSlot DEF TypeOK, server, views
  <2>5. Granted'
    BY <2>1, <2>2, <2>3, FillGrants DEF server
  <2> QED
    BY <2>3, <2>4, <2>5, SameViews
<1>2. CASE Load(t, s)
  <2>1. KeepSession /\ UNCHANGED server
    BY <1>2 DEF Load
  <2>2. CASE current[t] = None
    <3>1. Show(t, None, "login") /\ UNCHANGED slot
      BY <1>2, <2>2 DEF Load, AsksLogin
    <3>2. TypeOK'
      BY <2>1, <3>1, ShowViews, Cleared DEF TypeOK, server
    <3>3. Granted'
      BY <2>1, <3>1 DEF Granted, server
    <3> QED
      BY <2>1, <2>2, <3>1, <3>2, <3>3, Cleared, OneTab DEF KeepSession
  <2>3. CASE current[t] # None
    <3>1. UNCHANGED views /\ \E kind \in Kinds : Send(t, s, kind)
      BY <1>2, <2>3 DEF Load, Kinds
    <3>2. PICK kind \in Kinds : Send(t, s, kind)
      BY <3>1
    <3> QED
      BY <2>1, <3>1, <3>2, Cleared, NewRequest, FillSlot, FillGrants, SameViews
         DEF Send, TypeOK, server, views
  <2> QED
    BY <2>2, <2>3
<1>3. CASE Ask(t, s)
  <2>1. /\ KeepSession
        /\ UNCHANGED <<server, views>>
        /\ \E kind \in Kinds : Send(t, s, kind)
    BY <1>3 DEF Ask, Kinds
  <2>2. PICK kind \in Kinds : Send(t, s, kind)
    BY <2>1
  <2> QED
    BY <2>1, <2>2, Cleared, NewRequest, FillSlot, FillGrants, SameViews
       DEF Send, TypeOK, server, views
<1> QED
  BY <1>1, <1>2, <1>3

LEMMA ExpireKeepsInv == Inv /\ Expire => Inv'
<1> SUFFICES ASSUME Inv, Expire PROVE Inv'
  OBVIOUS
<1>1. live' \subseteq live /\ UNCHANGED <<owner, stored, current, views, slot>>
  BY DEF Expire
<1> QED
  BY <1>1, SameViews DEF Inv, TypeOK, Granted, views

LEMMA ServerKeepsInv ==
  ASSUME Inv, NEW t \in Tabs, NEW s \in Slots, Serve(t, s)
  PROVE  Inv'
<1> USE DEF Inv
<1>1. UNCHANGED <<stored, current, views>>
  BY DEF Serve
<1>2. OneSection' /\ AsksWhenSignedOut'
  BY <1>1, SameViews
<1> DEFINE r == slot[t][s]
<1>3. r # None /\ r \in Requests
  BY DEF Serve, TypeOK
<1>4. ASSUME NEW q \in Requests, slot' = [slot EXCEPT ![t][s] = q],
             UNCHANGED server,
             q.answer = "ok" => q.token \in live
      PROVE  TypeOK' /\ Granted'
  <2>1. Fill(t, s, q)
    BY <1>4 DEF Fill
  <2>2. TypeOK'
    BY <1>1, <1>4, <2>1, FillSlot DEF TypeOK, server, views
  <2>3. q.token \in live => q.token \in Tokens /\ owner[q.token] \in Users
    BY DEF TypeOK
  <2>4. Granted'
    BY <1>4, <2>1, <2>3, FillSlot DEF Granted, server
  <2> QED
    BY <2>2, <2>4
<1>5. CASE /\ r.kind # "signin"
           /\ Answer(t, s, IF r.token \in live THEN "ok" ELSE "401")
           /\ UNCHANGED server
  <2> DEFINE a == IF r.token \in live THEN "ok" ELSE "401"
  <2>1. slot' = [slot EXCEPT ![t][s] = [r EXCEPT !.answer = a]]
    BY <1>5 DEF Answer, TypeOK
  <2>2. /\ [r EXCEPT !.answer = a] \in Requests
        /\ [r EXCEPT !.answer = a].token = r.token
        /\ [r EXCEPT !.answer = a].answer = a
    BY <1>3, <1>5, Answered
  <2>3. a = "ok" => r.token \in live
    OBVIOUS
  <2> HIDE DEF r, a
  <2> QED
    BY <1>2, <1>4, <1>5, <2>1, <2>2, <2>3
<1>6. CASE /\ r.kind = "signin"
           /\ \E k \in Tokens :
                /\ owner[k] = None
                /\ owner' = [owner EXCEPT ![k] = r.user]
                /\ live' = live \cup {k}
                /\ slot' = [slot EXCEPT ![t][s].answer = "ok", ![t][s].token = k]
  <2>1. PICK k \in Tokens :
          /\ owner[k] = None
          /\ owner' = [owner EXCEPT ![k] = r.user]
          /\ live' = live \cup {k}
          /\ slot' = [slot EXCEPT ![t][s].answer = "ok", ![t][s].token = k]
    BY <1>6
  <2> DEFINE q == [r EXCEPT !.answer = "ok", !.token = k]
  <2>2. Fill(t, s, q)
    BY <2>1 DEF Fill, TypeOK
  <2>3. q \in Requests /\ q.token = k
    BY <1>3, <1>6, SignInAnswered
  <2>4. r.user \in Users
    BY <1>3, <1>6 DEF Requests, Kinds
  <2> HIDE DEF q
  <2>5. /\ slot' \in [Tabs -> [Slots -> Requests \cup {None}]]
        /\ slot'[t][s] = q
        /\ \A u \in Tabs, v \in Slots :
             u # t \/ v # s => slot'[u][v] = slot[u][v]
    BY <2>2, <2>3, FillSlot
  <2> HIDE DEF r
  <2>6. /\ owner' \in [Tokens -> Users \cup {None}]
        /\ owner'[k] \in Users
        /\ \A j \in Tokens : owner[j] \in Users => owner'[j] \in Users
        /\ \A j \in live' : j \in Tokens /\ owner'[j] # None
    BY <2>1, <2>4, PageAssumption DEF TypeOK
  <2>7. TypeOK'
    BY <1>1, <2>5, <2>6 DEF TypeOK, views
  <2>8. Granted'
    BY <2>3, <2>5, <2>6 DEF Granted
  <2> QED
    BY <1>2, <2>7, <2>8
<1> QED
  BY <1>5, <1>6 DEF Serve

LEMMA AnswerKeepsInv ==
  ASSUME Inv, NEW t \in Tabs, NEW s \in Slots,
         \/ SignedIn(t, s) \/ Loaded(t, s) \/ Exported(t, s) \/ RouteError(t, s)
         \/ Reloading(t, s) \/ ActionError(t, s) \/ AddError(t, s)
  PROVE  Inv'
<1> USE DEF Inv
<1>1. UNCHANGED server
  BY DEF SignedIn, Loaded, Exported, RouteError, Reloading, ActionError, AddError
<1>2. ASSUME Fill(t, s, None)
      PROVE  /\ slot' \in [Tabs -> [Slots -> Requests \cup {None}]]
             /\ Granted'
  BY <1>1, <1>2, FillSlot, FillGrants DEF server
<1>3. CASE SignedIn(t, s)
  <2>1. Fill(t, s, None)
    BY <1>3 DEF SignedIn
  <2>2. CASE Arrived(t, s, {"signin"}, "ok") /\ SaveSession(t, slot[t][s].token)
    <3> DEFINE k == slot[t][s].token
    <3>1. k \in Tokens
      BY <2>2 DEF Arrived, Granted
    <3> HIDE DEF k
    <3>2. /\ stored' = k
          /\ current' = [current EXCEPT ![t] = k]
          /\ Show(t, collection[t], Synced(t))
      BY <2>2 DEF SaveSession, k
    <3>3. /\ Synced(t) \in {results[t], None}
          /\ Synced(t) = "login" => current'[t] = None
      BY PageAssumption DEF Synced
    <3>4. TypeOK'
      BY <1>1, <1>2, <2>1, <3>1, <3>2, <3>3, ShowViews DEF TypeOK, server
    <3>5. collection[t] = None \/ Synced(t) = None
      BY <3>3 DEF OneSection
    <3> QED
      BY <1>2, <2>1, <3>1, <3>2, <3>3, <3>4, <3>5, OneTab DEF TypeOK
  <2>3. CASE KeepSession /\ Show(t, collection[t], Synced(t))
    <3>1. Synced(t) = results[t]
      BY <2>3 DEF Synced, KeepSession, AsksWhenSignedOut
    <3>2. TypeOK'
      BY <1>1, <1>2, <2>1, <2>3, <3>1, Cleared, ShowViews DEF TypeOK, server
    <3> QED
      BY <1>2, <2>1, <2>3, <3>1, <3>2, Cleared, OneTab
         DEF TypeOK, KeepSession, OneSection, AsksWhenSignedOut
  <2> QED
    BY <1>3, <2>2, <2>3 DEF SignedIn
<1>4. CASE Loaded(t, s)
  <2>1. Fill(t, s, None) /\ KeepSession /\ Whose(t, s) \in Users
    BY <1>4 DEF Loaded, Arrived, Whose, Granted
  <2>2. Show(t, None, Whose(t, s)) \/ Show(t, Whose(t, s), None)
    BY <1>4 DEF Loaded, Rendered
  <2>3. TypeOK'
    BY <1>1, <1>2, <2>1, <2>2, Cleared, ShowViews DEF TypeOK, server
  <2>4. Whose(t, s) # "login" /\ None # "login"
    BY <2>1, PageAssumption
  <2> QED
    BY <1>2, <2>1, <2>2, <2>3, <2>4, Cleared, OneTab
<1>5. CASE RouteError(t, s)
  <2>1. Fill(t, s, None)
    BY <1>5 DEF RouteError
  <2>2. \/ ClearSession(t) /\ Show(t, None, "login")
        \/ KeepSession /\ Show(t, None, "error")
    BY <1>5 DEF RouteError, AsksLogin
  <2>3. TypeOK'
    BY <1>1, <1>2, <2>1, <2>2, Cleared, ShowViews DEF TypeOK, server
  <2> QED
    BY <1>2, <2>1, <2>2, <2>3, Cleared, OneTab
<1>6. CASE Reloading(t, s)
  <2>1. KeepSession /\ UNCHANGED views /\ \E kind \in Kinds : Send(t, s, kind)
    BY <1>6 DEF Reloading, Kinds
  <2>2. PICK kind \in Kinds : Send(t, s, kind)
    BY <2>1
  <2> QED
    BY <1>1, <2>1, <2>2, Cleared, NewRequest, FillSlot, FillGrants, SameViews
       DEF Send, TypeOK, server, views
<1>7. CASE Exported(t, s) \/ ActionError(t, s) \/ AddError(t, s)
  <2>1. /\ Fill(t, s, None)
        /\ ClearSession(t) \/ KeepSession
        /\ UNCHANGED views
    BY <1>7 DEF Exported, ActionError, AddError
  <2>2. TypeOK'
    BY <1>1, <1>2, <2>1, Cleared DEF TypeOK, server, views
  <2> QED
    BY <1>2, <2>1, <2>2, Cleared, SameViews
<1> QED
  BY <1>3, <1>4, <1>5, <1>6, <1>7

LEMMA InvNext == Inv /\ [Next]_vars => Inv'
<1>1. ASSUME Inv, Next PROVE Inv'
  BY <1>1, LeaveKeepsInv, ClickKeepsInv, ServerKeepsInv, AnswerKeepsInv,
     ExpireKeepsInv DEF Next
<1>2. ASSUME Inv, UNCHANGED vars PROVE Inv'
  BY <1>2 DEF vars, views, server, Inv, TypeOK, Granted, OneSection,
              AsksWhenSignedOut
<1> QED
  BY <1>1, <1>2

LEMMA SpecInv == Spec => []Inv
  BY InvInit, InvNext, PTL DEF Spec

-----------------------------------------------------------------------------
(* Users who wait                                                          *)

\* The tokens about are those the server gave to somebody.
TokensOwned ==
  /\ stored # None => owner[stored] \in Users
  /\ \A t \in Tabs : current[t] # None => owner[current[t]] \in Users
  /\ \A t \in Tabs, s \in Slots :
       slot[t][s] # None /\ slot[t][s].token # None =>
         owner[slot[t][s].token] \in Users

\* A token that was rejected is over.
Rejected ==
  \A t \in Tabs, s \in Slots :
    slot[t][s] # None /\ slot[t][s].answer = "401" => slot[t][s].token \notin live

\* The request r is about the session of token k, or asks for one.
OfSession(r, k) == IF r.kind = "signin" THEN k = None ELSE r.token = k

\* A patient tab has one request out, with its token in memory.
PatientWaits ==
  \A t \in Patient, s \in Slots : slot[t][s] # None =>
    /\ \A v \in Slots \ {s} : slot[t][v] = None
    /\ OfSession(slot[t][s], current[t])

Waits == TokensOwned /\ Rejected /\ PatientWaits

\* One tab sends a request, or is done with one.
LEMMA FillWaits ==
  ASSUME TypeOK, Waits, UNCHANGED server,
         NEW t \in Tabs, NEW s \in Slots, NEW r \in Requests \cup {None},
         Fill(t, s, r),
         stored' # None => owner[stored'] \in Users,
         current'[t] # None => owner[current'[t]] \in Users,
         \A u \in Tabs \ {t} : current'[u] = current[u],
         r # None => /\ r.answer = None
                     /\ r.token # None => owner[r.token] \in Users
                     /\ OfSession(r, current'[t]),
         t \in Patient => \A v \in Slots \ {s} : slot[t][v] = None
  PROVE  Waits'
<1> USE PageAssumption
<1>1. /\ slot'[t][s] = r
      /\ \A u \in Tabs, v \in Slots :
           u # t \/ v # s => slot'[u][v] = slot[u][v]
  BY FillSlot
<1>2. TokensOwned'
  <2>1. ASSUME NEW u \in Tabs PROVE current'[u] # None => owner[current'[u]] \in Users
    BY DEF Waits, TokensOwned
  <2>2. ASSUME NEW u \in Tabs, NEW v \in Slots, slot'[u][v] # None,
               slot'[u][v].token # None
        PROVE  owner[slot'[u][v].token] \in Users
    BY <1>1, <2>2 DEF Waits, TokensOwned
  <2> QED
    BY <2>1, <2>2 DEF TokensOwned, server
<1>3. Rejected'
  BY <1>1 DEF Waits, Rejected, server
<1>4. PatientWaits'
  <2>1. ASSUME NEW u \in Patient, NEW v \in Slots, slot'[u][v] # None
        PROVE  /\ \A w \in Slots \ {v} : slot'[u][w] = None
               /\ OfSession(slot'[u][v], current'[u])
    <3>1. CASE u # t
      BY <1>1, <2>1, <3>1 DEF Waits, PatientWaits, OfSession
    <3>2. CASE u = t
      <4>1. \A w \in Slots \ {s} : slot'[t][w] = None
        BY <1>1, <2>1, <3>2
      <4>2. v = s
        BY <2>1, <3>2, <4>1
      <4> QED
        BY <1>1, <2>1, <3>2, <4>1, <4>2 DEF OfSession
    <3> QED
      BY <3>1, <3>2
  <2> QED
    BY <2>1 DEF PatientWaits
<1> QED
  BY <1>2, <1>3, <1>4 DEF Waits

\* An outstanding request gets an answer, which changes nothing else of it.
LEMMA ServerWaits ==
  ASSUME Inv, Waits, NEW t \in Tabs, NEW s \in Slots, Serve(t, s)
  PROVE  Waits'
<1> USE PageAssumption DEF Inv
<1>1. UNCHANGED <<stored, current>>
  BY DEF Serve
<1> DEFINE r == slot[t][s]
<1>2. r # None /\ r \in Requests
  BY DEF Serve, TypeOK
<1>3. ASSUME NEW q \in Requests, slot' = [slot EXCEPT ![t][s] = q],
             q.kind = r.kind,
             r.kind # "signin" => q.token = r.token,
             q.token # None => owner'[q.token] \in Users,
             q.answer = "401" => q.token \notin live',
             \A k \in Tokens : owner[k] \in Users =>
               owner'[k] = owner[k] /\ (k \in live' => k \in live)
      PROVE  Waits'
  <2>1. Fill(t, s, q)
    BY <1>3 DEF Fill
  <2>2. /\ slot'[t][s] = q
        /\ \A u \in Tabs, v \in Slots :
             u # t \/ v # s => slot'[u][v] = slot[u][v]
    BY <2>1, FillSlot
  <2>3. ASSUME NEW u \in Tabs, NEW v \in Slots, slot[u][v] # None
        PROVE  slot[u][v].token \in Tokens \cup {None}
    BY <2>3 DEF TypeOK, Requests
  <2> HIDE DEF r
  <2>4. TokensOwned'
    <3>1. ASSUME NEW u \in Tabs, NEW v \in Slots, slot'[u][v] # None,
                 slot'[u][v].token # None
          PROVE  owner'[slot'[u][v].token] \in Users
      BY <1>3, <2>2, <2>3, <3>1 DEF Waits, TokensOwned
    <3> QED
      BY <1>1, <1>3, <3>1 DEF Waits, TokensOwned, TypeOK
  <2>5. Rejected'
    <3>1. ASSUME NEW u \in Tabs, NEW v \in Slots, slot'[u][v] # None,
                 slot'[u][v].answer = "401"
          PROVE  slot'[u][v].token \notin live'
      <4>1. CASE u = t /\ v = s
        BY <1>3, <2>2, <3>1, <4>1
      <4>2. CASE u # t \/ v # s
        <5>1. slot'[u][v] = slot[u][v] /\ slot[u][v] # None
          BY <2>2, <3>1, <4>2
        <5>2. slot[u][v].token \notin live
          BY <3>1, <5>1 DEF Waits, Rejected
        <5>3. CASE slot[u][v].token = None
          <6>1. live' \subseteq Tokens
            BY ServerKeepsInv DEF TypeOK
          <6> QED
            BY <5>1, <5>3, <6>1
        <5>4. CASE slot[u][v].token # None
          BY <1>3, <2>3, <5>1, <5>2, <5>4 DEF Waits, TokensOwned
        <5> QED
          BY <5>3, <5>4
      <4> QED
        BY <4>1, <4>2
    <3> QED
      BY <3>1 DEF Rejected
  <2>6. PatientWaits'
    BY <1>1, <1>2, <1>3, <2>2 DEF Waits, PatientWaits, OfSession, r
  <2> QED
    BY <2>4, <2>5, <2>6 DEF Waits
<1>4. CASE /\ r.kind # "signin"
           /\ Answer(t, s, IF r.token \in live THEN "ok" ELSE "401")
           /\ UNCHANGED server
  <2> DEFINE a == IF r.token \in live THEN "ok" ELSE "401"
             q == [r EXCEPT !.answer = a]
  <2>1. slot' = [slot EXCEPT ![t][s] = q]
    BY <1>4 DEF Answer, TypeOK
  <2>2. /\ q \in Requests /\ q.kind = r.kind /\ q.token = r.token
        /\ q.answer = a
    BY <1>2, <1>4 DEF Requests, Kinds
  <2>3. a = "401" => r.token \notin live
    OBVIOUS
  <2>4. r.token # None => owner[r.token] \in Users
    BY <1>2 DEF Waits, TokensOwned
  <2> HIDE DEF r, a, q
  <2> QED
    BY <1>3, <1>4, <2>1, <2>2, <2>3, <2>4 DEF server
<1>5. ASSUME r.kind = "signin", NEW k \in Tokens, owner[k] = None,
             owner' = [owner EXCEPT ![k] = r.user], live' = live \cup {k},
             slot' = [slot EXCEPT ![t][s].answer = "ok", ![t][s].token = k]
      PROVE  Waits'
  <2> DEFINE q == [r EXCEPT !.answer = "ok", !.token = k]
  <2>1. slot' = [slot EXCEPT ![t][s] = q]
    BY <1>5 DEF TypeOK
  <2>2. /\ q \in Requests /\ q.kind = r.kind /\ q.token = k /\ q.answer = "ok"
        /\ r.user \in Users
    BY <1>2, <1>5 DEF Requests, Kinds
  <2>3. owner'[k] \in Users
    BY <1>5, <2>2 DEF TypeOK
  <2>4. \A j \in Tokens : owner[j] \in Users =>
          owner'[j] = owner[j] /\ (j \in live' => j \in live)
    BY <1>5 DEF TypeOK
  <2> HIDE DEF r, q
  <2> QED
    BY <1>3, <1>5, <2>1, <2>2, <2>3, <2>4
<1> QED
  BY <1>4, <1>5 DEF Serve

\* A handler of one tab, from a click or an answer to its next await.
LEMMA HandlerWaits ==
  ASSUME Inv, Waits, NEW t \in Tabs, NEW s \in Slots,
         \/ SignIn(t, s) \/ Load(t, s) \/ Ask(t, s)
         \/ SignedIn(t, s) \/ Loaded(t, s) \/ Exported(t, s) \/ RouteError(t, s)
         \/ Reloading(t, s) \/ ActionError(t, s) \/ AddError(t, s)
  PROVE  Waits'
<1> USE PageAssumption DEF Inv
<1>1. UNCHANGED server
  BY DEF SignIn, Load, Ask, SignedIn, Loaded, Exported, RouteError, Reloading,
         ActionError, AddError
<1>2. /\ stored # None => owner[stored] \in Users
      /\ \A u \in Tabs : current[u] # None => owner[current[u]] \in Users
  BY DEF Waits, TokensOwned
<1>3. Click(t) => (t \in Patient => \A v \in Slots : slot[t][v] = None)
  BY DEF Click
<1>4. slot[t][s] # None => (t \in Patient => \A v \in Slots \ {s} : slot[t][v] = None)
  BY DEF Waits, PatientWaits
<1>5. ASSUME KeepSession, NEW kind \in Kinds, Send(t, s, kind),
             t \in Patient => \A v \in Slots \ {s} : slot[t][v] = None
      PROVE  Waits'
  <2> DEFINE r == [kind |-> kind, token |-> current[t], answer |-> None]
  <2>1. UNCHANGED <<stored, current>>
    BY <1>5 DEF KeepSession
  <2>2. r \in Requests /\ Fill(t, s, r)
    BY <1>5, <2>1 DEF Send, TypeOK, Requests
  <2>3. r.kind # "signin" /\ r.token = current[t] /\ r.answer = None
    BY DEF Kinds
  <2> HIDE DEF r
  <2>4. OfSession(r, current'[t])
    BY <2>1, <2>3 DEF OfSession
  <2> QED
    BY <1>1, <1>2, <1>5, <2>1, <2>2, <2>3, <2>4, FillWaits
<1>6. CASE SignIn(t, s)
  <2>1. PICK u \in Users :
          Fill(t, s, [kind |-> "signin", user |-> u, token |-> None, answer |-> None])
    BY <1>6 DEF SignIn
  <2> DEFINE r == [kind |-> "signin", user |-> u, token |-> None, answer |-> None]
  <2>2. r \in Requests /\ Fill(t, s, r)
    BY <2>1 DEF Requests
  <2>3. UNCHANGED <<stored, current>> /\ current[t] = None /\ Click(t)
    BY <1>6 DEF SignIn
  <2>4. r.kind = "signin" /\ r.token = None /\ r.answer = None
    OBVIOUS
  <2> HIDE DEF r
  <2>5. OfSession(r, current'[t])
    BY <2>3, <2>4 DEF OfSession
  <2> QED
    BY <1>1, <1>2, <1>3, <2>2, <2>3, <2>4, <2>5, FillWaits
<1>7. CASE Load(t, s)
  <2>1. CASE UNCHANGED slot
    BY <1>1, <1>7, <2>1
    DEF Load, KeepSession, server, Waits, TokensOwned, Rejected, PatientWaits,
        OfSession
  <2>2. ASSUME NEW kind \in Kinds, Send(t, s, kind) PROVE Waits'
    BY <1>3, <1>5, <1>7, <2>2 DEF Load
  <2> QED
    BY <1>7, <2>1, <2>2 DEF Load, Kinds
<1>8. CASE Ask(t, s)
  <2>1. \E kind \in Kinds : Send(t, s, kind)
    BY <1>8 DEF Ask, Kinds
  <2> QED
    BY <1>3, <1>5, <1>8, <2>1 DEF Ask
<1>9. CASE Reloading(t, s)
  <2>1. KeepSession /\ slot[t][s] # None /\ \E kind \in Kinds : Send(t, s, kind)
    BY <1>9 DEF Reloading, Arrived, Kinds
  <2> QED
    BY <1>4, <1>5, <2>1
<1>10. CASE \/ SignedIn(t, s) \/ Loaded(t, s) \/ Exported(t, s)
            \/ RouteError(t, s) \/ ActionError(t, s) \/ AddError(t, s)
  <2>1. Fill(t, s, None) /\ slot[t][s] # None
    BY <1>10 DEF SignedIn, Loaded, Exported, RouteError, ActionError, AddError,
                 Arrived, Failed
  <2>2. \/ ClearSession(t) \/ KeepSession
        \/ SaveSession(t, slot[t][s].token) /\ owner[slot[t][s].token] \in Users
    BY <1>10 DEF SignedIn, Loaded, Exported, RouteError, ActionError, AddError,
                 Arrived, Failed, Granted
  <2>3. /\ stored' # None => owner[stored'] \in Users
        /\ current'[t] # None => owner[current'[t]] \in Users
        /\ \A u \in Tabs \ {t} : current'[u] = current[u]
    BY <1>2, <2>2 DEF ClearSession, KeepSession, SaveSession, TypeOK
  <2> QED
    BY <1>1, <1>4, <2>1, <2>3, FillWaits
<1> QED
  BY <1>6, <1>7, <1>8, <1>9, <1>10

LEMMA WaitsNext == Inv /\ Waits /\ [Next]_vars => Waits'
<1> SUFFICES ASSUME Inv, Waits, [Next]_vars PROVE Waits'
  OBVIOUS
<1> USE PageAssumption
    DEF Inv, TypeOK, Waits, TokensOwned, Rejected, PatientWaits, OfSession
<1>1. ASSUME NEW t \in Tabs, SignOut(t) PROVE Waits'
  BY <1>1 DEF SignOut, Click, ClearSession, server
<1>2. ASSUME NEW t \in Tabs, Reload(t) PROVE Waits'
  BY <1>2 DEF Reload, server
<1>3. CASE Expire
  BY <1>3 DEF Expire
<1>4. CASE UNCHANGED vars
  BY <1>4 DEF vars, server
<1> USE DEF Next
<1> QED
  BY <1>1, <1>2, <1>3, <1>4, HandlerWaits, ServerWaits

LEMMA SpecWaits == Spec => []Waits
<1>1. Init => Waits
  BY PageAssumption
  DEF Init, Waits, TokensOwned, Rejected, PatientWaits
<1> QED
  BY <1>1, WaitsNext, SpecInv, PTL DEF Spec

-----------------------------------------------------------------------------
(* The theorems                                                            *)

\* Whatever the user clicks and however answers arrive, the page's state is
\* of its type.
THEOREM PageTypeCorrect == Spec => []TypeOK
<1>1. Inv => TypeOK
  BY DEF Inv
<1> QED
  BY <1>1, SpecInv, PTL

\* renderCollection, renderResults and the others never leave both sections
\* of a tab on the screen (script.js:543-614).
THEOREM ShowsOneSection == Spec => []OneSection
<1>1. Inv => OneSection
  BY DEF Inv
<1> QED
  BY <1>1, SpecInv, PTL

\* syncAuthState takes the request to log in off the screen of every tab
\* that gets a session (script.js:146-160).
THEOREM AsksOnlyWhenSignedOut == Spec => []AsksWhenSignedOut
<1>1. Inv => AsksWhenSignedOut
  BY DEF Inv
<1> QED
  BY <1>1, SpecInv, PTL

\* In a lone tab the token in memory and the one in localStorage change
\* together (script.js:138-144 and 199-208): a reload is no sign-in and no
\* sign-out.
THEOREM LoneTabReloads ==
  ASSUME NEW b, Tabs = {b}
  PROVE  Spec => []ReloadKeepsSession
<1> DEFINE Same == TypeOK /\ ReloadKeepsSession
<1>1. Init => Same
  BY InvInit DEF Init, Inv, ReloadKeepsSession
<1>2. ASSUME Inv, ReloadKeepsSession, [Next]_vars PROVE ReloadKeepsSession'
  <2>1. b \in Tabs /\ current \in [Tabs -> Tokens \cup {None}] /\ current[b] = stored
    BY <1>2 DEF Inv, TypeOK, ReloadKeepsSession
  <2>2. ASSUME current' = [current EXCEPT ![b] = stored']
        PROVE  ReloadKeepsSession'
    BY <2>1, <2>2 DEF ReloadKeepsSession
  <2>3. CASE UNCHANGED <<stored, current>>
    BY <1>2, <2>3 DEF ReloadKeepsSession
  <2>4. ASSUME NEW t \in Tabs, SignOut(t) \/ Reload(t)
        PROVE  current' = [current EXCEPT ![b] = stored']
    BY <2>4 DEF SignOut, Reload, ClearSession
  <2>5. ASSUME NEW t \in Tabs, NEW s \in Slots,
               SignIn(t, s) \/ Load(t, s) \/ Ask(t, s) \/ Serve(t, s)
        PROVE  UNCHANGED <<stored, current>>
    BY <2>5 DEF SignIn, Load, Ask, Serve, KeepSession
  <2>6. ASSUME NEW t \in Tabs, NEW s \in Slots,
               \/ SignedIn(t, s) \/ Loaded(t, s) \/ Exported(t, s)
               \/ RouteError(t, s) \/ Reloading(t, s) \/ ActionError(t, s)
               \/ AddError(t, s)
        PROVE  \/ current' = [current EXCEPT ![b] = stored']
               \/ UNCHANGED <<stored, current>>
    BY <2>6 DEF SignedIn, Loaded, Exported, RouteError, Reloading,
                ActionError, AddError, SaveSession, ClearSession, KeepSession
  <2>7. Expire \/ UNCHANGED vars => UNCHANGED <<stored, current>>
    BY DEF Expire, vars
  <2> QED
    BY <1>2, <2>2, <2>3, <2>4, <2>5, <2>6, <2>7 DEF Next
<1> QED
  BY <1>1, <1>2, SpecInv, PTL DEF Spec

\* The session of a tab whose user waits for answers ends when its token is
\* over, or by its user, however other tabs sign in and out meanwhile
\* (script.js:103-111, 655-668).
THEOREM SessionsEndForCause == Spec => EndsForCause
<1>1. ASSUME Inv, Waits, [Next]_vars, NEW t \in Patient,
             current[t] # None, current'[t] = None
      PROVE  current[t] \notin live \/ SignOut(t) \/ Reload(t)
  <2> USE <1>1, PageAssumption DEF Inv, TypeOK
  <2>1. ASSUME NEW u \in Tabs, SignOut(u) \/ Reload(u) PROVE u = t
    BY <2>1 DEF SignOut, Reload, ClearSession
  <2>2. ASSUME NEW u \in Tabs, NEW s \in Slots, RouteError(u, s) \/ ActionError(u, s)
        PROVE  current[t] \notin live
    <3>1. /\ u = t
          /\ slot[t][s] # None /\ slot[t][s].answer = "401"
          /\ slot[t][s].kind # "signin"
      BY <2>2 DEF RouteError, ActionError, KeepSession, ClearSession, Arrived,
         Failed
    <3> QED
      BY <3>1 DEF Waits, PatientWaits, OfSession, Rejected
  <2>3. ASSUME NEW u \in Tabs, NEW s \in Slots, SignedIn(u, s) PROVE FALSE
    <3>1. \/ KeepSession
          \/ current' = [current EXCEPT ![u] = slot[u][s].token]
             /\ slot[u][s].token \in Tokens
      BY <2>3 DEF SignedIn, SaveSession, Arrived, Granted
    <3> QED
      BY <3>1 DEF KeepSession
  <2>4. ASSUME NEW u \in Tabs, NEW s \in Slots,
               \/ SignIn(u, s) \/ Load(u, s) \/ Ask(u, s) \/ Serve(u, s)
               \/ Loaded(u, s) \/ Exported(u, s) \/ Reloading(u, s)
               \/ AddError(u, s)
        PROVE  FALSE
    BY <2>4 DEF SignIn, Load, Ask, Serve, Loaded, Exported, Reloading, AddError,
                KeepSession
  <2>5. ~Expire /\ ~UNCHANGED vars
    BY DEF Expire, vars
  <2> QED
    BY <2>1, <2>2, <2>3, <2>4, <2>5 DEF Next
<1>2. Inv /\ Waits /\ [Next]_vars =>
        [\A t \in Patient : current[t] # None /\ current'[t] = None =>
           current[t] \notin live \/ SignOut(t) \/ Reload(t)]_vars
  BY <1>1
<1> QED
  BY <1>2, SpecInv, SpecWaits, PTL DEF Spec, EndsForCause

\* A library that appears in the tab of a user who waits is theirs
\* (script.js:543-585, 616-644).
THEOREM AppearsToItsOwner == Spec => AppearsForPatient
<1>1. ASSUME Inv, Waits, [Next]_vars, NEW t \in Patient, NEW x \in Users,
             x \in {collection'[t], results'[t]} \ {collection[t], results[t]}
      PROVE  current'[t] # None /\ owner[current'[t]] = x
  <2> USE <1>1, PageAssumption DEF Inv
  <2>1. ASSUME NEW s \in Slots, Loaded(t, s)
        PROVE  current'[t] # None /\ owner[current'[t]] = x
    <3>1. /\ slot[t][s] # None /\ slot[t][s].kind # "signin"
          /\ slot[t][s].answer = "ok" /\ UNCHANGED current
      BY <2>1 DEF Loaded, Arrived, KeepSession
    <3>2. slot[t][s].token = current[t] /\ slot[t][s].token \in Tokens
      BY <3>1 DEF Waits, PatientWaits, OfSession, Granted
    <3>3. x = Whose(t, s)
      BY <2>1 DEF Loaded, Rendered, Show, TypeOK
    <3> QED
      BY <3>1, <3>2, <3>3 DEF Whose
  <2>2. ASSUME NEW u \in Tabs, u # t, NEW c, NEW r, Show(u, c, r) PROVE FALSE
    BY <2>2 DEF Show
  <2>3. ASSUME NEW c, NEW r, Show(t, c, r),
               c \in {collection[t], None}, r \in {results[t], "login", "error", None}
        PROVE  FALSE
    BY <2>3 DEF Show, TypeOK
  <2>4. ASSUME UNCHANGED views PROVE FALSE
    BY <2>4 DEF views
  <2>5. ASSUME NEW u \in Tabs, SignOut(u) \/ Reload(u) PROVE FALSE
    BY <2>2, <2>3, <2>5 DEF SignOut, Reload
  <2>6. ASSUME NEW u \in Tabs, NEW s \in Slots,
               \/ SignIn(u, s) \/ Load(u, s) \/ Ask(u, s) \/ Serve(u, s)
               \/ SignedIn(u, s) \/ Exported(u, s) \/ RouteError(u, s)
               \/ Reloading(u, s) \/ ActionError(u, s) \/ AddError(u, s)
        PROVE  FALSE
    <3>1. \/ UNCHANGED views \/ Show(u, None, "login") \/ Show(u, None, "error")
          \/ Show(u, collection[u], Synced(u))
      BY <2>6 DEF SignIn, Load, Ask, Serve, SignedIn, Exported, RouteError,
                  Reloading, ActionError, AddError, SaveSession, AsksLogin, views
    <3>2. Synced(u) \in {results[u], None}
      BY DEF Synced
    <3> QED
      BY <2>2, <2>3, <2>4, <3>1, <3>2
  <2>7. ASSUME NEW u \in Tabs, NEW s \in Slots, Loaded(u, s) PROVE u = t
    BY <2>2, <2>7 DEF Loaded, Rendered
  <2>8. CASE Expire \/ UNCHANGED vars
    BY <2>4, <2>8 DEF Expire, vars
  <2> QED
    BY <2>1, <2>5, <2>6, <2>7, <2>8 DEF Next
<1>2. ASSUME Inv, Waits, [Next]_vars
      PROVE  \A t \in Patient : AppearsOwn(t)
  BY <1>1, <1>2 DEF AppearsOwn
<1> QED
  BY <1>2, SpecInv, SpecWaits, PTL DEF Spec, AppearsForPatient
=============================================================================

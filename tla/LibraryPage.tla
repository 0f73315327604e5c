---------------------------- MODULE LibraryPage -----------------------------
(***************************************************************************)
(* The session and the library views of script.js, in browser tabs that    *)
(* share a localStorage.  A handler runs up to its await, and goes on when *)
(* its answer arrives: meanwhile the buttons work, and other answers come. *)
(*                                                                         *)
(* The server that answers the library routes is external: it knows whose  *)
(* token a request carries, and rejects with 401 a token that is over.     *)
(***************************************************************************)
EXTENDS Integers, FiniteSets

CONSTANTS
  Tabs,
  Slots,          \* requests a tab may have outstanding
  Users,
  None,
  MaxSessions,    \* bound of the model: tokens the server hands out
  MaxOutstanding, \* bound of the model: requests outstanding in all the tabs
  Patient         \* tabs whose user clicks nothing while a request is outstanding

Tokens == 1..MaxSessions

\* What a request is for: a tile or tab that shows a collection, a list in
\* the results section (everything, or a search), the file of an export, an
\* edit, removal or progress, an added entry, and the reloads after those.
Kinds == {"collection", "results", "export", "act", "add", "actreload",
          "addreload"}

Requests ==
  [kind : Kinds, token : Tokens \cup {None}, answer : {None, "ok", "401"}]
  \cup
  [kind : {"signin"}, user : Users, token : Tokens \cup {None},
   answer : {None, "ok"}]

ASSUME PageAssumption ==
  /\ MaxSessions \in Nat /\ MaxOutstanding \in Nat
  /\ Patient \subseteq Tabs
  /\ None \notin Users \cup Tokens \cup Requests
  /\ None \notin {"login", "error", "ok", "401"}
  /\ Users \cap {"login", "error"} = {}

VARIABLES
  owner,       \* [Tokens -> the user the server gave the token to, or None]
  live,        \* the tokens the server accepts
  stored,      \* the token in localStorage, or None
  current,     \* [Tabs -> currentAuthToken, or None]
  collection,  \* [Tabs -> whose books the collection view shows, or None]
  results,     \* [Tabs -> what the results section shows, or None]
  slot         \* [Tabs -> [Slots -> an outstanding request, or None]]

server == <<owner, live>>
views  == <<collection, results>>
vars   == <<server, stored, current, views, slot>>

TypeOK ==
  /\ owner \in [Tokens -> Users \cup {None}]
  /\ live \subseteq {k \in Tokens : owner[k] # None}
  /\ stored \in Tokens \cup {None}
  /\ current \in [Tabs -> Tokens \cup {None}]
  /\ collection \in [Tabs -> Users \cup {None}]
  /\ results \in [Tabs -> Users \cup {"login", "error", None}]
  /\ slot \in [Tabs -> [Slots -> Requests \cup {None}]]

Init ==
  /\ owner = [k \in Tokens |-> None]
  /\ live = {}
  /\ stored = None
  /\ current = [t \in Tabs |-> None]
  /\ collection = [t \in Tabs |-> None]
  /\ results = [t \in Tabs |-> None]
  /\ slot = [t \in Tabs |-> [s \in Slots |-> None]]

-----------------------------------------------------------------------------
Fill(t, s, request) == slot' = [slot EXCEPT ![t][s] = request]

Outstanding == {p \in Tabs \X Slots : slot[p[1]][p[2]] # None}

Click(t) == t \in Patient => \A s \in Slots : slot[t][s] = None

\* Another request may be sent from the tab: the page itself sets no limit.
Free(t, s) == slot[t][s] = None /\ Cardinality(Outstanding) < MaxOutstanding

\* A request carries the token the tab has in memory when it is sent.
SendStored(t, s, kind) ==
  Fill(t, s, [kind |-> kind, token |-> stored', answer |-> None])
Send(t, s, kind) ==
  Fill(t, s, [kind |-> kind, token |-> current'[t], answer |-> None])

Show(t, inCollection, inResults) ==
  /\ collection' = [collection EXCEPT ![t] = inCollection]
  /\ results' = [results EXCEPT ![t] = inResults]

\* renderLoginRequired, in the results section.
AsksLogin(t) == Show(t, None, "login")

\* What syncAuthState does to the results once the tab has a token or none.
SyncedForgetful(t) == results[t]
Synced(t) ==
  IF current'[t] # None /\ results[t] = "login" THEN None ELSE results[t]

SaveSession(t, k) ==
  /\ stored' = k
  /\ current' = [current EXCEPT ![t] = k]
  /\ Show(t, collection[t], Synced(t))

ClearSession(t) ==
  /\ stored' = None
  /\ current' = [current EXCEPT ![t] = None]

KeepSession == UNCHANGED <<stored, current>>

-----------------------------------------------------------------------------
(* Clicks                                                                  *)

SignIn(t, s) ==
  /\ Click(t)
  /\ current[t] = None
  /\ Free(t, s)
  /\ \E u \in Users :
       Fill(t, s, [kind |-> "signin", user |-> u, token |-> None, answer |-> None])
  /\ UNCHANGED <<server, stored, current, views>>

SignOut(t) ==
  /\ Click(t)
  /\ current[t] # None
  /\ ClearSession(t)
  /\ Show(t, None, None)
  /\ UNCHANGED <<server, slot>>

\* loadRoute: without a token it asks to log in at once.
Load(t, s) ==
  /\ Click(t)
  /\ KeepSession
  /\ IF current[t] = None THEN AsksLogin(t) /\ UNCHANGED slot
     ELSE /\ Free(t, s)
          /\ \E kind \in {"collection", "results", "export"} : Send(t, s, kind)
          /\ UNCHANGED views
  /\ UNCHANGED server

\* A search, an edit or an addition is sent with a token or without.
Ask(t, s) ==
  /\ Click(t)
  /\ Free(t, s)
  /\ KeepSession
  /\ \E kind \in {"results", "act", "add"} : Send(t, s, kind)
  /\ UNCHANGED <<server, views>>

Reload(t) ==
  /\ current' = [current EXCEPT ![t] = stored]
  /\ Show(t, None, None)
  /\ slot' = [slot EXCEPT ![t] = [s \in Slots |-> None]]
  /\ UNCHANGED <<server, stored>>

-----------------------------------------------------------------------------
(* The server                                                              *)

Answer(t, s, answer) == slot' = [slot EXCEPT ![t][s].answer = answer]

\* Sign-ins give a new token.
Serve(t, s) ==
  /\ slot[t][s] # None
  /\ slot[t][s].answer = None
  /\ \/ /\ slot[t][s].kind # "signin"
        /\ Answer(t, s, IF slot[t][s].token \in live THEN "ok" ELSE "401")
        /\ UNCHANGED server
     \/ /\ slot[t][s].kind = "signin"
        /\ \E k \in Tokens :
             /\ owner[k] = None
             /\ \A j \in 1..(k - 1) : owner[j] # None
             /\ owner' = [owner EXCEPT ![k] = slot[t][s].user]
             /\ live' = live \cup {k}
             /\ slot' = [slot EXCEPT ![t][s].answer = "ok", ![t][s].token = k]
  /\ UNCHANGED <<stored, current, views>>

Expire ==
  /\ \E k \in live : live' = live \ {k}
  /\ UNCHANGED <<owner, stored, current, views, slot>>

-----------------------------------------------------------------------------
(* Answers                                                                 *)

Arrived(t, s, kinds, answer) ==
  /\ slot[t][s] # None
  /\ slot[t][s].kind \in kinds
  /\ slot[t][s].answer = answer

\* Anything may fail, or not get through, before it is served or after.
Failed(t, s, kinds) == slot[t][s] # None /\ slot[t][s].kind \in kinds

Whose(t, s) == owner[slot[t][s].token]

SignedIn(t, s) ==
  /\ \/ Arrived(t, s, {"signin"}, "ok") /\ SaveSession(t, slot[t][s].token)
     \/ /\ Failed(t, s, {"signin"})
        /\ KeepSession
        /\ Show(t, collection[t], Synced(t))
  /\ Fill(t, s, None)
  /\ UNCHANGED server

\* renderCollection and renderResults each hide the other's section.
RenderedBeside(t, s) ==
  IF slot[t][s].kind = "results" THEN Show(t, collection[t], Whose(t, s))
  ELSE Show(t, Whose(t, s), results[t])
Rendered(t, s) ==
  IF slot[t][s].kind = "results" THEN Show(t, None, Whose(t, s))
  ELSE Show(t, Whose(t, s), None)

Loaded(t, s) ==
  /\ Arrived(t, s, {"collection", "results", "actreload", "addreload"}, "ok")
  /\ Rendered(t, s)
  /\ KeepSession
  /\ Fill(t, s, None)
  /\ UNCHANGED server

Exported(t, s) ==
  /\ Arrived(t, s, {"export"}, "ok")
  /\ KeepSession
  /\ Fill(t, s, None)
  /\ UNCHANGED <<server, views>>

\* handleRouteError: a 401 ends the session and asks to log in.
RouteError(t, s) ==
  /\ \/ /\ Arrived(t, s, {"collection", "results", "export"}, "401")
        /\ ClearSession(t)
        /\ AsksLogin(t)
     \/ /\ Failed(t, s, {"collection", "results", "export"})
        /\ KeepSession
        /\ Show(t, None, "error")
  /\ Fill(t, s, None)
  /\ UNCHANGED server

\* After a success the books are loaded again, with the token of by then.
Reloading(t, s) ==
  /\ Arrived(t, s, {"act", "add"}, "ok")
  /\ KeepSession
  /\ Send(t, s, IF slot[t][s].kind = "act" THEN "actreload" ELSE "addreload")
  /\ UNCHANGED <<server, views>>

\* reportActionError: a 401 ends the session, and the views stay.
ActionErrorAny(t, s) ==
  /\ \/ Arrived(t, s, {"act", "actreload"}, "401") /\ ClearSession(t)
     \/ Failed(t, s, {"act", "actreload"}) /\ ClearSession(t)
  /\ Fill(t, s, None)
  /\ UNCHANGED <<server, views>>
ActionError(t, s) ==
  /\ \/ Arrived(t, s, {"act", "actreload"}, "401") /\ ClearSession(t)
     \/ Failed(t, s, {"act", "actreload"}) /\ KeepSession
  /\ Fill(t, s, None)
  /\ UNCHANGED <<server, views>>

\* The form only shows the error.
AddError(t, s) ==
  /\ \/ Arrived(t, s, {"add", "addreload"}, "401")
     \/ Failed(t, s, {"add", "addreload"})
  /\ KeepSession
  /\ Fill(t, s, None)
  /\ UNCHANGED <<server, views>>

Next ==
  \/ \E t \in Tabs : SignOut(t) \/ Reload(t)
  \/ \E t \in Tabs, s \in Slots :
       \/ SignIn(t, s)
       \/ Load(t, s)
       \/ Ask(t, s)
       \/ Serve(t, s)
       \/ SignedIn(t, s)
       \/ Loaded(t, s)
       \/ Exported(t, s)
       \/ RouteError(t, s)
       \/ Reloading(t, s)
       \/ ActionError(t, s)
       \/ AddError(t, s)
  \/ Expire

Spec == Init /\ [][Next]_vars

-----------------------------------------------------------------------------
(* Properties                                                              *)

\* A tab shows one of its two sections at most, in whatever order answers
\* arrive and sessions begin and end.
OneSection == \A t \in Tabs : collection[t] = None \/ results[t] = None

\* No tab with a session asks to log in: not even when the session came
\* while another request of the tab was rejected.
AsksWhenSignedOut ==
  \A t \in Tabs : results[t] = "login" => current[t] = None

\* In a lone tab, a reload neither brings back a session that ended nor
\* loses one: the token in memory is the stored one after every handler.
ReloadKeepsSession == \A t \in Tabs : current[t] = stored

\* script.js:103: the session of a patient tab ends because it is no longer
\* valid, or because the user ends it or reloads the page: not by an answer
\* to a request of an earlier session, whatever other tabs do meanwhile.
EndsForCause ==
  [][\A t \in Patient :
       current[t] # None /\ current'[t] = None =>
         current[t] \notin live \/ SignOut(t) \/ Reload(t)]_vars

\* A library that appears belongs to the user who is signed in.
AppearsOwn(t) ==
  \A u \in Users :
    u \in {collection'[t], results'[t]} \ {collection[t], results[t]} =>
      current'[t] # None /\ owner[current'[t]] = u

\* script.js:593: a library is private to its account.  Where the user waits
\* for each answer, no tab shows one to somebody else.
AppearsForPatient == [][\A t \in Patient : AppearsOwn(t)]_vars
=============================================================================

------------------------ MODULE AngularClientProofs -------------------------
(***************************************************************************)
(* Proofs about AngularClient for any users, any number of sessions and of *)
(* outstanding loads.                                                      *)
(***************************************************************************)
EXTENDS AngularClient, TLAPS

Owned(k) == k \in Tokens /\ owner[k] \in Users

\* Every token about is one the server gave to somebody.
TokensOwned ==
  /\ stored # None => Owned(stored)
  /\ session # None => Owned(session)
  /\ auth # None /\ auth.kind = "session" /\ auth.answer = "ok" => Owned(auth.token)
  /\ \A s \in Slots : load[s] # None => Owned(load[s].token)

\* A load that was rejected carries a token that is over.
Rejected ==
  \A s \in Slots :
    load[s] # None /\ load[s].answer = "401" => load[s].token \notin live

\* One request of the form at a time, sent by a form that is still shown.
FormIsOut ==
  /\ busy = (auth # None)
  /\ auth # None => ~authenticated
  /\ auth # None /\ auth.kind \in {"session", "register"} => ~needsConfirmation
  /\ auth # None /\ auth.kind = "register" /\ ~rushed => email = auth.user

AuthIsSession == authenticated = (session # None)

\* Where the user waits, one load at most is out, and it is of the session.
PatientLoads ==
  ~rushed => \A s \in Slots : load[s] # None =>
    /\ loading
    /\ load[s].token = session
    /\ \A r \in Slots \ {s} : load[r] = None

Inv ==
  /\ TypeOK
  /\ TokensOwned
  /\ Rejected
  /\ FormIsOut
  /\ AuthIsSession
  /\ PatientLoads
  /\ OneForm
  /\ ConfirmsRegistered
  /\ BooksOfSession
  /\ TokenIsSession

USE ClientAssumption DEF Slots

-----------------------------------------------------------------------------
(* The invariant holds at first, and every step keeps it                   *)

LEMMA InvInit == Init => Inv
BY DEF Init, Inv, TypeOK, TokensOwned, Rejected, FormIsOut, AuthIsSession,
   PatientLoads, OneForm, ConfirmsRegistered, BooksOfSession, TokenIsSession

\* The form, without the answers.
LEMMA FormKeepsInv ==
  ASSUME Inv,
         \/ SelectMode \/ ToggleRegistering \/ Type
         \/ submitAuthentication \/ confirmCognitoAccount
  PROVE  Inv'
<1> USE DEF Inv, TypeOK, TokensOwned, Owned, Rejected, FormIsOut, AuthIsSession,
            PatientLoads, OneForm, ConfirmsRegistered, BooksOfSession,
            TokenIsSession, Acts, Rest, Out, server, form, fields, history
<1>1. CASE SelectMode
  BY <1>1 DEF SelectMode
<1>2. CASE ToggleRegistering
  BY <1>2 DEF ToggleRegistering
<1>3. CASE Type
  BY <1>3 DEF Type
<1>4. ASSUME NEW r \in AuthRequests, auth' = r, busy' = TRUE, r.answer = None,
             ~authenticated, ~busy,
             r.kind \in {"session", "register"} => ~needsConfirmation,
             r.kind = "register" => r.user = email,
             Rest, UNCHANGED <<form, authenticated, fields, history>>
      PROVE  Inv'
  <2>1. auth' # None
    BY <1>4 DEF AuthRequests
  <2> QED
    BY <1>4, <2>1
<1>5. CASE submitAuthentication
  <2> DEFINE u == [kind |-> "register", user |-> email, answer |-> None]
             v == [kind |-> "session", user |-> Named, token |-> None,
                   answer |-> None]
  <2>1. Named \in Users \cup {None}
    BY DEF Named
  <2>2. u \in AuthRequests /\ v \in AuthRequests
    BY <2>1 DEF AuthRequests
  <2>3. CASE Send(u)
    BY <1>4, <1>5, <2>2, <2>3 DEF submitAuthentication, Send
  <2>4. CASE Send(v)
    BY <1>4, <1>5, <2>2, <2>4 DEF submitAuthentication, Send
  <2> QED
    BY <1>5, <2>3, <2>4 DEF submitAuthentication
<1>6. CASE confirmCognitoAccount
  <2> DEFINE u == [kind |-> "confirm", user |-> email, answer |-> None]
  <2>1. u \in AuthRequests
    BY DEF AuthRequests
  <2> QED
    BY <1>4, <1>6, <2>1 DEF confirmCognitoAccount, Send
<1> QED
  BY <1>1, <1>2, <1>3, <1>5, <1>6

\* The answers to a form.
LEMMA AuthAnswersKeepInv == ASSUME Inv, AuthAnswered PROVE Inv'
<1> USE DEF Inv, TypeOK, TokensOwned, Owned, Rejected, FormIsOut, AuthIsSession,
            PatientLoads, OneForm, ConfirmsRegistered, BooksOfSession,
            TokenIsSession, Rest, server, form, fields, history, Answered
<1>1. CASE Registered
  <2>1. auth # None /\ auth.user \in Users \cup {None}
    BY <1>1 DEF Registered, AuthRequests
  <2>2. auth' = None /\ busy' = FALSE /\ UNCHANGED <<load, owner, live>>
    BY <1>1 DEF Registered
  <2>3. ~authenticated /\ (~rushed => auth.user = email)
    BY <1>1, <2>1 DEF Registered
  <2>4. TypeOK'
    BY <1>1, <2>1, <2>2 DEF Registered
  <2>5. TokensOwned' /\ Rejected' /\ PatientLoads'
    BY <1>1, <2>2 DEF Registered
  <2>6. FormIsOut' /\ AuthIsSession' /\ TokenIsSession' /\ BooksOfSession'
    BY <1>1, <2>2, <2>3 DEF Registered
  <2>7. OneForm' /\ ConfirmsRegistered'
    BY <1>1, <2>1, <2>3 DEF Registered
  <2> QED
    BY <2>4, <2>5, <2>6, <2>7
<1>2. CASE SignedIn
  <2> DEFINE r == [token |-> stored', answer |-> None]
  <2>1. PICK s \in Slots : load[s] = None /\ load' = [load EXCEPT ![s] = r]
    BY <1>2 DEF SignedIn, LoadBooks
  <2>2. Owned(auth.token) /\ stored' = auth.token /\ session' = auth.token
    BY <1>2 DEF SignedIn
  <2>3. r \in Loads /\ r # None
    BY <2>2 DEF Loads
  <2>4. load' \in [Slots -> Loads \cup {None}] /\ load'[s] = r
        /\ \A q \in Slots \ {s} : load'[q] = load[q]
    BY <2>1, <2>3
  <2>5. ~authenticated
    BY <1>2 DEF SignedIn
  <2>6. TypeOK'
    BY <1>2, <2>2, <2>4 DEF SignedIn, LoadBooks
  <2>7. TokensOwned' /\ Rejected'
    BY <1>2, <2>2, <2>4 DEF SignedIn, LoadBooks
  <2>8. FormIsOut' /\ AuthIsSession' /\ TokenIsSession'
    BY <1>2, <2>2 DEF SignedIn
  <2>9. OneForm' /\ ConfirmsRegistered'
    BY <1>2 DEF SignedIn
  <2>10. BooksOfSession'
    BY <1>2, <2>5 DEF SignedIn
  <2>11. PatientLoads'
    <3>1. ~rushed => \A q \in Slots : load[q] = None
      BY <2>5
    <3> QED
      BY <1>2, <2>2, <2>4, <3>1 DEF SignedIn, LoadBooks
  <2> QED
    BY <2>6, <2>7, <2>8, <2>9, <2>10, <2>11
<1>3. CASE Confirmed
  BY <1>3 DEF Confirmed
<1>4. CASE AuthFailed
  BY <1>4 DEF AuthFailed
<1> QED
  BY <1>1, <1>2, <1>3, <1>4 DEF AuthAnswered

\* Sign-outs, and the answers to a load.
LEMMA LoadAnswersKeepInv ==
  ASSUME Inv, ClickSignOut \/ \E s \in Slots : LoadAnswered(s)
  PROVE  Inv'
<1> USE DEF Inv, TypeOK, TokensOwned, Owned, Rejected, FormIsOut, AuthIsSession,
            PatientLoads, OneForm, ConfirmsRegistered, BooksOfSession,
            TokenIsSession, server, form, fields, history, Out
<1>1. CASE ClickSignOut
  BY <1>1 DEF ClickSignOut, signOut
<1>2. ASSUME NEW s \in Slots, BooksLoaded(s) PROVE Inv'
  <2>1. books' \in Users /\ (~rushed => books' = owner[session])
    BY <1>2 DEF BooksLoaded
  <2>2. load' \in [Slots -> Loads \cup {None}] /\ load'[s] = None
        /\ \A q \in Slots \ {s} : load'[q] = load[q]
    BY <1>2 DEF BooksLoaded
  <2>3. TypeOK'
    BY <1>2, <2>1, <2>2 DEF BooksLoaded
  <2>4. TokensOwned' /\ Rejected' /\ PatientLoads'
    BY <1>2, <2>2 DEF BooksLoaded
  <2>5. FormIsOut' /\ AuthIsSession' /\ OneForm' /\ ConfirmsRegistered'
        /\ TokenIsSession'
    BY <1>2 DEF BooksLoaded
  <2>6. BooksOfSession'
    BY <1>2, <2>1 DEF BooksLoaded
  <2> QED
    BY <2>3, <2>4, <2>5, <2>6
<1>3. ASSUME NEW s \in Slots, LoadFailed(s) PROVE Inv'
  BY <1>3 DEF LoadFailed, signOut
<1> QED
  BY <1>1, <1>2, <1>3 DEF LoadAnswered

\* The server, other tabs, and a reload.
LEMMA SurroundingsKeepInv ==
  ASSUME Inv,
         ServeAuth \/ (\E s \in Slots : ServeLoad(s)) \/ Expire \/ OtherTab
           \/ Reload
  PROVE  Inv'
<1> USE DEF Inv, TypeOK, TokensOwned, Owned, Rejected, FormIsOut, AuthIsSession,
            PatientLoads, OneForm, ConfirmsRegistered, BooksOfSession,
            TokenIsSession, server, form, fields, history
<1>1. CASE ServeAuth
  <2>0. auth \in AuthRequests
    BY <1>1 DEF ServeAuth, Unserved
  <2>1. ASSUME NEW a \in {"ok", "failed"}, auth' = [auth EXCEPT !.answer = a],
               auth.kind # "session" \/ a = "failed", UNCHANGED server
        PROVE  Inv'
    <3>1. /\ auth' \in AuthRequests /\ auth' # None
          /\ auth'.kind = auth.kind /\ auth'.user = auth.user
          /\ auth'.answer = a
      BY <2>0, <2>1 DEF AuthRequests
    <3> QED
      BY <1>1, <2>0, <2>1, <3>1 DEF ServeAuth
  <2>2. ASSUME NEW k \in Tokens, NewToken(auth.user, k), auth.user # None,
               auth.kind = "session",
               auth' = [auth EXCEPT !.answer = "ok", !.token = k]
        PROVE  Inv'
    <3>1. /\ auth' \in AuthRequests /\ auth' # None
          /\ auth'.kind = "session" /\ auth'.token = k /\ auth.user \in Users
      BY <2>0, <2>2 DEF AuthRequests
    <3>2. /\ owner' \in [Tokens -> Users \cup {None}]
          /\ owner'[k] \in Users
          /\ \A j \in Tokens : Owned(j) => j # k /\ owner'[j] = owner[j]
          /\ live' = live \cup {k}
      BY <2>2, <3>1 DEF NewToken
    <3>3. TypeOK'
      <4>1. live' \subseteq {j \in Tokens : owner'[j] # None}
        BY <3>2
      <4> QED
        BY <1>1, <3>1, <3>2, <4>1 DEF ServeAuth
    <3>4. TokensOwned' /\ Rejected'
      BY <1>1, <3>1, <3>2 DEF ServeAuth
    <3>5. FormIsOut' /\ AuthIsSession' /\ PatientLoads' /\ OneForm'
          /\ ConfirmsRegistered' /\ TokenIsSession'
      BY <1>1, <2>0, <2>2, <3>1 DEF ServeAuth
    <3>6. BooksOfSession'
      BY <1>1, <3>2 DEF ServeAuth
    <3> QED
      BY <3>3, <3>4, <3>5, <3>6
  <2> QED
    BY <1>1, <2>1, <2>2 DEF ServeAuth
<1>2. ASSUME NEW s \in Slots, ServeLoad(s) PROVE Inv'
  BY <1>2 DEF ServeLoad, Loads
<1>3. CASE Expire
  BY <1>3 DEF Expire
<1>4. CASE OtherTab
  BY <1>4 DEF OtherTab, NewToken
<1>5. CASE Reload
  <2>1. CASE stored = None
    <3>1. load' \in [Slots -> Loads \cup {None}]
          /\ \A q \in Slots : load'[q] = None
      BY <1>5, <2>1 DEF Reload
    <3> QED
      BY <1>5, <2>1, <3>1 DEF Reload, Fresh
  <2>2. CASE stored # None
    <3> DEFINE r == [token |-> stored, answer |-> None]
    <3>1. r \in Loads /\ r # None
      BY <2>2 DEF Loads
    <3>2. 1 \in Slots
      OBVIOUS
    <3>3. load' = [[s \in Slots |-> None] EXCEPT ![1] = r]
      BY <1>5, <2>2 DEF Reload
    <3>4. load' \in [Slots -> Loads \cup {None}] /\ load'[1] = r
          /\ \A q \in Slots \ {1} : load'[q] = None
      BY <3>1, <3>2, <3>3
    <3>5. TypeOK'
      <4>1. {registering', needsConfirmation', authenticated', busy', loading',
             rushed', foreign'} \subseteq BOOLEAN
        BY <1>5 DEF Reload, Fresh
      <4>2. UNCHANGED <<owner, live, stored>> /\ session' = stored /\ auth' = None
        BY <1>5 DEF Reload, Fresh
      <4>3. authMode' = "native" /\ username' = None /\ email' = None
            /\ registered' = None /\ books' = None
        BY <1>5 DEF Reload, Fresh
      <4> QED
        BY <3>4, <4>1, <4>2, <4>3
    <3>6. TokensOwned' /\ Rejected' /\ PatientLoads'
      <4>1. UNCHANGED <<owner, live, stored>> /\ session' = stored /\ auth' = None
            /\ loading' = TRUE
        BY <1>5, <2>2 DEF Reload, Fresh
      <4>2. \A q \in Slots : load'[q] # None => q = 1
        BY <3>4
      <4>3. r.token = stored /\ r.answer = None
        OBVIOUS
      <4>4. TokensOwned'
        BY <2>2, <3>4, <4>1, <4>2, <4>3
      <4>5. Rejected'
        BY <3>4, <4>2, <4>3
      <4>6. PatientLoads'
        BY <3>4, <4>1, <4>2, <4>3
      <4> QED
        BY <4>4, <4>5, <4>6
    <3>7. FormIsOut' /\ AuthIsSession' /\ OneForm' /\ ConfirmsRegistered'
          /\ BooksOfSession' /\ TokenIsSession'
      BY <1>5, <2>2 DEF Reload, Fresh
    <3> QED
      BY <3>5, <3>6, <3>7
  <2> QED
    BY <2>1, <2>2
<1> QED
  BY <1>1, <1>2, <1>3, <1>4, <1>5

LEMMA InvNext == Inv /\ [Next]_vars => Inv'
<1> SUFFICES ASSUME Inv, [Next]_vars PROVE Inv'
  OBVIOUS
<1>1. CASE UNCHANGED vars
  BY <1>1
  DEF vars, server, form, fields, history, Inv, TypeOK, TokensOwned, Owned,
      Rejected, FormIsOut, AuthIsSession, PatientLoads, OneForm,
      ConfirmsRegistered, BooksOfSession, TokenIsSession
<1> QED
  BY <1>1, FormKeepsInv, AuthAnswersKeepInv, LoadAnswersKeepInv,
     SurroundingsKeepInv
  DEF Next

LEMMA SpecInv == Spec => []Inv
BY InvInit, InvNext, PTL DEF Spec

-----------------------------------------------------------------------------
(* The theorems                                                            *)

\* The component keeps its type; in particular every load carries a token.
THEOREM ClientTypeCorrect == Spec => []TypeOK
<1>1. Inv => TypeOK
  BY DEF Inv
<1> QED
  BY <1>1, SpecInv, PTL

\* The confirmation form is shown only while its user registers with
\* Cognito, whatever is clicked while answers are out
\* (app.component.ts:57-61, app.component.html:8).
THEOREM OnlyOneForm == Spec => []OneForm
<1>1. Inv => OneForm
  BY DEF Inv
<1> QED
  BY <1>1, SpecInv, PTL

\* A user who waits is asked for the code of the address they registered
\* (app.component.html:51).
THEOREM ConfirmsWhoRegistered == Spec => []ConfirmsRegistered
<1>1. Inv => ConfirmsRegistered
  BY DEF Inv
<1> QED
  BY <1>1, SpecInv, PTL

\* A user who waits sees books of their own session, and none without one
\* (app.component.ts:103-110).
THEOREM BooksAreOfSession == Spec => []BooksOfSession
<1>1. Inv => BooksOfSession
  BY DEF Inv
<1> QED
  BY <1>1, SpecInv, PTL

\* Unless another tab writes it, the stored token is that of the session
\* (app.component.ts:95-101).
THEOREM StoredTokenIsSession == Spec => []TokenIsSession
<1>1. Inv => TokenIsSession
  BY DEF Inv
<1> QED
  BY <1>1, SpecInv, PTL

\* The session of a user who waits ends for no other cause than its token
\* being over (app.component.ts:111-117), or their own click.
THEOREM SessionsEndForCause == Spec => SessionEndsForCause
<1> DEFINE Step ==
      authenticated /\ ~authenticated' /\ ~rushed =>
        session \notin live \/ ClickSignOut \/ Reload
<1>1. Inv /\ [Next]_vars => [Step]_vars
  <2> SUFFICES ASSUME Inv, Next, authenticated, ~authenticated', ~rushed,
                      ~ClickSignOut, ~Reload
               PROVE  session \notin live
    OBVIOUS
  <2>1. PICK s \in Slots : LoadFailed(s) /\ load[s].answer = "401"
    BY DEF Next, SelectMode, ToggleRegistering, Type, submitAuthentication,
       confirmCognitoAccount, Send, AuthAnswered, Registered, SignedIn,
       Confirmed, AuthFailed, LoadAnswered, BooksLoaded, LoadFailed, ServeLoad,
       ServeAuth, Expire, OtherTab
  <2> QED
    BY <2>1 DEF LoadFailed, Inv, Rejected, PatientLoads
<1> QED
  BY <1>1, SpecInv, PTL DEF Spec, SessionEndsForCause
=============================================================================

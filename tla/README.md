# Digital Library System: a TLA+ verification project

This directory specifies the Digital Library System in TLA+, model-checks it
with TLC and proves the safety properties the passing runs check with TLAPS.
It is meant to be read next to the source: every definition that stands for
code is listed, with its lines, under `map` in `PROJECT.json`.

Contents

1. The system
2. The modules and the code they stand for
3. Abstractions
4. What the runs check, with which bounds
5. Where code and documentation disagree
6. Fairness and liveness
7. What is proved
8. What is not modelled
9. Plan

## 1. The system

| component | code | state it keeps | operations |
|---|---|---|---|
| Local confirmation codes | `main.py` 42-48, 158-188 | `_LOCAL_CODES`, a dictionary in memory from lower-cased address to code, expiry and attempts | `issue_local_code`, `check_local_code` |
| Cognito routes | `main.py` 51-155, 229-347 | none of its own; the user pool of AWS Cognito or of the emulator (`cognito-local`) | `POST /auth/cognito/register`, `confirm`, `login` |
| Native registration | `main.py` 195-267 | the PostgreSQL table `users` | `POST /auth/register` |
| Sign-up and sign-in page | `script.js` 94-310 | a session in memory and in `localStorage`; the local variables of click handlers that await answers | sign up, confirm, log in, log out |
| Library page | `script.js` 103-208, 344-739 | the same session; two sections of the page | load, search, edit, remove, log progress, add, export |
| Catalogue import | `ingest_catalog.py`, `bulk_insert_books` in `digital-library-system.sql` 235-322, `import_books.sql` | books, dictionaries of names, and the links between them | ingest a CSV file; import a staging table |
| Catalogue schema | `digital-library-system.sql`, `user-schema.sql` | the tables, their constraints and triggers | |
| Emulator bootstrap | `init_cognito.py`, `docker-compose.yaml` 29-81, `main.py` 71-96 | the emulator's pools and app clients | find or create; discover |
| Angular client | `app.component.ts`, `app.component.html`, `service.ts` in `angular-library-user-interface/src/app/` | the fields of the component, the books it shows, a token in `localStorage` | sign up, confirm, sign in, sign out, load |
| The rest | `lambda_function.py`, `fix_schema_order.py`, `k8s/`, `terraform-aws/`, `package/` | | |

How they interact:

* The pages call the routes over HTTP and act on the status of the answer
  alone: 409 means "confirmed, go and log in", 400 to a confirmation means
  "try another code", 401 ends the session.
* FastAPI runs the Cognito routes, which are sync functions, on a pool of
  threads that share `_LOCAL_CODES` without a lock. `register_user` is an
  `async` function that never awaits: one process runs one at a time, and
  several processes meet in the database.
* With the emulator, a registration goes from `SignUp` to `issue_local_code`,
  and a confirmation from `check_local_code` to `AdminConfirmSignUp`: two
  stores, no transaction. Each request first asks the emulator for the current
  IDs of its pool and client.
* With AWS, Cognito mails and checks the codes, and the dictionary is unused.
* Imports from several sessions meet in the unique indexes of the catalogue.
* Browser tabs share `localStorage`, and each keeps a copy of the token. The
  Angular client uses the same routes and the same kind of storage, on another
  origin, and reads the token anew for each load.
* `docker compose up` runs `init_cognito.py` against the emulator before it
  starts the backend, which finds pool and client by name on each request, and
  advises in a 503 to run the script when it does not.

What is hard: threads between the accesses of `check_local_code`; calls to
Cognito that take effect although their answer is lost; restarts that lose the
codes and keep the accounts; data of the emulator that is recreated under a
running request; two processes between a SELECT and an INSERT; imports that
wait for each other; answers that reach a page in any order, after the
sessions they belong to; runs of a script that find nothing and create at the
same time, or die half way. The list, line by line, with the properties that
cover each item, is under `hazards` in `PROJECT.json`.

What makes each component correct:

* codes: a code is accepted once, compared with a bounded number of guesses,
  gone when it was accepted, and there until then;
* Cognito routes: what a status tells the page is true of the pool; an account
  is confirmed only by a code that was issued for its address; nothing uses
  stale IDs that it could have avoided; no code of AWS is ever shown;
* sign-up page: a user who follows its messages gets in; what was confirmed
  can sign in;
* native registration: unique users, answers that agree with the table, no
  user stored and not told but by a fault, every request answered;
* imports: unique books, complete links that line up, re-running is safe,
  every import ends;
* library page: one section, sessions that end for a cause, a library that
  appears only to its owner;
* bootstrap: no more pools than overlapping runs explain, repair by the next
  run, advice that leads to service while the emulator runs;
* Angular client: one form, that asks for the right code, and books of the
  session, for users who wait; no request that disables it for good.

## 2. The modules and the code they stand for

| module | stands for | composed from |
|---|---|---|
| `AtomicCodes` | the promise of the local codes: a table on which a check is one step | |
| `LocalCodes` | `_LOCAL_CODES` and the steps of `check_local_code` | refines `AtomicCodes` |
| `CognitoService` | the three routes, one action per call to Cognito | INSTANCE of `LocalCodes` |
| `SignupPage` | the Cognito handlers of `script.js` and their user | INSTANCE of `CognitoService` |
| `NativeRegister` | `register_user`, one action per statement | |
| `CatalogImport` | both import paths, one action per statement or row | |
| `LibraryPage` | session and sections of the page, in several tabs | |
| `CognitoBootstrap` | `init_cognito.py`, one action per call, and `discover_local_cognito` | |
| `AngularClient` | `AppComponent`, its template and its service, in one tab | |
| `LocalCodesProofs`, `NativeRegisterProofs`, `CatalogImportProofs`, `LibraryPageProofs`, `CognitoBootstrapProofs`, `AngularClientProofs` | the theorems | extend the module they are about |
| `CognitoServiceProofs`, `SignupPageProofs` | the theorems | extend the module they are about; INSTANCE of the proofs of the module it is composed from |
| `MC...` | constants for TLC | extend the module they instantiate |

**LocalCodes.** `store` is the dictionary, and its values are identities of
entries, because the code keeps a reference: `check_local_code` looks up once
(`Lookup`, line 178), judges the object it holds (`Judge`, 181), reads the
attempts (`Count`, 184), writes them and compares (`Try`, 184-185), and pops
by key (`Drop` and `Take`, 182 and 186), which removes whatever the key holds
by then. Each of these is one access to shared data, and other threads run
between any two, the read and the write of `+=` included: of two increments
one may be lost. `tried` is history, the guesses a code was really compared
with, which `attempts` then no longer counts. An interpreter may promise more
than the language does: where no thread is switched inside a `+=`, the
behaviours are some of these. `expires` and `attempts` are the fields of the
entry; `Restart` forgets the dictionary and the requests. `Issue` is one step:
the entry is complete before the single assignment that stores it.

**CognitoService.** `step[t]` is the call thread `t` makes next. `CognitoCall`
is the shape of all of them: a call may fail to get through, be refused, take
effect, or take effect and lose its answer (`requests` times out after 10
seconds, line 126); `OnError` is what the handlers make of an error, with the
`except` clauses of lines 281-304, 318 and 328, and `Http` the table of
`raise_http_from_cognito`. `account` is what the pool knows. `generation`
counts how often the emulator's data was recreated: IDs that a request read
before are stale. Checks of codes run `LocalCodes` step by step.

**SignupPage.** `at[p]` is where the handler of a click is. Between two awaits
nothing else of the page runs, because `prompt` and `alert` block it. The user
is part of the system: `advice` is what the last message told them to choose,
and they do it. A log-in refused with 403 sends them to "Sign up" (line 304);
one refused with 401 reminds them to confirm the code (301) and leaves them
where they are. They may mistype a code or close the prompt.

**NativeRegister.** `step[w]` is the next statement of process `w`;
`CheckTable` and `CreateTable` are the two halves of CREATE TABLE IF NOT
EXISTS, `Select`, `Insert` and `Commit` the statements after it, `Encode` the
answer. An insertion that clashes with an open transaction's row is not
enabled until that transaction is over. Every exception is a rollback and a
500, but the 400 of line 251; a lost commit may have happened or not. `told`
is history: the users whose 201 was delivered.

**CatalogImport.** A session of path `json` runs `ingest_catalog.py` and
`bulk_insert_books`, one of path `staging` runs `import_staging_books`.
`step[i]` is the table its statement inserts into, `left[i]` what that has
still to insert. The order of the statements differs (`StatementOrder`): the
function of the SQL schema fills all dictionaries and then links, the staging
function links each kind as soon as its names are in. An entry of a row is a
credit, with an author and a role, a genre or a media type. `Finds` says which
stored name a link statement finds for a name of an entry: CITEXT compared
with text compares as text.

**LibraryPage.** `slot[t][s]` is a request with the token it was sent with,
and its answer once there is one. A handler is a pair of actions, one up to
its `await` and one that goes on when the answer has arrived; the buttons work
in between. A request may fail before it is served, and after it, when its
answer is lost. `collection` and `results` are the two sections, and hold
whose library they show.

**CognitoBootstrap.** `step[r]` is the call run `r` makes next, and `found[r]`
its `user_pool_id`. The container `Mine` is the one of the developer, for whom
`docker compose` starts the backend when it has succeeded; other runs overlap
with it. `asker` follows a request of the developer through the two calls of
`discover_local_cognito`, and `"advised"` is the 503 that tells them to run
the script, which they do. The emulator lists pools in the order of their IDs,
drawn at random, and `Page(n)` is as much of the list as a call asks for: 10
pools for the script, 60 for `main.py`. `started` says whether the emulator's
container runs. It has no restart policy (`docker-compose.yaml:29-38`), so one
that stops (`Down`, `Recreate`) stays down until compose starts a container
that depends on it, the script's (lines 51-52), which the advised `docker
compose run` does too (`Start`). botocore sends a creation again whose answer
is lost, and nothing makes it idempotent: `CreatePool` may make a pool and
stay where it is.

**AngularClient.** One variable per field of the component. `auth` is the
outstanding request of the form, of which the disabled button allows one,
`load` the outstanding loads of books, of which there may be several. What a
callback decides, it decides by the fields of by then: `Registered` looks at
`registering` and `authMode`, which the user may have switched. `OtherTab`
writes the token of `localStorage`, and `Reload` is a new component. `rushed`
and `foreign` record that the user did not wait, or that another tab wrote the
token, since the page was loaded.

## 3. Abstractions

* The clock is monotone, and stops at a bound (`MaxNow`).
* Python runs one access to shared data at a time (the global interpreter
  lock); the steps of `LocalCodes` are those accesses.
* The 503 of AWS mode without IDs (`main.py:107-111`) is a request that fails
  before its first call, which `Discover` may do in either mode.
* The user pool, PostgreSQL and the server of the library routes are external,
  modelled by what the code observes of them. `main.py` of this commit serves
  no library routes, while the pages and the tests use them.
* The pool may keep usernames as they are written or folded to one case: both
  are instances of `Username`. The two calls of `discover_local_cognito` are
  one step of `CognitoService`, and two of `CognitoBootstrap`. Codes of AWS do
  not expire in the model; an expired one is refused like a wrong one, with
  the same status.
* A password is equal or not, and weak or not. Wording of messages is left out
  but for the button they send the user to.
* CREATE EXTENSION is part of the statement after it. Identity columns number
  the rows and are left out.
* In imports, a row is its two identifiers, its title and its entries; dates,
  publishers and languages identify nothing. A name is a spelling, with what
  trimming and case folding make of it; an author's first and last name are
  one. Malformed credits are left out: the script drops those of one part and
  keeps empty names and roles, the function drops those without two names and
  gives those without a role the role Author. Books that agree in all of these
  are one element of a set, so `UniqueBooks` also asks that no transaction
  holds a book that is stored or held by another.
* In `CognitoBootstrap`, pools are told apart by whether they have the name
  that is looked for and whether they have an app client. More than one client
  is as good as one: both programs take the first.
* In `AngularClient`, a user is named alike by address and username, so that a
  request names a user, or nobody; what the server keeps of accounts is left
  out, and it may refuse anything. `required` and `minlength` of the form are
  left out for the same reason.
* `/all` and `/export` send two requests at once and go on when both are
  answered, or the first is rejected: one request in the model.

## 4. What the runs check, with which bounds

Every property of a passing run has a mutant, a plausible bug in a definition
that stands for code, which the run reports. The type invariants of all
components are proved; `page` checks that of `SignupPage`, with those of
`CognitoService` and `LocalCodes` it contains, besides.

| run | asks | instance |
|---|---|---|
| `codes_two_threads` | `GuessesBounded`, `ConsumedIsGone`, `AcceptancesBounded` in every interleaving | 2 threads, 2 entries, 2 addresses of which one in two spellings, 2 attempts, 1 tick |
| `codes_in_turn` | `ImplementsAtomicCodes`, `AttemptsBounded`, `LiveCodeKept`, `AcceptedOnce` when requests for one address take turns | as the first |
| `codes_stale_pop` | `LiveCodeKept` without turns: violated | as the first |
| `cognito_local` | `ConflictMeansConfirmed` and `OkMeansConfirmed` (what a status says is so), `ConfirmedByOwnCode`, `StaleOnlyInFlight`, with the emulator | 2 threads, 2 entries, 1 attempt, 1 fault, exact usernames |
| `cognito_aws` | `OkMeansConfirmed`, `NoCodeOfAws`, with AWS | 2 threads, 2 faults, weak passwords, a challenged account |
| `cognito_aws_conflict` | `ConflictMeansConfirmed` with AWS: violated | 1 fault |
| `page` | `GetsIn`, `NeverUsedUp`, `ConfirmedSignsIn` | 1 page, 2 threads, 8 entries, 2 faults, 3 slips, 1 tick, 5 attempts, 3 prompts |
| `native_register` | `UniqueUsers`, `CreatedIsStored`, `UntoldCostsFault`, `EveryRequestAnswered` | 3 processes, 2 usernames, 2 addresses, 1 fault |
| `import_both_paths` | `UniqueBooks`, `LinksComplete`, `LinksLineUp`, `RerunAddsNothing`, `EveryImportEnds` | a session of each path, 7 files, 3 imports, 1 fault |
| `library` | `OneSection`, `AsksWhenSignedOut`, `EndsForCause`, `AppearsForPatient` | 2 tabs, one of them patient; 2 requests outstanding, in one tab or in both; 2 users, 2 tokens |
| `bootstrap` | `PoolsBounded`, `NoNeedlessPool`, `RerunHeals`, `AdviceServes` | 2 runs, 5 pool IDs, pages of 2 and 3 pools, 2 tries, 1 pool of another name, 2 faults |
| `angular` | `OneForm`, `ConfirmsRegistered`, `BooksOfSession`, `TokenIsSession`, `SessionEndsForCause`, `AnswersComeBack` | 1 tab, 2 users, 2 tokens, 2 loads outstanding |

Why the bounds are enough to be interesting. A race on a code needs two
threads, an old and a fresh entry, and an expiry: a lifetime of 0 and one tick
make every code expire at some point and live before it. Two attempts are the
least for which one is not the last; `page` has the real numbers, five
attempts and three prompts, and an entry for every sign-up its slips, faults
and tick can cause. The faults of `CognitoService` are spent where they hurt
most, because they may come at any call. Three processes are the least with
two waiting for a third. Two imports that fill genres and roles in opposite
orders are the least that deadlock, and a third repeats one of them; a book
has two credits, the least of which one could get the other's role. Two tokens
are the least for "an earlier session", and two requests for answers of one
tab in either order, or for a sign-in that comes while another request is
rejected; more of them at once, in one tab or in both, are left to the proofs,
which are for any number. `GuessesBounded` is exact in its instance: two
threads compare a code of two attempts with five guesses, and no more. In
`bootstrap`, two pools of the script's and one of another name do not fit on
the script's page, but on that of `main.py`; two faults are enough for a run
that dies half way and a loss after it. In `angular`, two loads are a late one
and that of the next session.

Bounds that are guards of the models: `MaxNow`, `Entries`, `MaxFaults`,
`MaxSlips`, `MaxImports`, `MaxSessions`, `Slots`, `MaxOutstanding`, `MaxIds`,
`MaxOthers`, `MaxLoads`. `MaxTries`, `InitPage` and `BackendPage` are numbers
of the code, smaller than there. Where a bound makes the system stop
(`SignupPage`, `CatalogImport`) the configuration switches the deadlock check
off: a page whose user is signed in has nothing to do, and neither have
sessions that have imported all they may.

Symmetry is declared in runs without liveness properties, for threads, slots
and users: not for tabs, of which one may be patient.

## 5. Where code and documentation disagree

Each violated run has one property, a statement of a comment or text of the
repository; the quotes are under `findings` in `PROJECT.json`.

* `codes_stale_pop`, `main.py:182`: a check of an old code removes the fresh
  one issued meanwhile.
* `cognito_aws_conflict`, `main.py:297`: 409 for an unconfirmed account, when
  AWS could not resend its code.

For each there is a passing run of what remains true: codes taken in turn, 409
with the emulator. Other disagreements were met while modelling. The models
behave as the code does; the properties are stated such that they keep clear
of them, and no run shows them:

* `main.py:281`: a second registration with another password is confirmed, and
  the account keeps the first one: `ConfirmedSignsIn` is about users with one
  password.
* `main.py:184`: the language lets another thread run inside `+=`, so a code
  may be compared with more guesses than `LOCAL_CODE_MAX_ATTEMPTS` (line 47)
  names. `GuessesBounded` says how many; `AttemptsBounded`, the limit itself,
  is about requests for one address in turn.
* `script.js:301`: when the emulator's data was recreated after a user was
  told to log in, the log-in is refused with 401, and its message, to make
  sure that the code is confirmed, does not lead back to "Sign up", as that of
  403 does (line 304): `GetsIn` excepts such users (`Stranded`).
* `main.py:95-96`: the 503 for an emulator that does not answer gives no
  advice, and nothing starts its container again: `AdviceServes` excepts an
  emulator that stays stopped (`Unadvised`).
* `main.py:249`: names and addresses are compared exactly; `test_main.py:239`
  expects names that differ in case to be refused.
* `digital-library-system.sql:309`: a genre the file spells in another case
  than the stored one is not linked; `import_books.sql:107`: names are stored
  untrimmed and looked up trimmed. `LinksComplete` is about names entered in
  the spelling that is looked up.
* `import_books.sql:62`: the title takes no part in what is matched, whereas
  the comment at lines 28-30 says "isbn/internal_code + title".
* `script.js:619`: a late answer shows the library again after the sign-out,
  whereas line 593 says "Your books and games are private to your account":
  `AppearsForPatient` is about tabs whose users wait.
* `script.js:663`: a late 401 ends a session that is valid: `EndsForCause` is
  about tabs whose users wait.
* `script.js:139`: a tab removes the token another tab stored:
  `ReloadKeepsSession` is about a lone tab.
* `script.js:106`: a session that ends by a rejected edit leaves its library
  on the screen: the properties are about libraries that appear.
* `app.component.ts:52`: a native sign-in sends the username left from a
  registration form that is no longer shown, not what the user typed under
  "Email or username" (`app.component.html:24`). `Named` models it; no
  property is about which user signs in.
* `app.component.ts:107` and `114`: books that arrive after a sign-out are
  kept for the next session, and a late 401 ends it: `BooksOfSession` and
  `SessionEndsForCause` are about users who wait.
* `init_cognito.py:34`: with ten pools of other names before its own, the
  script does not find the pool it made, and each run makes another one:
  `PagesAssumption` excludes it.

## 6. Fairness and liveness

* `SignupPage!FairSpec`: weak fairness of each thread's work (the pool runs
  what it has; a call to Cognito ends, by its timeout at the latest) and of
  each page: the browser runs handlers, and the user goes on until they are
  signed in. Slips, faults and the clock have none. `GetsIn` then says that no
  state of the pool, the dictionary and the page leads round in circles, with
  the one exception that section 5 names. It assumes a user who does not give
  up, which is the point: the advice itself must lead somewhere.
* `NativeRegister!FairSpec`: weak fairness of the statements of each process,
  which runs until it answers; a crash ends its transaction.
* `CatalogImport!FairSpec`: weak fairness of statements and of the deadlock
  detection, which PostgreSQL runs after `deadlock_timeout`.
* `CognitoBootstrap!FairSpec`: weak fairness of each run's next step (a call
  is answered or fails), of a started emulator, which comes to answer, and of
  the developer, who follows the advice and asks again. Nobody has to start an
  emulator that stopped: compose does so when the developer follows the
  advice. Other runs, faults and other pools have none, and faults are
  bounded: `AdviceServes` says that after the last of them the advice is
  enough, or else that the developer meets, for ever, a stopped emulator and
  the 503 that advises nothing.
* `AngularClient!FairSpec`: weak fairness of the server's answers (a browser
  reports a request that got none as failed) and of the callbacks. Clicks have
  none. `AnswersComeBack` leaves out behaviours in which the page is reloaded
  for ever.

Nothing is assumed about faults, clicks, expiry, or requests that come in.
Liveness is model-checked, not proved.

## 7. What is proved

Each safety invariant and action property of a passing run but
`GuessesBounded` is stated by a theorem. The theorems hold for every value of
the constants that satisfies the named assumptions of the module, which TLC
evaluates in the runs: finite sets of threads, processes and sessions, natural
bounds, a file that says finitely many things, a `None` that is no value. Some
have a hypothesis besides, which their statements show: one tab
(`LoneTabReloads`), the emulator (`LocalConflictIsConfirmed`), users with one
password (`ConfirmedIsLetIn`), one page per address (`PromptsAreEnough`), and
requests for one address in turn (`SpecInTurn`).

**LocalCodes** (`TypeCorrect`, `ConsumedStaysGone`, `AcceptancesAreBounded`).
Neither property is inductive. `Inv` adds `FiledUnderKey`, by which a pop of
the key does remove the entry that was accepted, and `AcceptancesReckoned`,
which counts the threads that may still accept. `GuessesBounded` is only
model-checked: its proof would have to say of every set of sleeping threads
how far their writes can set the count back. Cardinalities of sets of threads
change by one at each step, the lemmas at the head of the module.

With requests for one address in turn (`AttemptsAreBounded`,
`LiveCodesAreKept`, `AcceptedAtMostOnce`, `ImplementsTable`), `InTurnInv` adds
that no two checks under way are about one key, hence that an entry a check
holds past its lookup is the one its key holds, and that a check about to drop
an entry does so because time or attempts are up, which they stay. No
increment is lost then, and `EveryTryCounted` says that the attempts of an
entry are the guesses it was compared with. The refinement maps a key to what
its entry will be once each check that has decided is through: an entry about
to be dropped or taken is gone, an attempt about to be counted is counted.
`Lookup` is then the atomic check where it finds nothing, and `Judge`
everywhere else, in which the check decides; `Drop`, `Count`, `Try` and `Take`
are stutters. Each step is a lemma.

**CognitoService** (`ServiceTypeCorrect`, `RoutesUseTable`, `OkIsConfirmed`,
`LocalConflictIsConfirmed`, `StaleIsInFlight`, `AwsShowsNoCode`,
`OwnCodeConfirms`). The codes of the routes are an instance of `LocalCodes`,
and the proofs an instance of its proofs: `RoutesUseTable` says that the
routes issue and check codes only as `LocalCodes` allows, and with it `Inv` is
an invariant of the routes too. `ServiceInv` adds, thread by thread, that the
step goes with the route and the mode (`Routed`), that IDs are at least as new
as the request that uses them (`Dated`), that a check is about what the
request submitted, and one about to answer "true" holds an entry with the
address and the code of the request (`Checking`), and what a thread relies on
in the pool between two calls (`Known`): an answer 200 or 409 on its way is of
a confirmed account as long as the pool is the one it was read from. With AWS
the conflict of `Known` fails, which `cognito_aws_conflict` shows. What the
calls have in common, a lost answer, a refusal, an effect, is one lemma about
`CognitoCall`.

**SignupPage** (`SignupTypeCorrect`, `PagesUseRoutes`, `ConfirmedIsLetIn`,
`PromptsAreEnough`). The proofs are an instance of those of `CognitoService`:
`PagesUseRoutes` brings `ServiceInv` and the theorems about the routes over.
`PageInv` adds that the request a page waits for is the one it sent, with the
address and the password of the page (`Serves`), that no two pages wait for
one thread and no thread works for nobody, and that a page which signs in has
a password its user chose (`Chosen`). `ConfirmedIsLetIn` assumes `OnePassword`
and `Unchallenged`, that whoever signs up for an account chooses the same
password every time and that it asks for no more than that. `PasswordInv` then
says that the pool has this password whenever it has the account, whatever
sign-up, lost answer or other page put it there, and that a page which was
told so is right about the confirmation. `PromptsAreEnough` assumes `OnePage`,
one page per address; `Counted` relates the prompts of a page to the attempts
of the entry under its address, less the one whose code is still to be
compared. TLC evaluates the three hypotheses in `page` (`UsersAssumption`).

**NativeRegister** (`RegisterTypeCorrect`, `UsersAreUnique`,
`CreatedIsAlwaysStored`, `UntoldUsersCostFaults`). The stored rows alone are
not inductive: a commit adds a row that was compared long before. `RowsHeld`
says that an open row clashes with no stored one and `OpenApart` that it
clashes with no other open one. For `UntoldCostsFault`, a statement or an
answer adds nobody to the users that are stored and not told: the row a commit
stores is the one its process is about to tell, by `RowsHeld`. An error or a
crash adds at most the user of the request it hits.

**CatalogImport** (`BooksAreUnique`, `LinksAreOfTheirRow`,
`ImportTypeCorrect`, `EnteredNamesAreLinked`, `RerunsAddNothing`). `OpenApart`
is the same idea for transactions that hold many rows: each book has an
identifier (the CHECK), and no two held or stored books clash. What keeps it
is that an insertion waits while another transaction holds its keys, and looks
at what is committed after. `LineUp` says of the links an open transaction
holds what `LinksLineUp` says of those it commits, and that an idle session,
which may take another file, has none. `ImportInv` follows each transaction
through its statements (`Progress`): of the rows and names it has gone
through, the book, or one it clashes with, and the name, in some spelling, are
stored or its own (`BooksIn`, `NamesIn`), and of the link statements behind it
no link is missing that was due (`LinksIn`). The difficulty is a name that
another transaction commits late, after the link statement has looked for it
in vain. It cannot be a name the session entered in that spelling: in some
spelling the session saw it stored or inserted it itself, and `NamesApart`,
that no two names stored or held by open transactions are the same to the
index, leaves no room for another. `CommittedIn` says that what a committed
file says stays in, so that running it again inserts nothing and, without a
new book, links nothing.

**LibraryPage** (`PageTypeCorrect`, `ShowsOneSection`,
`AsksOnlyWhenSignedOut`, `LoneTabReloads`, `SessionsEndForCause`,
`AppearsToItsOwner`). `Granted`, that a granted answer carries a token with an
owner, makes what a tab shows somebody's library, and never the request to log
in. `LoneTabReloads` assumes a single tab, which its statement says: with two,
one tab may remove the token of the other. For the last two, `Waits` says that
a patient tab has one request out, which carries the token it has in memory
(`PatientWaits`), and that a token which was rejected is over (`Rejected`);
the latter needs that each token about was given to somebody (`TokensOwned`),
so that a new one is none of them. They hold for any number of tabs that are
not patient.

**CognitoBootstrap** (`BootstrapTypeCorrect`, `PoolsAreBounded`,
`NoPoolIsNeedless`, `ARerunHeals`). That pools are few is not inductive: a run
about to create one must be counted. `Inv` says of such a run that each pool
there is was made since it began, by a run that had begun as well or by a
creation sent twice, and counts those. `RerunHeals` needs that a run which
nothing came between has found the pool `main.py` will find, which is where
`PagesAssumption` is used: the first pool of the name is on both pages, or on
neither.

**AngularClient** (`ClientTypeCorrect`, `OnlyOneForm`,
`ConfirmsWhoRegistered`, `BooksAreOfSession`, `StoredTokenIsSession`,
`SessionsEndForCause`). `FormIsOut` says what an outstanding request of the
form tells about the form, by which a late answer finds no other form than the
one that sent it, or only one that was switched; `PatientLoads` that a user
who waits has one load out, of their own session; `Rejected` that a 401 is
always about a token that is over.

Only model-checked, because the prover has no rule for fairness and ENABLED:
`GetsIn`, `EveryRequestAnswered`, `EveryImportEnds`, `AdviceServes` and
`AnswersComeBack`.

## 8. What is not modelled

* Rows and credits of imports that the CSV parsers skip or mend as malformed.
* Triggers and the tables no code of this commit writes.
* `lambda_function.py`: it decodes a code and prints it (line 6 on), keeps no
  state, and no user pool of `terraform-aws/main.tf` calls it.
  `fix_schema_order.py` rewrites a file once.
* Deployment files, which were read for what may restart and how many
  processes run.
* Vendored packages: `src/package` and its kind hold nearly all lines of the
  repository. The program's own code is `main.py`, `ingest_catalog.py`,
  `init_cognito.py`, `script.js`, the Angular client and the SQL files, whose
  control the models cover.
* Formatting, validation of passwords and addresses in the page, the layout of
  exports.

## 9. Plan

Done, in this order: `LocalCodes` with `AtomicCodes`, `CognitoService`,
`SignupPage`, `NativeRegister`, `CatalogImport`, `LibraryPage`,
`CognitoBootstrap`, `AngularClient`, each with its runs; the proofs of all
eight, and of the refinement of `AtomicCodes`.

Left: theorems about `CognitoService` with requests for one address in turn,
for which those of `LocalCodes` about `SpecInTurn` could be taken over; what
the liveness properties rest on and is safety, such as that a page with a
request always has a thread that can take a step for it.

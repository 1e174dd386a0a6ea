# A formal model of the LFX v2 forwards service

The forwards service lets a Linux Foundation user route mail for an address of
a managed domain (`johndoe@linux.com`) to another address. Three kinds of
requests arrive over NATS; auth-service says which address is the caller's; the
routings themselves live at forwardemail.net. The service is stateless: what
makes it hard is that its handlers wait for the network several times, that
several replicas run them, and that a remote call that was given up may still
take effect. Around them, a process has to start and stop in order, follow the
rotation of signing keys, keep its time budget, and read what people type.

These TLA+ modules model the handlers and what surrounds them, TLC checks them on
small instances, and the TLA+ proof system proves every safety property and all
refinements for every instance.

## The system

| Component | State | Operations | Talks to |
|---|---|---|---|
| Request handlers, `internal/service/forward.go` | none (configuration only) | `HandleCheckAlias`, `HandleSetTarget`, `HandleGetForward` | verifier, auth-service client, forwardemail.net client |
| Subscriptions, `cmd/forwards-api/service/subscriptions.go` | three subscriptions, each a queue of pending messages and one goroutine | `StartSubscriptions`, one callback for each subject, `replyJSON`, `replyError` | NATS connection, handlers |
| forwardemail.net client, `internal/infrastructure/forwardemail` | none between calls; attempt, backoff and body reader within one | `GetAlias`, `AliasExists`, `CreateAlias`, `UpdateAlias`, all through `do` | forwardemail.net (HTTP) |
| auth-service client, `internal/infrastructure/authservice` | none | `GetAliasForDomain` | auth-service (NATS request) |
| Alias rules, `internal/domain/model/alias.go` | none | `ValidateAlias` | |
| NATS connection, `internal/infrastructure/nats` | connection, subscriptions | `New`, `Request`, `QueueSubscribe`, `Close`, `IsReady` | NATS server |
| JWT verifier, `internal/infrastructure/jwt` | cached key set | `NewConfigFromJWKS`, `Verify` | Auth0 (JWKS) |
| Lifecycle, `cmd/forwards-api/main.go`, `implementations.go` | the singletons, the stop functions | `run`, `InitInfrastructure`, `Shutdown` | all |
| Configuration, `config.go` | the environment | `AppConfigFromEnv` | |
| Observability, `internal/infrastructure/observability` | the providers, the shutdown functions | `SetupOTelSDK`, `samplerFromEnv`, `InitStructureLogConfig` | collector (OTLP) |

What is correct for each of them:

* Handlers: they act only on an alias the caller holds on the requested domain;
  a refusal means nothing was done and nothing will be; a success means it was;
  an entry keeps its creator; racing first writes end in one entry and a retry
  that updates it; a confirmed routing is not undone by an earlier request,
  except one whose failure was reported or whose replica ended; a read after a
  confirmed write sees it.
* Subscriptions: every message is handed to one process, served in its turn, and
  over once, or goes down with its process; none waits for ever behind another,
  and none longer than one time budget for each message before it.
* forwardemail.net client: a retry repeats nothing that was carried out and
  carries the whole body; every call ends; its result claims no more than is
  known.
* auth-service client and alias rules: the answer is a local part of one of the
  caller's addresses on that domain, in normal form; a spelling of a name is
  treated like the name.
* Verifier: whoever is let in holds a token Auth0 issued with a key that it had
  not withdrawn when the last successful fetch began; a good token with a key it
  still serves is accepted; every rotation is followed in the end;
  what the tests establish of `ParseVerified` holds of `Verify`, the parser in use,
  but for the demand of an expiration.
* Lifecycle: a process takes messages only while it can serve them; however far
  it came and whenever it is stopped, it leaves nothing behind and it ends.
* Configuration: a process that starts is usable, one that refuses says why, and
  a value that cannot be used is as good as none.

## Modules

| Module | Models | Extends |
|---|---|---|
| `AliasRules` | `resolveDomain`, `ValidateAlias`, `GetAliasForDomain` as operators | |
| `ForwardService` | the three handlers, the subscriptions, the replicas, auth-service, the store and the writes under way | `AliasRules` |
| `ForwardHistory` | history variables on top of it, and the properties that need them | `ForwardService` |
| `RoutingDirectory` | what callers are promised: a directory whose operations are indivisible | |
| `ForwardRefinement` | the mapping that shows `ForwardHistory` implements `RoutingDirectory` | `ForwardHistory` |
| `ForwardClaims` | two statements of the repository that the code does not keep | `ForwardService` |
| `FEClient` | `Client.do`: attempts, backoff, body, returns | |
| `RemoteCall` | what a handler may assume of one call; `FEClient` implements it | |
| `Lifecycle` | one process: `run`, `SetupOTelSDK`, `InitInfrastructure`, `StartSubscriptions`, `Shutdown`, the drain, the replies on their way | |
| `Delivery` | what the queue group promises of one message; `Lifecycle` implements it | |
| `ForwardDelivery` | the mapping that shows `ForwardService` implements it too | `ForwardService` |
| `TokenVerifier` | `cleanTokenString`, `Verify`, `ParseVerified` as operators | |
| `KeyCache` | `NewConfigFromJWKS`, the background refresh, rotation at Auth0, tokens that are verified meanwhile | `TokenVerifier` |
| `HandlerBudget` | the time one subscription takes: deadlines, timeouts, retries, backoffs | |
| `Spelling` | the texts behind names: `parseCSV`, `resolveDomain`, `ValidateAlias`, `GetAliasForDomain` on characters | |
| `Settings` | `AppConfigFromEnv`, `New`, `samplerFromEnv`, `InitStructureLogConfig` on the values they tell apart | `Spelling` |
| `*Proofs` | theorems: `ForwardService` (with `AliasRules`), `ForwardHistory`, `ForwardRefinement` (with `ForwardDelivery`), `FEClient`, `Lifecycle`, `KeyCache`, `HandlerBudget`, `Settings` (with `Spelling`) | the module named |
| `MCValues`, `MC*` | values for TLC | |

### ForwardService

Names (domains, local parts, addresses) are atomic; `strings.TrimSpace` and
`strings.ToLower` are functions `Trim` and `Lower` on them, so that a spelling and
its normal form are different values wherever the code keeps them apart: the
store is keyed by the configured spelling of the domain, the requested one is
folded, the alias is folded, the target only trimmed. `Malformed`, the aliases that
`ValidateAlias` finds invalid, does not depend on the domain: the configured
domains are taken to be well formed.

| Variable | Code |
|---|---|
| `queue`, `up` | the pending messages of each subscription (`QueueSubscribe`), the running replicas |
| `msg`, `pc`, `key` | the request a callback unmarshals, the network wait its handler is at, its `domain` and `alias` |
| `outcome` | what the handler returned, put in the reply |
| `wire` | the POST or PUT of a `set_target` at forwardemail.net: under way, applied, rejected |
| `store`, `profile` | forwardemail.net and auth-service |

A handler is split where it waits: `Start*` (or `Refuse`, the early returns) up
to the first call, `AuthAnswers*`/`AuthFails` for auth-service, `CheckAnswers`,
`ReadAnswers`, `ExistsAnswers`/`ReadFails` for a read of the store, and
`WriteAnswers`/`WriteFails` for the write. All that the code does between two
waits is one step: goroutines of different subscriptions share nothing but the two
outside systems. `Verify` reads a key set that is refreshed in the
background, contacts nobody, and belongs to the first step; it may
reject any token (expired, key not cached) and accepts only those of users.

The write is two steps of different actors. `ExistsAnswers` sends it (`wire`
becomes `POST` or `PUT`), `ApplyWrite`/`RejectWrite` are forwardemail.net's, and
`WriteFails` may happen at any time in between: `Client.do` returns an error when
the connection breaks, the 15 s of the HTTP client or the 30 s of the message are
over, the context is cancelled by a shutdown, or the answer does not decode, and
what was sent remains under way. What the model takes for granted of
forwardemail.net is what the comment of `HandleSetTarget` says: it is the
authoritative store, a POST of an existing alias is a conflict, a PUT of a
missing one fails.

`Exit` is a crash, or the end of a shutdown: `run` unsubscribes, which drops what
is pending, starts a drain and returns without waiting for either. Core NATS
delivers at most once, so these messages are `lost`. A message the server itself
loses is one that was never published here.

### FEClient and RemoteCall

`do` is modelled with its attempts; each attempt is handled by the server, at any
time, with a status that says whether it was carried out. A 429 or 404 was not;
another error status may come from a gateway after the work was done, which is
why `Result` "error" maps to an unknown outcome. Go's transport resends on its
own only when nothing had been written, which is not another attempt. `RemoteCall`
is what `ForwardService` assumes of a write: carried out at most once, before a
success, never after a denial, at any time or never after an unknown outcome.
(`HandleSetTarget` maps denials to `forwardemail_error` too, so its caller
learns less than the client knows.)

### RoutingDirectory

A request opens, takes effect at most once on a key its caller held while it was
open, and is answered, refused or given up. The refinement maps the effect to
`ApplyWrite`, a probe or a read to the step that makes its answer, a refusal to
the handler's return, and both `forwardemail_error` and a lost replica to "given
up", after which the effect may still come. `claim` is the history variable
`owned`. The ask of a message is what it asks for once normalised, so the
mapping also says that no handler mixes up two spellings. `Holdings`, the keys a
user's addresses are worth, is defined without reference to the order in which
`GetAliasForDomain` tries them.

### Lifecycle and Delivery

`pc` is the point `run` has reached, `deferred` the calls it has deferred and will
make in reverse, `funcs` and `provider` what `SetupOTelSDK` has registered, `stops`
and `bound` the stop functions of `StartSubscriptions` and what is subscribed,
`conn` and `linked` the connection and whether it has a server. Every step of the
startup has a failing twin. What is deferred tells the order of the teardown:
`InitInfrastructure` fails *before* `Shutdown` is deferred, so `BindFails` unwinds
the subscriptions by `stopAll` and then runs what is deferred, while `LoadKeys`
failing leaves an open connection to the exit.

Beside `run` go the goroutines of the subscriptions, the flusher and the drain.
`Unsubscribe` drops what is pending, but a handler at work goes on and its reply is
buffered if the connection still takes it. `Drain` returns at once; `Return` ends
the process whatever the drain is at. A signal, a kill, and the loss of the server
may come at any time; without a server `Drain` closes the connection at once.

`Delivery` is the view from outside: a message goes to one process, waits in its
turn, is served by one goroutine and is over once. `ForwardDelivery` maps the
waits of a handler to one stage. `Lifecycle` maps everything that can become of a
reply to "done", and what an unsubscribed goroutine will never take up to waiting
until the process ends, because that is all another process can see of it.

### TokenVerifier and KeyCache

A string that is sent is the sequence of its fields; a token is a record of what
the library reads in it. The tests of both parsers are in the order of the code.
A fetch is three steps, since keys may rotate, and tokens be verified, while it is
under way: it is asked for, answered, and stored, or it fails. `basis` remembers
Auth0's keys at the time the last stored fetch was asked for; it is what a verdict
may rely on. The refresh belongs to the context of the process and ends with the
signal, while handlers still verify.

### HandlerBudget

Time is discrete and passes only in the waits. A handler's deadline begins with
the handler; each call has a limit of its own, an HTTP exchange up to `MaxRetries`
times with doubling backoffs; the wait ends at the earlier of the two, which is
what passing the handler's context to each call does. The message at the head of
the queue uses the budget and those behind it wait. `ahead` counts, for a message,
those it found before it.

### Spelling and Settings

`AliasRules` takes names as atoms with `Trim` and `Lower`. `Spelling` has the
characters, where these can go wrong: lengths are in bytes while lower case changes
the bytes; blanks, commas, dots and `@` separate; `strings.EqualFold` and
`strings.ToLower` do not agree on every letter. Built-in reserved names are looked
up after `ToLower`, the extra ones are compared by `EqualFold`, so a name that
differs from an entry only by a letter such as the long s is reserved when the
entry is an extra one and free when it is built in. The other way round, an extra
name with a letter that `EqualFold` does not equate with its lower case, such as the
dotted capital I of Turkish (U+0130), reserves nothing, because the alias is lowered
and the name is not. `ListedNamesAreRefused` says exactly which aliases a list
reserves; `AliasRules` takes `EqualFold` for equal lower cases, so its names are ones
without such letters. Of the blanks only the space is a banned character: a no-break
space inside an alias passes `bannedAliasChars` and `net/mail`, a tab passes the
first and not the second, and both are trimmed at the ends.

`Settings` reads the environment as the process does. A value stands for all that
the code treats like it: every sampler `samplerFromEnv` names is there except
`parentbased_traceidratio`, which is its default, and every level of the log.
`Config` composes what three files make of it; the properties compare their
defaults.

## Runs

Every run finishes within about four minutes with two workers; only `race` and
`delivery` take more than two.

| Run | Instance | Shows |
|---|---|---|
| `race` | 3 requests, writes of two users who share one alias, and reads, 2 replicas; 1.0 million states | `QueueDiscipline`, `RetryUpdates`, `NoLostUpdate`, `OrderKept`, `ReadAfterWrite`, `CreatorKept` |
| `identity` | 1 request out of all kinds of messages, 2 users, 3 identities, 2 domains, 3 stores, relinks and removals | `HTypeOK`, `OwnershipWindow`, `RefusedMeansUntouched`, `SuccessMeansWritten` |
| `delivery` | 3 `set_target` requests, 2 replicas, relinks, fairness | `Answered`, `KeepsPromise` |
| `refinement` | 2 requests of the 3 kinds, 2 replicas, relinks, removals, 2 stores | `Indivisible` |
| `retry` | 2 calls, 3 attempts each (the code's `maxRetries`), fairness | `TypeOK`, `AtMostOnce`, `RetriesCarryBody`, `Returns`, `ImplementsRemoteCall` |
| `lifecycle` | 1 process, 2 messages on 3 subjects, a failure at every step, fairness | `TypeOK`, `TeardownOrder`, `NothingDangles`, `Starts`, `Stops`, `KeepsPromise` |
| `keys` | 2 keys of Auth0 and a foreign one, 6 tokens, 2 moments, fairness | `TypeOK`, `FreshAsOfBasis`, `OnlyIssued`, `KnownIsAccepted`, `OnlyExpiryDiffers`, `RetiredIsDropped`, `NewIsLearned` |
| `budget` | 3 messages, the 3 plans of calls, budget 6, HTTP timeout 3, 3 attempts, 3 settings of the other timeout | `TypeOK`, `AnsweredInTurn` |
| `settings` | all texts of up to 5 characters out of 10, as list, alias and address; all other settings with the lists of up to 1 character | `EveryEntryIsServed`, `OneVerdictPerAlias`, `ListedNamesAreRefused`, `HostDecides`, `UsableOrExplained`, `UnusableIsUnset` |
| `documented`, `reserved` | 1 request | two of the violated statements below |
| `drained` | 1 process, 2 messages | the third |

Why the bounds are enough. Handlers interact only through one entry of the
store and, on one replica, through a queue. Two requests on two replicas show
every overlap of two handlers; the third adds what comes after them: a retry
after a race, a late write after a confirmation, a message behind a message
behind a message. A domain, an alias or a user more would not meet the others:
two users who hold one alias throughout are the worst case of an address that
moves from one to the other while both have requests. The runs about identity
need no second request, since relinking and removal are steps of other actors
that may come at any point of the first. In `lifecycle` the messages meet only in
a queue and in the buffer of the connection, where two suffice. In `keys` one key
replaces another, and a token differs from a good one in a single claim, so that no
test hides another. `budget` keeps the proportions of the code (30 s, 15 s, three
attempts): the budget is over in the second of two slow exchanges, and one
setting is longer than it. In `settings`, with a limit of 3 bytes, 5
characters are two entries and a separator, or an address with a local part on
a domain of one letter, or an alias with blanks around it; `MCSettings` has letters
of one, two and three bytes, of which some fold together and one has a lower case
that it does not fold with, and a banned blank, one that `net/mail` takes and one
that it does not.

Replicas, requests and messages are interchangeable, so the safety runs use
symmetry; the runs with liveness properties do not. `retry`, `lifecycle`, `drained`,
`keys` and `settings` end: the calls return, the process is gone, keys are not
used twice and the clock stops, the text is as long as it gets. Deadlock is not
checked there. It is in `budget`, where it shows that time can always go on.

Fairness. `FairSpec` of `ForwardService` has weak fairness of the goroutine of each
subscription: a handler at a wait is eventually answered or given up, because
every wait is under a context with a deadline (5 s for auth-service, 15 s for one HTTP
exchange, 30 s for the message); `HandlerBudget` is about these. A replica that
ends empties its subscriptions, so fairness never asks it to go on. Nothing is
assumed of forwardemail.net, auth-service, callers and replicas: writes may
stay under way for ever, crashes may go on for ever. `FEClient` has the same
fairness of each call. `Lifecycle` has weak fairness of `run` alone: each of its calls
is bounded (the connection attempt, 10 s for the keys, 25 s for the shutdown of
telemetry). `KeyCache` has weak fairness of asking, which the cache does on a
timer, and strong fairness of the answer and of storing it: the endpoint may
fail any number of times, but not for ever.

"Not the code". Some definitions are marked *Not the code*: plausible bugs (a
dropped comparison, a success reported too early, a reader that is not rebuilt),
each next to the definition it distorts. No specification uses them; put in its
place, each makes a property fail, which shows that the property is about
something.

### Where the code and its documentation differ

* `DocumentedErrors` (run `documented`): a body that does not parse is answered
  with `malformed_request`, which the table of error codes (`README.md:78-89`) does
  not have.
* `ReservedNeverRouted` (run `reserved`): `alias.go:11-12` says that the built-in
  reserved local parts "may not be claimed as forwarding aliases on any managed domain".
  Only `check_alias` looks at them; `set_target` creates an entry for whatever
  local part auth-service names; the run has a user with `admin@kernel.org`.
* `CloseDrains` (run `drained`): `client.go:50` says that `Close` "drains and closes the
  NATS connection". It starts the drain and returns, and the process exits without
  waiting for it: a reply that a handler gave may never leave a process that was
  stopped in good order, with its server there. What does hold of a shutdown is
  `TeardownOrder`, `NothingDangles` and `KeepsPromise`; these are silent on what
  becomes of a reply once nothing is subscribed.

Some smaller ones have no run of their own. `NATS_URL` is listed as required, without
a default (`README.md:99`); `config.go:47` has one. And the comment of `Verify`
(`parser.go:174-175`) says that "key rotation does not cause valid tokens to be
rejected": a token signed with a key that Auth0 added after the last fetch is
rejected until the next refresh, since an unknown key does not prompt one.
`KnownIsAccepted` and `NewIsLearned` state how far the comment is true. A token
without an expiration is rejected by `ParseVerified` with its default options
(`parser.go:80-84`), which only `parser_test.go` calls, and accepted by `Verify`;
`OnlyExpiryDiffers` states that this is the only difference. And a name of
`FORWARDS_RESERVED_NAMES` (`README.md:104`) with a letter like U+0130 reserves nothing.

## Proofs

The theorems hold for every set of requests, replicas, users, messages, keys,
tokens and identities, every alphabet and every text, every configuration and every
initial store, finite or not, under the assumptions on the constants:

* `NameAssumption`, `ConfigAssumption`, `ServiceAssumption`: trimming and
  lower-casing are idempotent and commute, and the empty name is its own trim
  (`TrimTwice`, `TrimLower` and `LowerText` of `SettingsProofs` prove that of
  texts); at least one domain is configured and the configured ones are trimmed and
  not empty, as `parseCSV` and `New` see to (`ListMembers`); the sets of inputs are
  well typed.
* `CharAssumption`: the lower case of a character is its own lower case; what
  `EqualFold` equates with a lower-case letter it equates with its own lower case,
  as it does the Kelvin sign and k, but a letter like U+0130 may be equated with
  nothing at all; a blank, a banned character and a dot are the lower case of
  nothing else. All of it is true of Unicode as Go has it. A blank need not be
  banned, and nothing is assumed of what `net/mail` takes in an atom.
* `DomainAssumption`: a configured domain is not empty and has no comma and no
  blanks around it, as `ParseCSV` leaves none, and no `@`, which nothing in the code
  checks. With an `@` in a domain `HostDecides` would be false.
* `TokenAssumption`: types, and that neither the issuer nor the audience to be
  tested for is empty, which would switch the test off; `NewConfigFromJWKS` builds
  the one and has a default for the other (`parser.go:155-158`).
* `KeyAssumption` (types) and `BudgetAssumption` (the limits are positive).

* Types. `TypeCorrect`: `Spec => []TypeOK`. `TypeOK` is not inductive: that the key
  of a handler is a key of the store when it answers or writes depends on what was
  tested on the way there. `TypeInv` adds `Admitted` (what a request has passed at
  each wait), `Written` (only a `set_target` past its existence test has a write,
  on a real key) and `Enqueued`. The proof has a case for each action; handler
  steps go through two lemmas about `Finish` and `Advance`, and the operators
  through `ResolvedDomainIsManaged` and `PickAliasIsOwned`: the domain returned is
  a configured one that equals the requested one up to case and blanks, the alias
  is the folded, non-empty local part of one of the caller's addresses on that
  domain.
* Replies. `RefusalIsFinal` and `SuccessFollowsEffect` follow from `TypeInv` and
  `Truthful`, which speaks of replies when they are sent and stays true because a
  finished request is touched by no handler and an applied write stays applied.
* The store. `CreatorIsKept`: only `ApplyWrite` and `Remove` change it
  (`StoreChanges`); an applied POST finds nothing on its key, an applied PUT keeps
  the label.
* Queues. `MessagesAreInPlace`: `QueueDiscipline` is inductive with `TypeInv`; one
  lemma for each kind of step (a message comes last, a handler returns, goes on,
  a replica ends). `GroupPromiseIsKept`, in `ForwardRefinementProofs`, maps each kind
  of step to a step of `Delivery`.
* Requests over time (`ForwardHistoryProofs`). `Footprint` lists the eight things
  a step can do to one request; the rest is argued from it.
  `OwnershipHolds` strengthens the window to `Owned`: before the lookup, all that
  the caller holds at the moment has been observed, and `CallerKey` is one of
  these. `RetryTakesUpdatePath` uses `Lasting`: without removals, what was
  in the store when a request was published is there when it is looked up.
  `UpdatesAreNotLost` uses `Replaced`: when a request takes effect it replaces
  every earlier writer of its key, and a request that is over and was not left in doubt
  has no write under way (`OverAndSettled`, from `Truthful`), so none of these can write
  again. `SubscriptionOrderHolds` uses `InLine`: a request stays before the ones that
  queued up behind it until it is over, so that by the time one of them writes the
  first has written, never will, or was left in doubt.
  `ReadsFollowWrites` uses `ReadsBack`: the property speaks of reads that are over, the
  invariant also of the routing they are about to read. A request is `Alone` when
  every other write on its key was confirmed before it was published. Its
  routing then stays (`RoutingStays`), since who could still write is either it or
  was confirmed and is not sent again; and whoever is alone after a step was alone
  before it (`AloneBefore`), so the invariant can be used at the step.
* The directory (`ForwardRefinementProofs`). `ServiceIsADirectory` is proved under
  `Mapped`: `TypeInv`, `Truthful`, `Owned`, `Replaced`, the queues, and `Keyed`, which
  ties the key of a handler to the message it serves. Each kind of step has
  its lemma:

  | Step of the service | Step of the directory | Lemma |
  |---|---|---|
  | a message is published | the request opens | `PublishOpens` |
  | a handler goes on, sends a write, has it rejected; a replica starts | none | `Unseen` |
  | a `get_forward` or `check_alias` answers | a read, of a key or of none, or a probe, at that moment | `ReadsKey`, `NothingHeld`, `ProbesKey` |
  | forwardemail.net carries out a write | the effect, of an open request or one that was given up | `ApplyTakesEffect` |
  | a `set_target` is confirmed | its answer, after the effect | `ConfirmsEffect` |
  | an error code before any write | a refusal | `Refuses` |
  | `forwardemail_error`; a replica ends | given up, one request or all that wait there | `Answers`, `ExitGivesUp` |
  | an identity changes | the same, with what open requests now may claim | `RelinkRegrants` |
  | an entry is removed | the same | `StepMaps` |

  What makes it more than bookkeeping: `NothingHeld`, that an answer for want of an
  alias is right of what the caller holds, and `ConfirmsEffect` and
  `ReadsKey`, that a key chosen before a wait is still one the caller held at some
  moment the directory knows of.
* The client (`FEClientProofs`). The invariant says that the attempts before the
  current one were answered 429, the later ones are not sent, and that a result
  is founded on what became of the current one. `NothingRepeated`, `BodiesWhole` and
  the type invariant follow; with it, every step maps to a step of `RemoteCall` or to
  none, which is `ClientImplementsRemoteCall`.
* The process (`LifecycleProofs`). Neither `TeardownOrder` nor `NothingDangles` is
  inductive. The invariant ties what is deferred to the point `run` is at (`Control`),
  the running providers to the functions left to call (`Telemetry`), what is bound
  to the stop functions left to call (`Stoppable`), and the connection to its deferred
  `Shutdown`, where the one connection that has none never carried a message
  (`Connection`). The thirteen steps that move only the control are reduced to a table
  of moves first. `ProcessKeepsPromise` maps its steps to those of `Delivery`.
* The keys (`KeyCacheProofs`). What a fetch carries was seen at Auth0 between
  asking and answering, and a withdrawn key does not come back: `Seen` holds of the
  answer with `asked` and of the cache with `basis`. `OnlyIssuedHolds` and
  `KnownIsAcceptedHolds` add what the two tests on the key come to for a string in
  any of its forms. `ParsersDifferInExpiry` reduces both parsers to one conjunction
  of tests on the claims and, for one of them, the expiration (`ExpectingParse`,
  `VerifyTests`), once for a string that is cut down to the token and once for one
  that no parser reads as a token (`CleanIsTokenOrPair`).
* The budget (`HandlerBudgetProofs`). `Accounted` strengthens `AnsweredInTurn`: what a
  message has waited is what the handler has used so far and one budget for each
  message that was before it and is gone.

* Texts and settings (`SettingsProofs`). The invariant is only that what was typed
  is a text and that a process has read the text that is there; the work is about
  the operators. `Split` and `ParseCSV` are recursive functions: that they exist
  (`FieldsExist`, `EntriesExist`) and what they give (`SplitType`, `ListContents`)
  is shown for a prefix of every length. This needs induction, which the library's
  theorems state with an operator as a parameter, beyond the installed provers;
  `Counting` states it for a set of numbers instead and rests on the
  well-foundedness of `<`. `TrimCut` says what `TrimSpace` leaves; that it commutes
  with `ToLower`, for letters whose case changes their length in bytes too, gives
  `AliasesAreNormal`. `FoldsWithLower` says when a name on a list folds with a
  lower-case alias, from which `ListsReserve` follows. `AddressesHaveHosts` reads
  `IsSuffix` character by character (`SuffixText`); the domain has no `@`, so the
  `@` before it is the last one. `StartsAreUsable` and `UnusableValues` go through
  the fields of the configuration.

Only model-checked: the liveness properties (`Answered`, `Returns`, `Starts`, `Stops`,
`RetiredIsDropped`, `NewIsLearned`), since the proof system does not treat fairness.
The violated statements of the three runs above are TLC's alone too. Of the
operators, `Bytes` is a fold, of which the proofs use only that equal texts have equal
lengths.

## Not modelled

* Formats: JSON, HTTP headers, path escaping, log lines, spans, the timestamp
  `updated_at` of a reply. Of observability only what starts, stops or chooses
  something is modelled.
* The `verified` flag of an address, which `GetAliasForDomain` does not read.
* `IsReady`, which nothing calls.
* The limit of a subscription's pending messages in the NATS library.
* Five variables that are passed on as they are, and a sampler ratio of NaN.
* Signatures, the decoding of claims and the grammar of `net/mail` belong to
  libraries; what the code asks of them is an operator each.
* Chart and CI: no state of the service.

## Plan

What would come next: handlers whose three remote calls are `FEClient`s with
attempts, composed and shown to implement `ForwardService`; `Spelling` as an
instance of the names of `AliasRules`, so that its operators are refined by those on
texts and not only bounded by the same laws; and `HandlerBudget` as a bound on the
waits of `Lifecycle`.

# TLA+ models and proofs of the KGA FastAPI integration gateway

The gateway is a FastAPI service that fronts providers (Xero, Netcash, Investec,
and an example provider over HTTP): a caller presents an API key and, on the
finance routes, an Auth0 bearer token; the gateway checks both, calls a service
and answers. This directory models its core, model-checks it with TLC on small
instances and proves its safety properties with TLAPS for every instance.

## 1. Inventory

| component | state | operations | who talks to it |
|---|---|---|---|
| scope registry (`app/auth/scopes.py`) | constants | `_parse`, `_grant_satisfies`, `satisfies` | the scope gate, `Principal.has_scope` |
| scope gate (`app/auth/dependencies.py`, `models.py`, the claims in `auth0.py`) | the scopes of each gate, fixed at import | `require_scopes` (import), its inner dependency (request), `_principal_from_claims` | every finance route |
| request pipeline (`main.py`, `routers/`, `domains/`, `example/service.py`) | per request: the job it is at, its provider call, its response; shared: the thread pool | the dependencies of a route in order, the endpoint, error handlers, audit middleware | clients, provider, token store, verification |
| token verification (`app/auth/auth0.py`, `provider.py`) | the JWKS cache, shared by all worker threads | `verify` | the tenant's JWKS endpoint, `current_principal` |
| lazily built instances (`get_provider`, `_jwks_client`, `get_settings`, `get_token_store`) | one instance each | first use | every worker thread |
| provider token store (`app/example/token_store.py`) | one file and the temporary files beside it | `load`, `save` | `ensure_valid_token`; whoever authorizes the service |
| settings (`app/config.py`) | immutable after the first read | `api_key_set`, `require_auth0_config`, `require_credentials` | everything |
| OAuth stubs (`app/example/auth.py`) | none | `refresh` and `authorization_url` are placeholders | no route |
| wire models | none | pydantic validation | request and response bodies |
| merge and CI workflows (`.github/workflows`) | labels and check runs at GitHub | reusable workflows of another repository | GitHub events |

What is hard here, and what correctness means for it (the full list, with lines,
is `hazards` in `PROJECT.json`):

- **Interleaving.** Every endpoint and dependency is a plain `def`, so each is one
  job of a shared thread pool, between which other requests, the provider and the token file
  move on: what the provider refuses may be a token that was stored when the call was let
  through. A verification is many steps, between which other threads fill the cache it reads.
- **Shared caches.** `lru_cache` and `cached_property` hold no lock while they build;
  the JWKS cache is filled by whichever thread's answer is handled last.
- **Partial failure.** A provider write may have been carried out although the call
  failed, and may still be after it was given up. Which answers allow a retry? Which
  send a client to a login, and was there a reason?
- **Exceptions that go past handlers.** They become a 500 outside the audit middleware.
- **Crashes.** `save` may be interrupted anywhere, by an exception, by the death of
  the process or by a loss of power.
- **Limits.** `/health` waits for the same threads that provider calls hold, and the
  time-out of a call is one per read.
- **Boundaries.** `>= 400` for an error, two or three parts in a scope, a domain-wide
  grant against a provider's, an empty permissions list against a missing one.

## 2. Modules

```
Scopes <- ScopeGate <- MCScopeGate            ScopesProofs <- ScopeGateProofs
Scopes, AuthContract <- Gateway <- MCGateway  Gateway, ScopesProofs <- GatewayProofs
                                              GatewayProofs <- GatewayPoolProofs
RequestContract <= Gateway                    GatewayProofs <- RequestContractProofs
TokenStore <= FileTokenStore <- MCFileTokenStore           FileTokenStoreProofs
AuthContract <- AuthProvider <= Auth0Provider <- MCAuth0Provider
                                                           Auth0ProviderProofs
LazySingletons <- MCLazySingletons                         LazySingletonsProofs
```
(`<-` is EXTENDS; `<=` is refinement, `INSTANCE TokenStore WITH ...`.)

Definitions keep the source's names where TLA+ allows; `map` in `PROJECT.json`
names the lines of each. An operator whose comment begins with *Slip:* is no part
of a model: it is the one that follows it with a plausible mistake in it, kept to
show that a property can tell the two apart.

**Scopes.** A scope string is the sequence `split(":")` makes of it. `satisfies`
follows the code; `Authority` is an independent meaning, the set of elementary
permissions a scope carries, against which the rule is judged.

**ScopeGate.** One gate: wired at import (`ValueError` on an unknown scope), then called
with one token after another. A token is its claims: a subject or none, a `permissions`
list, filled, empty or absent, and the words of `scope`. `granted` is the precedence of
`_principal_from_claims`. The outside picks the tokens, so two calls in a row are any
two tokens, and an action property can compare how they fare.

**AuthContract.** How a `verify` may end (a principal, `InvalidTokenError`, `RuntimeError`, a
vendor's exception), given whether the provider is configured and the token sound. `Promised`
is what the abstract class says, which admits no vendor's exception; `MayEnd` adds one, as a
caller meets it when the source of the keys fails. Gateway draws the outcomes of its `verify`
from `MayEnd`, whatever the tenant does; AuthProvider is a machine around both, in which a call
may leave `Promised` only if the source of the keys `failed` during it. That is how Gateway and
Auth0Provider compose: what the one chooses from is what the other is shown to deliver.

**Gateway.** Requests from arrival to answer. `phase` is the job a request waits for
or runs, `queue` and `busy` are the thread pool, `wire`, `reply` and `applied` the
provider call. One action per dependency, for the endpoint, for each way a provider
call ends, for serialisation and the audit. Two jobs ask somebody outside and keep their
thread meanwhile (`Asking`): the call to the example provider, and a verification, which
may have to fetch the tenant's keys. Body parsing precedes the dependencies (422
for text that is no JSON, 400 for bytes that are no text) and validation follows them, as
FastAPI does it. A request's data is reduced to the first check it fails; a `clash`
passes validation and may fail later: in httpx, which takes no control character in a URL and
no NaN in JSON, or when a finance stub echoes it (`MayClash`). Xero's and Netcash's stubs return
any extra field, which the response model may reject; all three return the amount, and FastAPI
writes a NaN as null or fails to render it, by its version. So an echoed clash is served or
raises. The token file is what
it holds. The provider and the token file change on their own. A reply comes at once, is
lost, or trickles: it has begun and arrives in pieces, which keeps the read time-out from
firing. A provider is assumed to carry out a write it answers with 2xx, not one it
answers with 3xx or 4xx, and perhaps one it answers with 5xx or not at all.

**RequestContract.** The gateway as one client sees it, as if its request were the only one: a
`title` (what its key, token and grants entitle it to), the `effect` set off for it (none, pending at
the provider, settled), the writes carried out and the answer. There are five steps: the gateway acts
at once (a finance stub), sends to the provider, the provider settles, the gateway answers, nothing
else. No effect comes without a title; a write is done at most once; a 401 or 403 comes before any effect,
any other 307, 4xx or login only when no write was done; a 201 comes when the effect is settled; and
while it is pending there is one possible answer, 502. Gateway is mapped to it by `Title`, which is
computed from the request and the settings alone, in terms of `Authority` and not of the gates'
own code, and by `Effect`, a reading of `wire` and `applied`. Queue, pool, jobs, gates and the token
file disappear.

**TokenStore / FileTokenStore.** The first is the promise of the abstract class: a
register overwritten as a whole. The second is `save` and `load` by file operation.
A file records whether its text is complete and on the disk; the path has a meaning in
the running system and one on the disk, because `os.replace` is not followed by a
sync of the directory. The refinement mapping takes `os.replace` for the instant a save
takes effect, and `open` for that of a load.

**Auth0Provider.** `verify` by several threads over one `PyJWKClient`. The client is
library code, modelled from its use: a cached set is trusted for a while, a key that it
lacks is asked for once more, and whatever was received is stored over what another
thread stored meanwhile. Time is a counter. `steady` and `trouble` are history
variables: was the token's key published all along, and did a fetch fail. `Contract` maps
it to AuthProvider, the promise of the abstract class: from entry until its last step a
verification is *asked*, then it is *concluded* with what `current_principal` makes of it, and
`failed` is `trouble`.

**LazySingletons.** The races of first use. An instance is named by the thread that
built it.

## 3. Runs

| run | instance | shows |
|---|---|---|
| `ScopeGate.cfg` | 11 requirement lists; tokens with any set of 7 entries (two not in the registry) in the claim that decides | `AllowedByAuthority`, `PermissionsDecideAlone`, `RefusalNamesFirstMissing`, `NoRequestTimeError`, `GrantsAreMonotone` |
| `Gateway.cfg` | 2 requests of 20 shapes, 2 threads; fully configured, or API keys or tenant unset | `EffectAuthorised`, `SafeToRetry`, `CreatedOnce`, `RefusalsAreAboutTheCaller`, `RefusedAtTheFirstGap`, `LoginIsJustified`, `AuditFaithful` |
| `GatewayLiveness.cfg` | 2 requests of 6 shapes, 1 thread, fully configured | `PoolAccounting`, `EveryRequestAnswered`, `RequestsAdvance`, `ImplementsRequestContract` |
| `FileTokenStore.cfg` | 2 savers, 1 loader, 2 tokens, 2 faults | `NeverTorn`, `StraysOnlyFromFaults`, `ImplementsTokenStore`, `SaveEnds` |
| `Auth0Provider.cfg` | 2 threads, 2 keys, a good, a bad and an unreadable token of each, clock to 3, cache lifespan 1, travel time 1 | `NoStaleKey`, `RotationIsSeamless` |
| `Auth0ProviderLiveness.cfg` | the same, the tokens of one key only, clock to 1, lifespan and travel time 0 | `VerifyEnds`, `ImplementsAuthProvider`, `AskedTwiceAtMost` |
| `LazySingletons.cfg` | 3 threads | `OwnOrShared`, `Settled` |

`ScopeGate`, `Gateway`, `FileTokenStore`, `Auth0Provider` and `LazySingletons` also check a type invariant. What the runs show:

- Access to a finance route is decided by the claims of a valid token and by nothing else, in
  the order RBAC list, scope words; the refusal names a scope that is really missing.
- A client can trust a 307, a 4xx and a `login_url`: nothing was done and nothing will be. It
  cannot trust a 502. It is sent to a login only with cause, and refused by the first gate that
  has one.
- Threads are given back on every path, and a request is answered whatever the provider does,
  short of a reply that never ends; no step, not even a 429 of the provider, makes it start over.
- Seen by its client, a request is a small machine of its own: entitled or not, acted on or not, answered
  once, and of all answers only the 502 leaves open what is still to happen.
- A token file is old or new, never a mixture, and a JWKS cache is neither too old nor too new.
- Verification by many threads over one cache is indistinguishable, to each caller, from one step
  that makes a principal of a sound token only, and asks the tenant at most twice. A vendor's
  exception comes out of it only when the tenant failed to deliver its keys.

*Bounds.* The properties relate one request (thread, saver) with what any other does to
shared state, so two of each give every conflict; the third thread in `LazySingletons` is
one that comes while two race. One thread for two requests is the full pool; two for
two is free concurrency. The six shapes over the one thread are one per way through the pool
and through the contract: served at once or by the provider, refused by either gate, or failing with
the effect behind it; a provider call holds the thread, but its late effects fall into the other request's
jobs, so they meet every answer there too. Two keys allow a rotation that replaces one, keeps one or
swaps both; the clock reaches the point where a cached set has expired
after a late answer. The liveness instance of Auth0Provider is smaller since fairness and the
mapping make each state dearer; a good token, a bad one, whose key is found all the same, an
unreadable one, and a key that may be retired reach every end a verification has, and the clock
lets a token and a cached set expire. The two further finance shapes of `Gateway.cfg` that fail
at several gates at once are there for `RefusedAtTheFirstGap`. The scope gate's tokens carry every set of entries in the claim that
decides and four sets, from none to a domain-wide write, in the one that does not.
`MaxFaults` bounds crashes, power losses and failed clean-ups, two being a
fault in the recovery from a fault. `MaxTime` bounds the clock. Symmetry is used only where no
liveness is checked. Only `ScopeGate.cfg` disables the deadlock check: a gate whose wiring failed ends the
program at import.

*Violations.* Five runs show the code doing something else than its text says; each is a
finding in `PROJECT.json`:

- `GatewayAudit.cfg`: "every request is logged", but an unhandled exception leaves
  `call_next` before the audit line.
- `GatewayRedirect.cfg`: "create an item ... and return the created record", but a 3xx
  reply with a JSON body is returned with 201.
- `FileTokenStorePersist.cfg`: "persist the token dict", but a power loss after `save`
  returned may bring the old token back.
- `Auth0ProviderRemap.cfg`: "every PyJWT failure is remapped", but `PyJWKSetError` is not
  in `_JWT_ERRORS`.
- `LazySingletonsOnce.cfg`: "built once on first use", but racing threads each build one.

## 4. Fairness

- *Gateway*: weak fairness of the pool starting a queued job and of what the gateway does
  for each request: threads and event loop run. `TransportError` is part of it: httpx
  raises it at the latest when nothing was read for 30 s. It is not enabled while a reply
  trickles in, and nothing obliges the provider to finish one; so `EveryRequestAnswered`
  states its assumption itself: if no reply trickles for ever, every request that arrives is
  answered. Without the antecedent it fails, as one endless reply holds the only thread.
  A verification ends too: whoever takes a thread for one gives it back. That rests on
  the time-out of the key fetches, thus on a tenant that does not send its few keys in
  pieces for ever; Auth0Provider makes the same assumption.
  Nothing is assumed of clients or operator.
- *FileTokenStore*: a thread inside `save` keeps running. Callers and faults are free.
- *Auth0Provider*: a thread inside `verify` keeps running, and a fetch ends with an answer
  or its time-out. `Tick` does not let an answer travel longer than `FetchTime`,
  because the HTTP time-out ends the fetch; clock and tenant need not move.

## 5. Proofs

All safety properties of the runs are proved for every value of the constants, under the
ASSUMEs of the modules (vocabulary and typing of the constants, a positive pool), and all three
refinements.

- **ScopesProofs.** `SatisfiesIsInclusion`: the hierarchy rule of `_grant_satisfies` is
  inclusion of authority, and `CoversIsTransitive`. The gate's theorems rest on
  these.
- **ScopeGateProofs.** The invariant says how the last verdict came about: `wiring` and
  `verdict` alone do not say that a wired gate's requirements are all known, hence well-formed.
  `PermissionsAreDecisive` follows from it: `granted` reads nothing but the list when there is one.
- **GatewayProofs.** `IInv` is the type and, for each client, four parts: `OnPath` (which jobs the
  routes of an area go through), `Gated` (what the gates behind a request established),
  `Effects` (how calls, wire, reply and applied go together) and `Answer` (what a response
  tells of them). `SafeToRetry` needs all four: a login answer after a provider call is only
  safe because the reply was a refusal, and a reply ends the wire's chance to apply.
  Since no part relates two requests, `UntouchedKeeps` disposes of all others. `LoginHasACause`
  is proved by asking, of each action, which answers it can give, and so is
  `RefusalsFollowTheGates` (`ServeFate`): `Gated` says what the gates behind a request found, and
  `DueInv` adds that an exception on its way to its 500 was raised behind the key gate, which
  `IInv` no longer tells once the request has left its job.
- **GatewayPoolProofs.** `PoolBalances` does relate requests. Its invariant: `busy` is finite and no larger
  than the pool, the queue has no duplicates, and each request is `Placed`, in the queue or on
  a thread, never both, exactly while it has a job. Each way to leave a job keeps it.
  The safety half of `EveryRequestAnswered` is `NoRequestFallsBack`: every step of a request raises its
  `Stage`, and no thread is given back without one; with eleven stages a request takes at most ten steps
  of its own. It goes action by action over the ways to leave a job and needs the type only.
- **RequestContractProofs.** The step simulation of RequestContract, one lemma per action, under `IInv` and one
  strengthening that `IInv` does not need for itself: `CallsAreAwaited`, a request whose call is out is waiting
  for it or has its answer. Otherwise a request on its way to a 500 could have a call out, and that 500 would
  leave the effect open. `TitleAtEndpoint` gets the title from what the gates established, through
  `SatisfiesIsInclusion`; `AnswerMaps` reduces every response to the five conditions of the contract on an
  answer; `CallSettles` is common to a provider that answers and a request that is lost. `Invisible` disposes
  of all that a client does not see.
- **FileTokenStoreProofs.** `SaverInv` says what the temporary file holds at each step; so only a
  complete and synced file is renamed. The same invariant gives the step simulation of
  `FileImplementsRegister`.
- **Auth0ProviderProofs.** What is in the cache, and what is on its way, bounds how long ago its
  keys were last published; `CallOutlives` carries that over a rotation and a tick. A call
  whose key was `steady` finds it in any answer with keys. `Auth0KeepsTheContract` is the step
  simulation of AuthProvider; beside the invariant it needs `AskInv`: past the first check the
  settings are complete (so no later step can end in `RuntimeError`, or hide one), a
  thread between calls presents no token, and `trouble` ends a call at once, so that no later step
  can pass for a failure of the tenant. `RefusalMaps` and `GivingUpMaps` keep the two kinds of refusal apart. `FetchesAreBounded` is the safety half of `VerifyEnds`: a second
  look comes with `last` set, which leaves no way to a third.
- **LazySingletonsProofs.** A thread's provider is its own or the cached one, and a kept
  client was built for the provider that keeps it.

*Model-checked only*: the liveness properties (`EveryRequestAnswered`, `SaveEnds`, `VerifyEnds`), since
fairness and ENABLED are out of TLAPS's reach, and the five violations. Of the first and the last of
these the proofs cover that no step leads back; what rests on TLC is that steps go on being taken.

## 6. Not modelled

- `get_settings` and `get_token_store`: the first is filled at import, by one thread; duplicates of
  the second would be interchangeable.
- The OAuth placeholders: no route calls `refresh` or `authorization_url`, so `require_credentials`
  is never reached either.
- The fields of the wire models, logging, wording and URLs.
- `async` cancellation of a request whose client goes away (a thread job is not cancelled, its
  answer is dropped), and the end of the process: it keeps nothing but the token file.
- The merge and CI workflows. Each file is a trigger, a concurrency group and a condition for a
  workflow of another repository, which takes every decision and holds every state. A module
  would be a model of GitHub's scheduler, with these few lines as its constants. Reading them
  against that scheduler's documentation shows one gap, listed among the hazards: the group of
  `merge-gate.yml` is joined before the job's condition is read, so the event of any other
  label displaces a pending `merge-candidate` run, and then skips its own job.
- Build and container files.

## 7. Plan

Done: the modules, refinements and theorems above. What could follow:

1. The refresh seam behind `/items`, once it is more than a placeholder: a rotated token must be
   saved before it is used, which TokenStore is ready to express.

# A formal model of OxideAuth

OxideAuth is an identity and access service: a Rust program that serves a JSON
API over Postgres and Redis. Its correctness rests on a look-aside cache: every
request is authorized from Redis entries, and every administrative change has to
reach them. The code uses no database transaction, spreads each operation over
several statements, and drops a request wherever its 30 s timeout finds it. This
directory models what that does to the promises the code makes.

Source paths below are relative to `src/src/`.

## Inventory of the system

| Part | State it keeps | Operations | What makes it correct |
|---|---|---|---|
| Context resolution (`core/services/ctx.rs`, `web/middlewares/ctx.rs`) | none | decode the token, fetch or hydrate the workspace, auth and policy entries, check versions and status, scope a system token to a workspace | no token is accepted on rows that were replaced too long ago |
| Auth entry (`cache/entities/auth.rs`, `cache/stores/auth.rs`) | `oxauth:mem_id:{mem}` with an expiry | fetch, build from the database, write, invalidate | an entry differs from its rows only for a known reason |
| Policy entry (`cache/entities/policy.rs`, `cache/stores/policy.rs`) | `oxauth:policy:{mem}`, no expiry | fetch, resolve, write, invalidate | the same, but nothing else ever removes it |
| Workspace entry (`cache/stores/workspace.rs`) | `oxauth:ws:{id}`, no expiry | fetch, write, invalidate | the same |
| Refresh replay store (`cache/stores/replay.rs`) | `oxauth:crt:{jti}` with an expiry | check and consume | a used refresh token is recognized as long as it is valid |
| Memberships (`core/services/membership.rs`) | row with a version, role and policy links | create, update, delete | versions only grow; what changes is invalidated |
| Accounts (`core/services/account.rs`) | row with a version, `enabled`, `verified` | create, update, delete | a disabled account is denied; a workspace changes only accounts it alone administers |
| Sessions (`core/services/auth.rs`) | none besides the above | login, refresh, revoke, confirm, reset a password, create an account, OAuth | a revoked session stays dead; onboarding leaves all rows or none |
| Roles, permissions, policies (`core/services/{role,permission,policy}.rs`) | rows and join tables | create, update, delete | cached scopes and policy sets follow the rows; deny overrides allow |
| Credentials and clients (`core/services/{credential,client}.rs`) | rows, `oxauth:client_auth` entry | authenticate, create, update, delete, push | a grant agrees with its credential; an OAuth identity is for good |
| Profiles (`core/services/profile.rs`) | row for an account in a workspace | create, update, delete | one for each person in a workspace |
| Workspaces and projects (`core/services/{workspace,project}.rs`) | rows and everything below them by cascade | create with provisioning, update, delete | a workspace is provisioned completely; sweeps reach every membership |
| Evaluation (`core/models/{permission,policy}.rs`, `core/services/validator.rs`, `core/ctx.rs`) | none | permission sets, policy sets, workspace scoping | pure functions |
| Store (`store/queries/*`, `store/entities/*`, `store/dbx.rs`) | Postgres | one statement per call, no transaction | every statement of a route is in the workspace its caller may work in |
| Redis executor (`cache/redis.rs`) | one shared connection | GET, SET, DEL, each repeated once on an error | commands are safe to repeat |
| Web layer (`web/*`) | none | routing, conversion, the global timeout | a field of a body reaches its column and comes back |

Parts meet in three places: the rows in Postgres, the entries in Redis, and the
tokens in the hands of clients, which carry the versions of the rows they were
issued from. All concurrency is between requests; every `.await` on Postgres or
Redis is a point where others run, and where the timeout may end the request.
What is hard follows from that: a hydration that overlaps an invalidation, a
read-modify-write of a version, a check followed by a write, a change whose
second half never runs, an invalidation that asks the database whom to
invalidate after the answer has changed. `PROJECT.json` lists each of these
hazards at its line with the properties that look for it.

## Modules

### AuthSession

One membership, its account and its auth entry, with any number of requests and
administrators. Entries of different memberships share nothing, so one is enough.

| Variable | Code |
|---|---|
| `mem` | the `membership` row (`version`, `status`) with its `membership_role` links |
| `acc` | the `account` row (`version`, `enabled`) |
| `cache` | the Redis entry; `left` is what remains of its expiry, 0 when there is none |
| `tokens` | the pairs (`mem_ver`, `acc_ver`) in tokens that were issued |
| `req` | requests in `login` (account read, membership still to read) and in `resolve_ctx` (fetch, two hydration reads, write-back, check) |
| `wr` | administrative requests between their statements |
| `memAge`, `accAge` | history: how long the present row has been the present one |
| `revoked` | history: versions that an acknowledged update or delete retired |
| `tainted` in an entry | history: a membership write overlapped the hydration, or its invalidation did not happen |

An action is one statement sent to Postgres or Redis together with the local
code around it. `UpdateDescribe`, `UpdateUnlink`, `UpdateLink`, `UpdateWrite`,
`Invalidate` are `MembershipService::update`, which `revoke_token` and a detected
replay call as well; `AccountRead` and `AccountWrite` are
`AccountService::update`; `ConfirmRead` is `confirm_account`. `AccountWrite` has
no invalidation because the code calls `invalidate_all_memberships` without
awaiting it. `End` and `Abort` are every way a request can stop early.
`FillUnacknowledged` is the Redis executor repeating a `SET`.

Left out: the permissions and workspace row that a hydration also reads (they
come and go with the entry), `verified` (login checks it, token resolution does
not), expiry of access tokens (tokens stay presentable, which allows more),
the session id check (commented out in `validate_versions`), the token type
(`resolve_ctx` does not look at it).

### RefreshRotation

Refresh tokens of one membership: `claims` and `life` of each token, the
consumed `mark` of each `jti`, the membership version. `Refresh`,
`RemainingLife`, `FindFresh` or `FindReplay`, `Consume`, `Rotate` are
`refresh_token` and `check_and_consume`; `Revoke` and a found replay go through
`BumpRead` and `BumpWrite`. `login` gives its token `jwt_max_age`
(`issue_token_pair` is called with one lifetime for both tokens), a rotation
gives `refresh_token_max_age`. Requests may stall anywhere: the timeout is
weaker than that. The account and workspace checks of `refresh_token` are part
of `End`.

### PolicyCache

The policy entry of one membership: policy rows (`body`), the three join tables
(`direct`, `memRoles`, `rolePols`), the entry and the hydration that reads them
one after the other. The administrative requests are `PolicyService::update` and
`delete` with `invalidate_memberships_for_policy`, `RoleService::update` with
`policy_ids` and `MembershipService::update`. Whether the membership is among
those a lookup returns is computed from its own links, with the semantics of the
statement (`list_containing_many` returns rows linked to *all* of the ids).
`excuses` records why an entry may be out of date.

A lookup gives no list options, so `ListOptionsValidator` ends it after 500
rows. How many other rows match is outside the module: `Found` and `Listed` let a
lookup leave out the membership, or roles, and the entry then has the excuse
`beyondLimit`.

Two excuses stand for things the code's comments deny. `deleted`:
`PolicyService::delete` asks whom to invalidate after the row has taken its
links with it (`policy.rs:520-522`), finds nobody, and the entries keep the
policy. `severalRoles` has the run `policy_roles`.

Left out: creation of policies and roles (a
fresh id is in nobody's set), deletion of roles (a role in use cannot be
deleted: `membership_role.role_id` is `ON DELETE RESTRICT`).

### PolicySets

What a policy entry contains and how it is asked: `PolicySet::from_policies` as
a loop over the policies (`at`) and their actions (`action`) that fills `table`,
`PolicyEngine::evaluate` as an operator, `PolicySet::allows_constraint` as a scan
of the table in any order (`todo`, `allowed`, `answer`). A text is the sequence
of its parts and a key joins three of them with the separator, so that asking
for a constraint is what it is in the code, a comparison of endings. Only the
tests and `AuthValidator::validate_policy` ask a set as yet; handlers check
permissions.

### PolicyKeys

The policies of one workspace (`policy`) and the requests that write them (`adm`).
`CheckNew` and `Insert` are `PolicyService::create`; `ReadRow`, `CheckMerged`
and `Update` are `update`, which checks the row it read merged with the patch
and writes the patch; `Delete` is `delete`. `Listings` is what
`ListOptionsValidator` makes of a list without options: 500 rows at most, and
for policies in no order. `blind` is history: the request that wrote the row
had not seen all rows as they then were. It is what keeps "This key is unique per
workspace" (`models/policy.rs:300`) from being true of every state.

Its names have a prefix (`KeysInit`, `KeysNext`, `KeysSpec`, `KeysTypeOK`) because
`Policies_proofs` extends it together with `PolicyCache`.

Left out: resource and constraint, which travel like the effect; names, whose
unique index makes an insert fail like any other statement.

### Onboarding

Everything about one e-mail address: the account, its profile in each workspace
(the person as that workspace sees it), its memberships.

| Variable | Code |
|---|---|
| `accounts`, `profiles`, `memberships`, `projects` | the rows, with foreign keys and unique indexes; a workspace has one project |
| `made` | numbers the memberships; `MaxMemberships` bounds it |
| `creating` | for each account, the request that creates it: `register` or an administrator |
| `adm` | administrative requests between their statements |
| `checked`, `overtaken` in `adm` | history: the subset rule allowed the deletion; a membership was inserted since |
| `attached`, `abandoned`, `cascaded` | history of profiles: had a membership; its deletion was dropped before the clean-up; lost the last one with a project |

`CheckEmail` to `RefuseCredential` are `AuthService::create_account` with the
services it calls, `CleanList` and `CleanDelete` are
`cleanup_onboarding_account`. `DescribeMembership`, `DeleteMembership`,
`InvalidateEntries`, `ListRemaining` and `FollowMembership` are
`MembershipService::delete`; `CheckAccount` and `DeleteAccount` are
`AccountService::delete` with `check_account_mutation_allowed`. `RemoveAccount`
includes the cascades of the foreign keys (`sql/migrations/dev`).

A registration has no successful end here because the code has none, although
`register` "Registers a new account with a `Local` password credential"
(`auth.rs:416`): `create_account` asks for an OAuth credential whatever kind it is given, and
`CredentialService::create` refuses one without a provider id. Left out:
failures of role and policy links after the `INSERT` of a membership (the row
stays, as after a drop), the contact e-mail of a profile (its conflict is one of
the failures of that step), updates of profiles (they change no link), the
second caller of `create_account`, the OAuth callback, which nothing reaches.

### WorkspaceLife

Workspaces from creation to deletion, and their entries in Redis.

| Variable | Code |
|---|---|
| `rows` | the `workspace` rows: `slug` (unique) and `config`, which stands for every column an update may change |
| `content` | what is in each workspace: permission rows, the two default roles with their permission and policy links, policies, projects |
| `cache` | `oxauth:ws:{id}` |
| `req` | requests that resolve a workspace and found no entry |
| `adm` | callers in `WorkspaceService::create`, `update` and `delete` between their statements, with the permissions (`perms`) and the workspace (`scope`) of their `CoreCtx` |
| `excuses`, `excuses` in an entry | history: why a workspace may be incomplete, why an entry may differ from its row |

`BeginCreate` to `InsertProject` are `create` and the `populate_*` functions, an
action for each statement: `InsertWorkspace` with `set_scoped_ws` and the first
`escalate_perms`, `InsertPerms` (`PermissionService::create_many`), `FindPerms`
(once for each role), `InsertRole`, `LinkRole` and `DescribeRole`
(`RoleService::create`, twice), `InsertPolicy` (`PolicyService::create`, twice),
`AttachPolicies`, `InsertProject`. A statement that finds no workspace (foreign
keys) cannot run, which leaves `Abort`. `Refuse` is a service that turns the
request down; `Permitted` is what the four services ask, in the permissions the
request has by then. `FetchMiss`, `ReadRow` and `Fill` are both ways an entry is
made: `build_from_db` from the row, and `get_and_cache` through the model.

`Permissions` holds what a permission set grants (`PermissionEngine`), the
canonical catalogue, the default sets and the restricted keys.

What the model shows of the code:

* The admin permissions include `workspace:describe`, whose key begins with the
  restricted key `workspace`. A caller with `workspace:create` and without `*:*`
  therefore inserts the workspace and is then refused by `create_many`: the
  workspace stays, empty, and keeps its slug (excuse `notAdmin`,
  `workspace.rs:492`, `permission.rs:105`). The escalations that follow only
  ever reach system admins, who do not need them.
* `Workspace::from` a row drops the configuration (`models/workspace.rs:52`), so
  an entry made by login or refresh holds the default one, although the entry
  "Carries the workspace identity and configuration" (`cache/entities/workspace.rs:25`).
  Nothing but an update removes it (excuse `viaModel`).
* `populate_ws_perms` inserts the admin permissions, not "every permission from
  `CANONICAL_PERMISSIONS.all()`" (`workspace.rs:209`), and the admin role gets
  these, not "the single system-wide wildcard permission" (`workspace.rs:253`).

Left out: the sweep over auth entries, which is commented out
(`workspace.rs:627`); `name`, whose unique index makes an insert or update fail
like any other statement; memberships, which make the deletion of a workspace
whose roles are held fail (`membership_role.role_id` is `ON DELETE RESTRICT`), an
`Abort` here; writes to permissions, roles and policies other than by creation.

### Columns, Routes, Resources, ScopedTable

The ten kinds of resource that the API manages go through the same layers, each
written out by hand. `Columns` lists, for each kind, the fields that each layer
passes on: the body of a request, the parameters of the service, the struct the
store writes, the row, the model, the answer, the filter. `Routes` lists, for each
kind and operation, the steps its service takes in their order: asking for the
permission and the workspace, reading (in the scope, in the workspace of the
context, by the id alone, joined with links), checking, writing, linking,
describing. `Resources` gives the steps their meaning on one table with its links,
and lets several requests interleave them.

| Variable | Code |
|---|---|
| `kind` | the kind of resource, settled in `Init` |
| `rows`, `links` | the table with its columns and workspaces (an account has several, by its memberships); the join tables |
| `pc`, `input`, `step` | the request, what it asks, the number of the step it is at |
| `scope` | the workspace in its `StoreCtx`, or none for the two tables that have no workspace column |
| `shown`, `joined`, `listed`, `total` | what it has read, which it answers |
| `why` | the kind of error it was refused with |
| `past` | history: what it wrote, and what others wrote meanwhile |

`AskStep` is `scope_and_validate`, `validate_ctx_perms` and
`scope_store_workspace`: a caller who is not a system administrator asks for no
workspace or for its own. `InsertStep` to `RelinkStep`, `FindStep`, `JoinStep`,
`ListStep` and `CountStep` are the statements of `store/queries`. `PassStep` goes
by a step whose condition does not hold, such as links that were not given. `Drop`
is the 30 s timeout. A statement may be refused for reasons outside the module
(`invalid`). A body has no other fields than those of its route
(`InputsAssumption`): serde ignores the rest.

`RefusedForCause` is a property of steps: a cause has to be there when the request
is refused, and may be gone later. `LinksAreOneList` lets any number of requests
mix their lists, as long as any two of them overlapped.

`ScopedTable` is the abstract specification: a row is for good in the workspaces
it was created in, and a request writes one row at a time, in workspaces settled
when it is received. `Resources` implements it (`ImplementsScopedTable`, mapping
`table` to `rows` and `may` to `Entitled`).

What the model shows of the code:

* An update of a role, permission or credential and a creation of a role or
  membership end with a description under another permission, so a caller without
  it is refused after its change is made; a membership's update gives itself the
  permission and is not affected. What else may stay
  behind a refusal is spelled out in `RefusalsLeaveNothing`.
* The links of a membership are replaced before its row is updated; the links are
  found by their id, the row in the scope.
* A project is looked up in the workspace of the context, whatever workspace was
  asked for. The check of its code on an update does not skip its own row, so an
  update that repeats the code is refused.
* `PermissionForUpdate` and `PermissionFilter` have a `name` that is no column: a
  statement that uses it is refused by the database (`broken`). So is an update of
  a policy that gives no field. An update of a role ignores `permission_ids`
  (`Ignored`).
* Describing a membership describes its roles, which `get_roles` refuses for roles
  of another workspace. Lists of memberships come back without roles.
* The model of a workspace drops the configuration (`Hidden`).

Left out: the operators and the order of filters, pages and the 500-row limit
(two rows do not reach it), steps on the caches (they are `PolicyCache`'s and
`AuthSession`'s), the rules inside `validate` steps (`PolicyKeys`), creation of
credentials, profiles and workspaces (`Onboarding`, `WorkspaceLife`).

### Credentials

The credentials of one account: `rows`, the roles of its memberships as a version
(`scopes`), the stored grants (`cache`), reset tokens (`expiry`), and requests
between their statements. `ReadCredential` to `StoreGrant` are
`CredentialService::authenticate`; `Find`, `Clear`, `Write`, `ClearAgain`,
`Describe` are `update` and `delete`, which remove the stored grant before and
after they write; `Present` and `Choose` are `AuthService::update_password`, which
goes on as an update; `Login` is the part of `login` that finds the password.

A credential is read before its grant is built and stored, so a grant may be
stored after a write that came later than the read (`late`). No grant is removed
when a membership or its roles change, or when the membership takes its
credentials with it. Nobody reads stored grants as yet. A grant's lifetime is what
is left of the credential in whole seconds; `SET` with a lifetime of zero is
refused by Redis, which `StoreGrant` shows as a refusal. The secret of an update is
stored as it came, so the next authentication does not find a hash and is refused.
`login` and the reset look the credential up independently: newest of one
workspace and newest of all. Neither looks at its status, where the
repository's README says login "verifies an active credential".

Left out: creation (registrations are `Onboarding`'s; rows are there from the
start, any that the indexes allow), the account's `verified` and `enabled`
(`AuthSession`), whether the caller may do what it asks (`Resources`).

## Runs

| Run | Result | Question |
|---|---|---|
| `auth` | passes | can a token be accepted on rows replaced longer ago than `(TTL-1) + 2(Timeout-1)`; can an entry disagree with its row without a reason; is an account that is disabled for good denied for good |
| `auth_revoke` | violated | "all existing tokens for this session are permanently invalidated" (`auth.rs:879`): with two administrators, is a revoked version ever current again |
| `refresh` | passes | does the mark outlive its token, is a replay after the mark caught, does a dead session stay dead |
| `policy` | passes | does every stale policy entry have one of five excuses |
| `policy_roles` | violated | "every membership whose effective policy set includes the given policy" (`policy.rs:219`) |
| `policy_sets` | passes | do `evaluate` and `allows_constraint` decide by deny-overrides and default-deny, whatever the order of policies, actions and keys |
| `policy_keys` | passes | can two policies say the same although their writers had seen all rows; does an update leave what was checked |
| `onboarding` | passes | does a profile follow its last membership; does a permitted account deletion stay in the caller's workspace unless overtaken; is every registration that ends in an error undone |
| `onboarding_two` | violated | "one membership per account per workspace" (`membership.rs:255`) |
| `workspace` | passes | is a workspace complete unless its creation was cut short or its caller no system admin; is such a caller refused before it puts anything in; do roles link rows of their own workspace only; does every stale or orphaned entry have an excuse |
| `resources` | passes | for every route: is what was asked stored and shown; what does a refusal leave; what do two writers of links or of a code leave; is every refusal caused; do rows stay in their workspace (refinement of `ScopedTable`) |
| `credentials` | passes | which stored grants may disagree with their credential; does an OAuth identity survive interleaved updates; does login find the password a reset has set |

Where the code does less than its comments say, a passing run's property carries
the exception in its statement and says how far the promise reaches. For the three
promises below the promise itself is a property too, and a run of its own shows
what breaks it.

| Holds | Promised | What breaks the promise |
|---|---|---|
| `DeadSessionHasNoValidToken`, unless two bumps overlapped; `RevocationsLast`, unless an update was lost | `RevokedStaysRevoked` (`auth_revoke`) | the version is read and written by two statements without a compare: of two administrators one can write a revoked version back (`membership.rs:432`) |
| `CoherentUnlessExcused` | `UpdateReachesEveryHolder` (`policy_roles`) | the lookup asks for memberships that hold all of the roles (`policy.rs:249`) |
| the unique indexes in `Onboarding!TypeOK` | `OneMembershipPerWorkspace` (`onboarding_two`) | a list, then an insert, in different scopes (`membership.rs:263`) |

The other exceptions stand for these races and omissions of the code, which the
models contain and no property forbids:

* `LateReplayIsCaught` speaks of lookups after the mark is stored: `GET` and `SET`
  are two commands, so two requests with one token may both rotate it
  (`replay.rs:37` against `replay.rs:17-19`).
* `UniqueUnlessBlind`: policies are listed, then inserted (`policy.rs:340`).
* `ProfileFollowsMembership` excepts profiles whose memberships went with a project
  (`project.rs:287` against `membership.rs:519`).
* `DeletionStaysInWorkspace` excepts a deletion overtaken by an insert
  (`account.rs:437` against `account.rs:206`).

`NoStaleGrant` bounds how long a replaced row may still be granted on; "No tokens
carrying the old version will validate after this call" (`auth.rs:736`) holds from
that bound on, not from the call, as a hydration under way may store the old version
after the invalidation.

### Bounds

* `auth`: one request, one administrator, one role, `TTL = 1`, `Timeout = 2`,
  versions 0 and 1 (1.9 million states). A hydration and an administrative request
  are what a race needs; `Timeout = 2` lets a tick fall inside a request, so the
  bound is met exactly. The theorems cover all other sizes of the properties they
  name.
* `auth_revoke`: two administrators and versions 0 to 2, the least in which an update
  stalls while another one retires two versions.
* `refresh`: two requests, three tokens (a login and two rotations), lifetimes 2
  and 1, versions 0..2.
* `policy`: one request, two administrators, one policy with two bodies and two
  roles: the least in which one administrator overtakes another and in which
  "one of several roles" happens.
* `policy_sets`: three policies of one or two of two actions, one resource, with
  and without a constraint: an `Allow` before, between and after denials.
* `policy_keys`: two rows and a list of one, so that a list can miss the only
  other row; the same two actions in both orders, and one of them.
* `onboarding`: one account, two workspaces, two administrators, three
  memberships: a deletion overtaken by a creation and a deletion, in two
  workspaces.
* `workspace`: one request, two callers, the system workspace and two more, two
  slugs, two configurations, callers with `*:*` or `workspace:create`. Two new
  workspaces let a slug be raced for, and be taken again after a deletion in the
  middle of a creation; entries are followed for one of them (`Named`). Ids and
  slugs can be used up, so the run does not check deadlock.
* `resources`: every kind and operation; two rows, two workspaces and the system's,
  targets in each workspace and one that does not exist (1.0 million states). The
  first request has any caller, row, fields and list; the second changes the first
  row or creates one, which is what another request can do to it. A field is given
  or not, with one value for all the fields of a request, so a value of the wrong
  request is seen. Requests end, so the run does not check deadlock.
* `credentials`: four credentials, among them two passwords of one workspace, one
  of the other and an OAuth one; two requests; a clock to 3 with tokens that live 2
  (1.6 million states): a grant can expire, a lifetime can be zero, a token can be
  presented twice and too late.

Requests and administrators are interchangeable where `SYMMETRY` is used, and no
liveness property is checked in those runs.

### Fairness

`AuthSession!FairSpec` assumes only that time passes: weak fairness of `Tick`.
Nothing obliges a request to be answered, an administrator to finish, or a
client to come back. `DisabledIsDenied` follows because entries expire and the
timeout ends every hydration.

## Theorems

`AuthSession_proofs` proves, for every `Requests`, `Writers`, `Roles`, `TTL`,
`Timeout` and `MaxVer`:

* `TypeCorrect`.
* `StalenessIsBounded` and, from it, `NoGrantIsStale`. The invariant
  `StalenessBounded` follows each copy of a row through its life: in a hydration
  (`age + left <= Timeout`), in the entry (`<= TTL + Timeout - 1`), in a check
  (`<= Bound + 1`). A tick adds one to the age and takes one from what is left,
  so the sums are kept; a hand-over adds the next holder's whole lifetime. It is
  inductive together with the types.
* `DisagreementIsAccountedFor`. "No
  invalidation outstanding implies entry = row" is not inductive: one must know
  what a hydration under way holds, and that every write leaves `touched` set
  until its invalidation.
* `RevocationsLast`: with any number of administrators, a revoked version never
  comes back as long as no update writes over a row it did not read
  (`KeepsUpdates`, a hypothesis about the steps that a compare in the `UPDATE` would
  establish). Without it `RevokedStaysRevoked` is false, as `auth_revoke` shows: the
  lost update is the only way back.

`RefreshRotation_proofs` proves, for all sets of requests and tokens and all
lifetimes, `TypeCorrect`, `MarksOutliveTokens` and `LateReplaysAreCaught` (by
`TtlSuffices`: the lifetime a request computed is never below what remains of
the token), `DeadVersionsStayPast` (versions only grow unless
one of two overlapping bumps overwrites the other, which `lostUpdate` records, and a
token carries one that was current once) and, from it, `DeadSessionsStayDead`.

`Onboarding_proofs` proves, for any accounts, workspaces, administrators and
number of memberships, `TypeCorrect` (which includes the foreign keys and the
unique indexes), `RegistrationsAreUndone` (with `NotYet`: a request that has not
inserted its account has none), `ProfilesFollowMemberships` (with `DeletesOwn`:
a deletion under way names the profile of the membership it described, so
whoever removes the last one also comes to its profile) and
`DeletionsStayInWorkspace`.

`PolicySets_proofs` proves, for any texts, number of policies and of actions,
`TypeCorrect`, `TablesAreDenyOverrides` and `AnswersAreDenyOverrides`. The
loop's invariant is the property itself, said of the expansions seen so far; the
scan's says that what is left in `todo` and what has been seen make up the table.
`EvaluationsAreDefaultDeny` needs besides that different triples have different
keys (`KeysAreInjective`): the first separator of a joined text ends its first part
if that part has none. So the theorem has the hypothesis `TextsOver`, that no action
and no resource has the separator in it. `validate_resource`
(`core/services/policy.rs:146`) sees to that for resources; `validate_actions` does
not for actions, where it is up to the callers. The hypothesis is a definition about
the constants, and the texts of the run satisfy it.

`Policies_proofs` proves two things that share no state. About `PolicyCache`, for any
requests, administrators, policies, roles and contents: `TypeCorrect` and
`EntriesAreEffective`. The strengthening `CacheInv` says that a hydration that has no
excuse has read what the rows it has passed say now (`ReadsAreCurrent`), and that
an entry that differs from the effective set without an excuse has a writer under
way whose lookups, as far as they have come, will find the membership
(`ChangesArePending`): `WillFind` says for each point of the three lookups what
makes them. The links change while a lookup runs; a request that takes away the
link by which another would have found the membership owes an invalidation itself.

About `PolicyKeys`, for any ids, requests, actions and list limit:
`KeysTypeCorrect`, `KeysAreUnique` and `UpdatesAreChecked`. The strengthening is
`Knowing`: a request that is not blind knows that no other row says what it is
about to write, and that its patch merged with the row as it is now is what it
checked.

`WorkspaceLife_proofs` proves, for any callers, requests, workspaces, slugs,
configurations and permission sets, `TypeCorrect`, `WorkspacesAreProvisioned`,
`RefusalsComeFirst`, `LinksAreInside` and `EntriesAreCoherent`. The strengthening
`CreationInv` says what a workspace holds at each point of its creation
(`Staged`), that one caller at most is creating it (`OneCreator`), and that from
the insert on the request is scoped to the new workspace and gets past the
permissions only with `*:*` (`Creation`). `EntryInv` says what a request under
way holds (`Holds`) next to what an entry holds (`Coherent`).

`Resources_proofs` proves, for any kinds among the ten, workspaces, requests,
inputs, rows and targets:

| Theorem | Besides the types and history it needs |
|---|---|
| `TypeCorrect` | nothing |
| `Implements`: every step is a step of `ScopedTable` or leaves it unchanged | `Within`: a row of a table with a workspace column is in one workspace; the scope of a request is nothing before it has asked (no row is visible then) and afterwards the workspace it may work in |
| `RefusalsHaveCauses` | `Grounds`: what a request knows of its row by the steps behind it (`KnowsAll`: in its scope, inserted by itself, a row while nobody wrote), that the unique indexes hold (`Distinct`), and that links it cleared are empty unless another wrote (`Cleared`) |
| `CodesAreUnique` | `Codes`: a project request that nobody wrote beside and that has not written has, behind its check, no other row with its code (`Coded`) |
| `RefusalsLeaveTheTable` | `Fair`, `Fresh`: until a creation or update describes itself, what is described is what was written, by a caller who may |
| `AnswersAreTrue` | `Answering`: each of the four things an answer says, from the step on that makes it so |
| `ListsAreWhole` | `Lists`: a list is as it was, or there is the request that cleared it last and the set of those that filled it since, all others of them marked as mixed |

There are 47 routes and the proofs look at each once, in `RoutesAreShaped`: what a
route asks, in which scope it writes and reads (`Scoped`), what comes before what
(`Ordered`), what it checks before it writes (`Checked`) and what it does not leave
out (`Complete`). `LayersConvey` does the same for the columns of the ten kinds: a
field of a body reaches the row and the answer unless it is ignored or hidden. The
mutants of these tables make these two lemmas false. The rest never looks at a
particular route: `Moves` says that a step of the system spares a request, begins
it, halts it or lets it go on one step of its route, so that an invariant about what
is behind a request (`Passed`) has three easy cases and a hard one.

`Credentials_proofs` proves, for any credentials, inputs and bounds, `TypeCorrect`,
`IdentityIsForGood`, `GrantsAgree` and `ResetsReachLogin`. The identity needs that
an update under way on an OAuth credential has been checked against the row it will
write (its identity was the same when it was read, by induction); the agreement needs
what a request holds between its read and its store, next to what the cache holds.
The reset needs (`ResetInv`) that the credential it chose is the newest password of
all workspaces until another request writes or a workspace goes, whose new secret
is the hash of the given password once it is written; the newest of all is also the
newest of its own workspace (`NewestOfItsOwn`), which is where login looks.

The assumptions are the named `ASSUME`s of the modules: lifetimes are positive,
`MaxVer` is a number, `NoToken` is not a token, the system workspace, its slug
and the default configuration exist, permission sets consist of permissions, rows
and inputs have their types.

Every invariant and every action property of the passing runs is stated by a theorem.
Only model-checked: `DisabledIsDenied` (liveness, out of the prover's reach) and the
three runs that show a violation.

## Plan

Done: `AuthSession`, `RefreshRotation`, `PolicyCache`, `PolicySets`, `PolicyKeys`,
`Onboarding`, `Permissions`, `WorkspaceLife`, `Columns`, `Routes`, `Resources`,
`ScopedTable`, `Credentials`. Left, in this order:

1. An abstract specification of a cache with bounded staleness, implemented by
   `AuthSession` and `Credentials`.
2. Permissions and role links in the auth entry, with the lookups of
   `invalidate_memberships_for_role` and `invalidate_memberships_for_permission`.
3. The sweep over auth entries and push notifications, once something calls them.

## Not modelled, and why

* OAuth login: the state store's write is a stub, so a callback finds no state, and
  what would follow ends in `todo!()`.
* Push notifications: `push_to_workspace` is called from nowhere, and
  `push_to_client` changes no state.
* The sweep `invalidate_all_ws_autch_cache`: called from nowhere.
* One-to-many queries, `attach` and `detach`, `update_many`: no service calls them.
* Mail and object storage: I/O. The background worker is empty.
* SQL text, filter operators and pages; encoding of single values.
* Cryptography: a hash verifies its password and a token its claims.
* The development seed: only where the models start from.

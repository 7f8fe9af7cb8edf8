# A TLA+ model of kiro-rs

kiro-rs is a proxy: it takes requests of the Anthropic Messages API, converts
them, sends them to the Kiro upstream with one of a pool of credentials, and turns
the answer back into Anthropic events. This directory models its parts whose
behaviour is hard to test: those that many actors work on at once (the credential
pool, the request loop, the files, token refresh, settings, keys), and those that
must make sense of whatever arrives in whatever pieces (conversion, the
event-stream decoder, the translation of the stream). Paths are relative to the
crate (`src/kiro/...`).

## Inventory

| Component | State | Operations | What is hard |
| --- | --- | --- | --- |
| Credential table, `kiro/token_manager.rs` | `entries` (disabled, reason, deadline, two failure counters, priority, semaphore), `current_id` | six `report_*`, selection, cooldown sweep, self-healing, failover | every operation is a chain of short critical sections; reports arrive for entries that others disabled or deleted |
| Request loop, `kiro/provider.rs` and `acquire_context_with_session_and_group` | locals of each request, permits, `affinity_map` | acquire (sweep, affinity, current, select, heal, store, permit, token), send, answer handling, retries | awaits between all steps; budgets; permits; groups; concurrent changes of mode |
| Admin operations, `admin/service.rs` | balance cache, the table | disable, enable, reset, priority, concurrency, add, delete, forced refresh, balance, settings | calls read, then write, then persist, then switch, each under its own lock |
| Credentials file and restart | `credentials.json`, `stats` | `persist_credentials`, `new`, `save_stats` | snapshot and write are apart; write in place; what is temporary in memory is permanent in the file |
| Token refresh | tokens in the table, `refresh_lock` | `try_ensure_token`, `force_refresh_token_for`, `get_usage_limits_for` | whole credentials written back after an await; rotating refresh tokens |
| Live settings | mode, cooldown, affinity and cache parameters, `config.json` | setters with rollback | load-change-save without a lock |
| SSE stream, `anthropic/stream.rs` | open blocks, thinking buffer | one handler per upstream event, final events | events in any order and chunking must give a well-formed stream |
| Event-stream decoder, `kiro/parser` | buffer, state, error count | feed, decode, recover | resynchronisation on damaged frames |
| Conversion, `anthropic/converter.rs`; `context_management.rs` | none | pure functions | pairing of tool uses and results; alternation of roles |
| Cache simulation, `kiro/cache_sim.rs` | sessions with their last turn | observe, evict | expiry and capacity at the boundary; concurrent turns |
| Request log, `db/recorder.rs`, `db/writer.rs` | channel, SQLite ring | record, insert, trim | trimming at the limit; shutdown |
| Groups and API keys, `db/groups.rs`, `db/api_keys.rs`, `anthropic/middleware.rs` | SQLite tables | bind, unbind, resolve | resolved once per request |
| Handlers of the Anthropic API, `anthropic/handlers.rs` | the stream of an answer, the builder of its record | live, buffered and whole answers | the end of an answer is decided in three places and told to the client and to the log |
| Endpoints, HTTP client, machine id, signatures, admin UI | none of their own | I/O and formatting | not modelled |

What makes them correct:

* table: out of service and reason on record are the same thing; nothing serves
  at its failure threshold; what an operator, a quota or a dead token took out
  stays out under traffic; what is temporary comes back.
* request loop: every call is answered; a request stays in its group; the loop
  touches the table only through the pool's own operations.
* file: what is permanent survives a restart, what is temporary does not become
  permanent, the file can always be loaded again.
* refresh: one refresh at a time; no setting lost by a write-back; no good
  credential condemned for a spent refresh token.
* stream: the grammar of Anthropic events, no word lost, the same words whatever the
  chunks; decoder: every intact frame delivered once and in order; client and log
  agree on how an answer ended.
* conversion: roles alternate, calls and results are paired, nothing is empty that
  the upstream service refuses when empty; edits leave the question alone.
* cache simulation: a session finds what it shared with its last turn; log: bounded,
  and every answer in it; keys: what is revoked is refused, and one key remains;
  settings: the file says what the server runs with.

`PROJECT.json` lists the hazards of the code at their lines, with the properties
that cover them, or the reason why none does.

## Modules

| Module | Models |
| --- | --- |
| `CredentialEntries` | the table and its critical sections, one operator each; no concurrency |
| `CredentialLifecycle` | the abstract promise: six states of a credential and who may move it |
| `CredentialPool` | any traffic and any operators on the table; implements `CredentialLifecycle` |
| `Dispatch` | the request loop in full on the same table; implements `CredentialPool` |
| `CredentialRegistry` | which credentials exist, in memory and in the file: ids, additions, deletions, write-backs, crashes, starts |
| `ThinkingTags` | how tags are found in text: pure operators |
| `SseStream` | `StreamContext` and `SseStateManager`, one operator per upstream event; no concurrency |
| `EventStreamDecoder` | the decoder: feed, decode, recover |
| `SseGrammar` | the abstract promise: what a client may see of an answer |
| `AnswerStream` | wire, decoder, translation, the handler's stream and the client; implements `SseGrammar` |
| `PrefixCache`, `Conversation` | a client's conversation: edits, conversion, fingerprints, cache |
| `CacheSim` | the table of the cache simulation, with time and limits |
| `RequestLog` | builders, channel, writer thread, table |
| `TokenRefresh` | refreshing one credential from many sides, and its cached balance |
| `LiveConfig` | settings in memory and in `config.json` |
| `AccessKeys` | keys and groups, in the tables, in memory and in a request |
| `CredentialPool_proofs`, `Dispatch_proofs`, `CredentialRegistry_proofs` | the theorems about the module of the name |
| `Services_proofs` | those about `RequestLog`, `TokenRefresh`, `AccessKeys` and `LiveConfig` |
| `Conversation_proofs` | those about `Conversation` and `CacheSim` |
| `Scenes_proofs` | the composition in `MCServices`: each component as by itself |
| `AnswerStream_proofs` | those about `AnswerStream`, with the lemmas about `SseStream` and `EventStreamDecoder` |
| `AnswerWords_proofs` | on top of it, those about the words of an answer |
| `MCCredentialPool`, `MCDispatch`, `MCCredentialRegistry`, `MCAnswerStream`, `MCServices` | small instances |

`CredentialRegistry` stands beside `CredentialPool`, not under it: it keeps of
an entry what the file knows (id, secret, in or out) and drops counters and
priorities, which the pool has; the two share `persist_credentials`, one step
that may fail in the pool and four steps in the registry.

### State and actions against the code

`pool`, `entry`, `current` are `entries` and `current_id`. A record of `entry`
keeps `disabled`, `disabled_reason`, `failure_count`, `refresh_failure_count`,
`priority`, and of `disabled_until` whether it is absent, still pending or due:
the clock is the action `Elapse`. `success_count`, `last_used_at` and the payload
of a credential are left out, and so is the order of the `Vec`: ties between
priorities go either way. `report_success`
does not test `disabled`, and neither does the model.

`admin` says which critical section each operator's call still owes; for example
disabling reads `current_id` (`BeginDisable`), disables (`FinishDisable`), writes
the file (which may fail, `Persist`) and only then switches (`Switch`).
`picked` is a selection that `acquire_context` has made and not yet stored.
In `CredentialPool` requests are otherwise unconstrained: any report about any
credential at any time. That is more than the loop does, and it is what makes
the pool's theorems independent of the loop.

In `Dispatch` each request has its locals in `req`; `pc` is the step it takes
next, and each step is one critical section or one await. `cap` and `stray`
are the semaphores: `set_max_concurrency` and `delete_credential` leave the
holders of the old semaphore with permits that no longer count. Tool calls
(`call_mcp_with_retry`) are the requests in `Mcp`: they pass no model, session
or group, and retry a 429 as any other transient error. `EnsureToken` is the
await of `try_ensure_token` with its outcomes; a refresh writes back the whole
credential, so also the priority that was read before the await (`WriteBack`).
The order by usage counts (balanced) and by last selection (affinity) is
a choice among all credentials that it could favour, and an affinity mapping
may expire at any time.
Where the code runs two reads of unrelated state between two awaits (the mode
after the sweep, say) they are one step.

In `CredentialRegistry` the table is a set of rows (the thread that pushed a row tells equal
ones apart), the file has content, is blank, or is torn, and `call` is where each thread
(request or Admin call) is. `add_credential` is `BeginAdd` (duplicate check, then the
await), `Number` (largest id plus one), `Push` and the write-back: three critical
sections, as in the code. A write-back is `Snapshot`, `Truncate`, `Write`, or one of
the failures; where two overlap, the second may leave the tail of the first,
which no parser accepts. `Start` is `CredentialsConfig::load`, the entry that
`main` makes of `KIRO_API_KEY`, and `new` with its numbering and its own
write-back. Two variables are history: `ruling`, the latest decision to withdraw
a secret and whether it reached the file, and `slips`, whether two additions
or two write-backs have overlapped or a write has failed.

`AnswerStream` composes four parts. A text is a sequence of characters of a scaled
alphabet, in which each tag has two characters, so that a chunk may end inside of
one; the code holds back the length of a tag (before the thinking), of a tag and
two newlines (inside it) or nothing (after it), and the model as many of its
characters. `ctx` is `StreamContext` with the blocks of `SseStateManager` in it; a
method with `&mut self` is an operator on `ctx`, and its events are appended to
`ctx.out`. `decoder` and `wire` are sequences of cells, a few to a frame; a cell
says what the decoder reads when it takes the bytes there for the beginning of a
frame. `Chunk` is one turn of `unfold`: feed, decode to the first error, translate,
hand over. `flatten()` polls the next chunk only when the client has taken the
events of the last one, which is the guard `Waiting`. `way` tells `/v1/messages`
from `/cc/v1/messages`, which keeps all events until the end. `client` is the message as
the client builds it, and at the same time the state of `SseGrammar`. Two loops over
a `HashMap` of blocks close them in any order; these are the sets `at` of
`SseStream`.

The modules of `MCServices` share no state; its initial states choose the one that
plays. In `Conversation` the client says any message, regular or not, and
compacts; `Send` is `apply`, `convert_request` and `observe` in the order of
`post_messages`. Texts are pieces, visible or blank; a fingerprint counts as one
token. In `CacheSim` a request reads the time, then the lifetime, then the capacity, and
only then takes the lock (cache_sim.rs:179-182): it may come late and with limits that have
changed since. `RecentSessionsHit` therefore bounds the table by the capacity the request
loaded; one that was lowered meanwhile may be exceeded until the next request loads it.
In `RequestLog` a request's end (`Ending`) and the
kind of its answer (`Path`) decide what is recorded; the writer's three awaits are its
steps. In `TokenRefresh` a thread is a request, a balance or a forced refresh: it
looks (`Start`), waits for the lock and looks again (`Enter`), calls
(`Accept`, `Refuse`, `CallFails`), and writes back (`WriteBack`); `valid` is the
upstream's, and rotates. A deletion removes the entry (`DeleteEntry`), writes the file, and
then either removes the balance (`CleanBalance`) or, when the write has failed, returns
before it (`DeletionFails`): the balance of the deleted account stays in the cache until it
expires, and is served for the account that gets the id next. `BalanceOfLive` excepts that
account alone (`unclean`). `LiveConfig` splits each setter at every access to memory or
the file. `StartServer` takes the values of the file as `MultiTokenManager::new` does: it
lowers a floor ratio above the cap ratio (`AtStart`, token_manager.rs:710), which no setter
does, so that the server runs with one value and the file keeps another. `SettingsFollowFile`
excepts that setting, and only until it is set to another value (`clamped`). The other clamps of
`new` change nothing for values that the setters admit, and such are the values of
the file in the model. `AccessKeys` splits an operation at its check, its change, the reading
and the writing of the keys, and a request at its three lookups; the two
statements of `allowed_credential_ids_for_key` are separate steps as they are not in
one transaction. Variables that the comments call ghosts remember what a property
must except, such as operations that overlapped.

Mutations: definitions commented `Mutation of X` are wrong versions of `X`. None
is used by the specifications; each breaks one property of one run, and
`PROJECT.json` says which.

## Runs

| Run | Instance | Shows |
| --- | --- | --- |
| `credential_pool` | 2 credentials (symmetric), 1 operator, 1 selecting request, 2 priorities, threshold 2; every loadable table | `TypeOK`, `ReasonOnRecord`, `ThresholdEnforced`, `OnlyOperatorLifts`, `ImplementsLifecycle` |
| `dispatch_isolation` | 2 credentials, 2 requests (one bound to a group of one credential, and in a session), modes balanced and affinity, one permit each, 2 attempts | `DispatchTypeOK`, `GroupIsolation`, `ImplementsPool` |
| `dispatch_recovery` | 2 credentials in every loadable state, 1 request, all modes, threshold 2 | `Recovers` |
| `dispatch_live` | 1 credential with 1 permit, an API request and a tool call, 1 operator, 2 attempts | `Answered`, `ImplementsPool` |
| `opus_on_paid` | violation | a request for opus is sent on a credential without it |
| `heal_when_all_out` | violation | healing while another credential serves |
| `credential_registry` | 2 secrets, one of them from the environment, 2 threads (symmetric), ids 1..2, at most one kind of slip; every loadable first file | `RegistryTypeOK`, `UniqueIds`, `UniqueSecrets`, `WithdrawalSurvives`, `FileFollows` |
| `cooling_becomes_manual` | violation, 1 thread | `ManualIsDecided` |
| `concurrent_adds` | violation, 2 threads | `IdsUnique` |
| `answer_stream` | both ways, with and without thinking; answers of weight 5 (a frame of text counts 1, another 2, damage, a split or a delay 2 more) from 15 events: pieces of tags, reasoning with and without signature, two tools, failures | `StreamTypeOK`, `NothingSwallowed`, `WordsBeforeTools`, `SameWords`, `SameStopReason`, `DecoderKeepsIntact`, `DecoderCatchesUp`, `VerdictsAgree`, `ImplementsGrammar` |
| `quoted_tags` | violation, text only | `QuotedTagIsText` |
| `services` | six scenes, see below | `ServicesTypeOK`; `TurnsWellFormed`, `ToolsPaired`, `EditKeepsQuestion`, `HitCoversLastTurn`; `RecentSessionsHit`; `LogBounded`, `AnsweredIsLogged`; `DemandNotRefused`, `SettingSurvivesRefresh`, `BalanceOfLive`; `SettingsFollowFile`; `RevokedKeyRefused`, `NoLockout`, `StaysInGroup` |

Why these bounds: two credentials give failover, selection among equals and
between priorities, and one out while the other serves; the threshold 2 separates a
counted failure from a tripping one (in `dispatch_isolation` and `dispatch_live` the threshold is
1, so that every failure trips and the acquire loop has a round per credential).
Two requests and one permit make one of them wait, retry and report about
credentials the other has changed. The attempt budget 2 has a first, a last and an
exhausted attempt. `stray` and `cap` change only with an operator, hence in
`dispatch_live`. There is no bound on the pool and the loop beyond these constants: all
counters are bounded by the code's own limits. `MaxId` bounds the ids of the registry:
two are enough to give an id again after a deletion, to number an entry past
another, and to collide. `OneKindOfSlip` cuts behaviours in which a second kind of slip
follows a first, where most properties say nothing any more. The runs of the registry do
not check deadlock: the program does refuse to start with a torn file or with
duplicate ids.

In `answer_stream` a frame has 4 cells for the code's 16 bytes or more, the prelude 2
for 12, and 2 errors stop the decoder for 5 (`DecoderAssumption` keeps their
order: it must stop before it can have skipped a frame byte by byte); the buffer
takes a frame for each unit of weight, so the bounded answers never exceed it, and the overflow of
16 MB is a guard of the model that no run takes. Weight 5 is enough for a tag in pieces, the
newlines after it and a word, for reasoning, a tool and text in every order, or for
a damaged frame between intact ones (many damaged frames are the proofs' part). The stream
ends, hence no check for deadlock.

The scenes of `services`: conversations of up to 5 messages, a departure from
the protocol counting as 2, and two requests on each (one call, two parallel ones, repeated
and missing results, images taken or refused, two edits); two sessions, two requests at work on the cache, two prompts
of which one continues the other, times 0..2 and limits that change at any step of a
request; three requests, two at once,
a log of 1 row trimmed every 2, one fault; two threads, two accounts with the same id,
one rotation each; four settings, of which one is written even when unchanged and two are
the ratios that a start compares, every file of their values, two concurrent calls of up to three wishes, three calls and two faults in all; two keys, one group,
one credential, two operations at a time and four in all. Each scene was chosen so that
every exception a property makes is needed: without it TLC finds the overlap, the fault or
the restart it stands for. Scenes end when their bounds are used up.

Fairness: weak fairness on the steps of a request that has begun, and nothing
else. The Tokio runtime polls every ready task; each await of the loop is a
sleep, a lock held for short, or an HTTP call with a timeout. Nobody is obliged to
start a request, to operate, or to let a cooldown pass. `Recovers` is
therefore about a request that begins, and it assumes no operator meanwhile (an operator may
disable what the request would have used).

### Findings

* `OpusOnPaid`: outside the balanced mode `current_id` is reused without the test
  of `supports_opus` that both selections make (token_manager.rs:1051-1069
  against 810 and 918).
* `HealWhenAllOut`: healing is triggered by one request that selects nothing,
  for instance because its group is empty of serving credentials, and then
  forgives every tripped credential, though the comment (1077) and the log
  (1084) speak of all credentials being out.
* `ManualIsDecided`: throttling is meant not to be persisted (1593), but every
  write-back for any other reason writes `disabled` for a cooling credential too,
  and the next start takes it for a decision of the operator.
* `IdsUnique`: two overlapping additions take the same id (2151, 2174). After the next
  write-back the file is refused at start (692).

* `QuotedTagIsText`: the scan inside a thinking block releases the character before
  a tag with an earlier chunk, and then no longer sees that it was a quote
  (stream.rs:1124-1128 against 57 and the test at 1953). The mentioned tag ends the
  thinking when two newlines follow it.

Other disagreements met while modelling, without a run of their own because a property
names them as exceptions: `create_sse_stream` says that a client's
disconnection is recorded (handlers.rs:515), but the builder is dropped;
`delete_api_key` says it keeps a usable key (handlers.rs of `admin`, 301), but counts disabled
ones; `derive_conversation_id_from_messages` says that the turns of one conversation
share an id (converter.rs:305), but a first turn has one user message to hash and the
second two, so the second turn of a conversation without a session id always starts anew
(hence the condition in `HitCoversLastTurn`).

What `WordsBeforeTools` excepts is what the code does: an unfinished `<thinking>` is not
flushed before a tool (the client sees its block open), and native reasoning clears
what the scan for tags holds back. The property is about the step that shows the block, in whatever
place of a batch, so a flush behind the block's start violates it; that is its mutant.

The conditions in the properties of the registry are needed, not cautious. Without
"no overlapping write-backs", `WithdrawalSurvives` fails: the snapshot of a slow
writer is written last and brings back a spent credential at the next start, against the
comment at 1592. And the key of `KIRO_API_KEY` is entered once more at every
start (main.rs:72), next to the copy in the file, so the exception for it is
needed too.

## Proofs

For every set of credentials, requests, groups, sessions and operators, every
priority range, threshold and budget (assumptions `EntriesAssumption`:
`NoId` is no credential, priorities are naturals, the threshold is at least
1; `DispatchAssumption`: a finite set of credentials, groups are subsets of
it, tool calls are unbound):

* `TypeCorrect`, `ReasonRecorded`, `ThresholdHolds`: from the inductive
  invariant `IInv`. It adds to `TypeOK` that each entry of the table satisfies
  the two properties and that entries outside the pool are blank, so that an
  id that is added again starts clean. `TypeOK` alone is not inductive:
  a counter stays at most the threshold only because an entry that reached it
  does not serve and is not counted any further.
* `LatchedIsOperators`: each action of traffic touches entries that serve, or
  whose reason is one of the two that lift themselves.
* `PoolImplementsLifecycle`: one lemma per action maps it to a step of
  `CredentialLifecycle` or to a stutter.
* `DispatchTypeCorrect`, `GroupsIsolated`: from `DInv`, which adds to `IInv` that
  a request that was given a credential (from the choice on, so several steps before its permit)
  was given one of its group, and likewise for a selection not yet stored.
  `GroupIsolation` alone speaks of permits only and is not inductive.
* `DispatchImplementsPool`: every step of the loop is a step of the pool or leaves
  its variables alone; `DispatchKeepsThePool` then carries all theorems of the
  pool over to the loop.

* `RegistryTypeCorrect`, and from `RegistryInv`: `IdsStayUnique`, `SecretsStayUnique`,
  `WithdrawalsSurvive`, `FileIsCurrent` (`RegistryAssumption`: the key of the
  environment is one of the secrets, the starting thread is no other). The
  properties are about rows; what makes them inductive is about threads: what an
  addition has checked stays true until its push (`AddInv`), snapshots and the
  file are as unique as the table (`RowsInv`), a sole writer finds the file blank
  (`WriteInv`), pending writes repeat a withdrawal that has reached the file
  (`RulingInv`), and when the file lags behind, somebody owes a write (`LagInv`).

* `RefreshTypeCorrect`, and from `RefreshInv`: `DemandsAccepted`, `SettingsSurvive`,
  `BalancesLive` (`RefreshAssumption`: there is an account; any number of
  threads, accounts and rotations). `DemandNotRefused` is a statement about the past;
  inductive is that only one thread is past the lock (`OneHolder`), that the
  holder's answer, unless it is lost, is what the upstream service takes next
  (`AnswerValid`), that otherwise the table has the valid token (`EntryValid`), and that
  a demand's copy was made under the lock and is therefore valid too (`CallValid`). Settings
  need that a copy made after the last change has it (`CopiesChosen`), balances that
  a thread at work knows the account in the table (`WorkForLive`), for any number of
  deletions that fail to write the file.

* From `ConfigInv`: `ConfigTyped`, `SettingsAreSaved` (`ConfigAssumption`: a call asks
  for at least one setting, the two ratios are among the settings; any number of calls,
  crashes and failures). The
  property speaks of settings no call has in hand; inductive is how memory and
  file differ at each place a call can be (`Fits`), as long as it is the only one
  (`OneAtWork`), the floor ratio that a start has lowered aside (`Agree`): between load and open, for instance, the copy is what memory
  has, and while the file is filled it is empty, so a failure there leaves
  nothing to compare with.
* From `AccessInv`: `KeysTyped`, `RevokedKeysRefused`, `NeverLockedOut`,
  `RequestsStayInGroup` (`KeysAssumption`: finitely many keys, the key of
  `config.json` is one of them, 0 is no group). Inductive is that an operation
  without company is the only one (`AloneIsAlone`), that its check still holds at the
  change (`CheckHolds`; that another row remains is an argument about
  cardinality) and what it read is still the table at the write (`ReadIsCurrent`); and,
  for requests, that the present binding of the key is among those seen
  (`BindingSeen`).

* From `StreamInv`: `MessagesAreWellFormed` (every client's view of an answer follows
  `SseGrammar`), `RecordsAgreeWithClients`, `StreamTypeCorrect`; any alphabet of content, any
  frames and any way they arrive (`ContentAssumption`: content is what the upstream
  service can send; `DecoderAssumption`). Neither property is inductive, because they
  speak of the client, and the translation never looks at the client: it acts on what
  it believes about the blocks it has opened. The invariant says that what is still
  owed (the events in `ctx.out`, or those handed over and not yet taken) would, taken
  one by one, be legal at every step (`Legal`) and lead the client's view to that
  belief (`Mirrors`). Then the proof is local: each method of `StreamContext` is shown
  to append events that are legal after what is owed and to keep beliefs and places of
  blocks consistent (`Steady`), for a text of any length cut at any places. The four
  shapes of `StreamInv` (`Unbegun`, `Held`, `Live`, `Over`) are the two endpoints and the end.
* From `FramesInv`, for an answer that the decoder's buffer takes (`Roomy`; beyond it the
  code refuses a chunk and its frames are lost): `IntactFramesAreKept`,
  `DecoderRecovers`; any number of frames, any damage, any lengths of frame and prelude,
  any limit of errors. `DecoderKeepsIntact` says what must come out, but not that the next
  decoding finds it. What does is `Aligned`: in the buffer and on the wire, whatever starts like
  an intact frame, or like one damaged in its body, is there as a whole and has no intact frame
  inside, so skipping one byte, or the declared length of a damaged body, never cuts
  one. One turn then moves the first event from what is buffered to what was handed on
  (`Carrying`), and a fold of turns does so too. `DecoderCatchesUp` needs that with damage
  to bodies alone frames follow each other without a gap (`Whole`), that the errors in a row
  and the harm still to come are no more than the harm that was sent (`Fits`), and
  that `decode_iter` has more turns than the buffer has frames.
* From `ReasonsInv`: `ReasonsAreTheSame`. The translation reads the events one by one and the
  whole answer folds over them at its end; both folds are chains of single steps
  (`EventsSteps`, `StemSteps`). After each event the translation's reason and its mark of a
  tool are what the whole answer makes of the events so far (`Reported`); nothing but `OnEvent`
  touches them (`Alike`). A message that has told no reason owes none (`NoReasonYet`, from
  `Flow`), so after the last turn the only one on its way is the last turn's, and that is
  right (`ReasonRight`): a tool that was called has a block, so thinking alone has none.
* From `WordsInv`: `NothingIsSwallowed`; any alphabet of content, any
  text cut at any places, both endpoints. Letters are counted in concatenated texts
  (`Count` over `FlattenSeq`), and the count of what a client sees is a sum over its
  blocks, so the first lemmas say how the sum grows when one block does. Then each operator
  of the translation is shown to pour its letters somewhere (`Pours`): what it hands on and
  what it leaves in `thinking_buffer` has the letters of what was there and of what came,
  since tags and the blanks it strips are no letters. Owed deltas go to open
  blocks of their own type (`Takes`), so none is lost on its way (`Legal`). Together: received,
  owed and held back add up to what was said (`Settled`).
* From `ToolsInv`: `WordsPrecedeTools`; any alphabet of content, any batches, both
  endpoints. The sum in `WordsInv` does not know in which order a batch says
  things. `Due` does: wherever a list of events starts the block of a call, what the client has and
  what the events before that place say is all that was said before the call
  (`Spelt`), or thinking will be open there (`Thinks`). `Ready` says so of `ctx.out`, and `ToolsInv`
  of `pending` too. Each operator of the translation only appends, and starts
  the block of no tool but the one it handles (`Onward`), so that what was due stays due
  (`OnwardReady`); for `ToolUse` the flush before the block leaves nothing held back, and the sum
  in `WordsInv` is then all there is. Taking an event moves its letters from the list to the client,
  and the sum stays.
* From `OrderInv`: `StreamsSayTheSame`; any alphabet of content, any text cut at any places, both
  endpoints. `WordsInv` does not serve here: its counts do not know the order of letters,
  nor where the scanner of the whole answer (`Extract`) finds its tag when the
  translation sees it in pieces. This invariant says where the scan stands in the text
  that was said so far (`Along`): before the opening tag (`Seek`), in the thinking (`Muse`) or behind it
  (`Answer`). `thinking_buffer` is always the rest of that text, and the letters before it are,
  in order and each in its kind of block, with the client, owed to it or in `ctx.out`
  (`Uttered`). It needs that no tag can begin in what was released, whatever comes
  next (`Awaits`); that is what the characters held back (`Releasable`) are for, and what makes the tag that is found the
  first of the whole text (`SeekFinds`, `MuseFinds`). Between chunks the buffer
  holds none of the tags looked for (`Rested`), because the scan goes on until
  it finds no more. The client shows its blocks in the order of their places, not of their deltas,
  so the invariant also says that there is one block of text and one of thinking (`Placed`); without
  a tool call nothing closes them but the end, and there the end's own events say nothing (`Hushed`).
  The hypotheses are those in the property: no tool call, no native reasoning, no quoted tag.
* `LogTypeCorrect`, and from `LogIInv`: `LogStaysBounded`, `AnsweredStaysLogged`
  (`LogAssumption`: records are trimmed every so many inserts, at least one). The bound is not
  `MaxRecords`: rows above it are those inserted since the last trim, plus a batch for each restart
  (the count starts at 0 again) and each failed trim, plus the row whose trim is under way
  (`RowsAccounted`). That an answer is logged is inductive as `Accounted`: its record
  is on the way, with the writer, in the table or missed by a fault, or it was trimmed, and then at least
  `MaxRecords` written records are no older.
* `CacheTypeCorrect`, and from `CacheIInv`: `RecentSessionsAreHit` (`CacheAssumption`:
  finitely many sessions; any number of requests between their reads and the lock). What a
  request has read is neither of the future nor below the least limits so far (`ReadsAreSound`). The table holds of each session its last entry or
  nothing (`HoldsTheLast`), and what is gone had expired under the least lifetime, or as many
  sessions as the least capacity were seen after it (`OnlyOldOnesLeave`); the second
  is an argument about cardinalities, since eviction takes the oldest.
* `ConversationTypeCorrect`, `RequestsAreWellFormed`, `RequestsArePaired` (`ConversationAssumption`: what the client says and
  how it edits has the types of the API). The invariant (`ConversationInv`) says that a
  request is `Convert` of what its edits leave of the conversation; the work is in lemmas about
  `Convert` for every talk. Roles: the history has one turn for each streak of messages of one role,
  and two streaks in a row differ in role. Empty turns: one lemma for each step
  that can empty a turn (merging, dropping of orphaned results). Pairs: after both
  repairs the uses that are left are exactly the results that are left, by set
  algebra on `UsesIn` and `ResultsIn`.
* `EditsKeepTheQuestion`, from `OrderInv`: while no breach was counted, roles alternate, a user
  answers just the calls of the message before, and no id comes twice (`Ordered`). The
  theorem assumes `PlainUsers`: what a user says is not empty and calls no tool. An edit by
  count clears results older than those it keeps, and the last message answers no
  more than it keeps (`GoneAreOld`), so each edit of the chain leaves the question and the calls it
  answers at the end (`Poised`, `EditedPoised`). From there the current turn is a function of the
  question alone (`CurrentTurn`).
* `ConversationsAreHit`, from `HitInv`: the cache remembers of the last request the fingerprints of
  its turns. The theorem assumes `CallsDiffer`: the calls of one answer have different
  ids. A regular conversation is converted message by message, with nothing
  merged and nothing repaired (`ConvertOrdered`, `NothingToRepair`), so the turns of a longer
  one begin with those of a shorter (`ToldPrefix`), the current message among the history's.
  Both hypotheses are what the Messages API asks of its callers, and the sets of the run
  `services` satisfy both.

* `ScenesAreComponents`: every step of the composition in `MCServices` is one of a component and
  leaves the variables of the others alone, so each behaves as by itself and all of the above
  holds there; `ServicesTypeCorrect` is the conjunction of their types.

`At`, `Among` and `Collect` take elements at positions by recursion over the positions; the
lemmas about them (what they keep, in which order, how many) stand at the head of
`Conversation_proofs`, as do those about chains of edits, and of the second part of
`AnswerStream_proofs`.

Every safety and action property of the passing runs, and each refinement, is stated by one of
these theorems. Only model-checked:

* `Answered` and `Recovers`: liveness under fairness. And, of course, the five violations.

The threshold 0, which the configuration file admits, is excluded by the assumption: the first failure
trips in either case.

## Not modelled

* Numbers: token counts, usage, multipliers and caps of the cache report
  (`anthropic/usage.rs`, `token.rs`, `kiro/cache_estimate.rs`), lengths of delays.
* `anthropic/websearch.rs` beyond the fact that it records success before it
  searches; the mapping of model names and the shortening of tool names; the experimental
  switches of the converter (tools in the prefix, cache points); the prefix of the
  system prompt.
* Queries of the log, its columns, and the Admin API's HTTP layer; the files of the
  balance cache and of the statistics.
* In `TokenRefresh`, a restart: after a rotated refresh token that could not be written to the
  file the old one would be loaded. In `LiveConfig`, values in `config.json` that the setters would
  refuse, and what `new` makes of them.
* Endpoint headers, machine ids, signatures, HTTP client, admin UI: I/O and formatting
  without state.

## Plan

Done: all the modules above. What is left, in this order:

1. In `Dispatch`: a history of tries per credential, for the documented limit of
   retries per credential; the credential behind an id, for ids given again; the body of
   a streamed answer beside the permit that was released.
2. The arithmetic of the cache report: bounds of what is reported for all ratios.

# Verification of the seeding bot

The program seeds football chat rooms: it consumes a feed of match events from
Kafka, decides which of them deserve a bot message, drafts one, waits a few
seconds, publishes it over MQTT or its own WebSocket hub, and records it in
Redis and Postgres. Around that pipeline a poller sends prematch bursts, users
post and get bot replies, and an operator turns kill switches and shadow bans on
and off. These modules model the parts where order, concurrency and failure
matter; TLC checks them on small instances and TLAPS proves what matters most
for every instance.

## 1. Inventory

| Component | State it keeps | Operations | Talks to |
|---|---|---|---|
| Policy checker (`usecase/seeding/policy_checker.go`, `adapter/redis/ratelimit.go`, `dedup.go`, `kill_switch.go`) | none of its own; Redis `event:*`, `ratelimit:*`, `killswitch:*`, `match:chat:*` | `CheckPolicy` | Redis, one command at a time |
| Event handler (`usecase/seeding/event_handler.go`) | position in a partition, offsets | `ConsumeClaim`, `handleEvent` | policy, match state, drafting, publisher, chat history, Postgres |
| Kafka consumer and feed mapping (`adapter/kafka`) | the group's offsets | `RegisterHandlerAndConsumeMessage`, `MapBytesToEventsBundle` | event handler |
| Shadow ban (`usecase/safety/shadow_ban.go`) | Redis `shadowban:*` | `Set`, `IsShadowed` | event handler, admin |
| Admin endpoints (`transport/http/handler/admin.go`) | none | set and read kill switch and shadow ban | the two services |
| User messages and bot replies (`app/app.go`, `usecase/seeding/bot_reply.go`, `intent_detector.go`) | one goroutine per reply; Redis `cooldown:persona:*_reply` | user message handler, `GenerateReply`, `AnalyzeIntent` | publisher, chat history, counters, LLM |
| Prematch (`worker/prematch_poller.go`, `usecase/seeding/prematch_handler.go`) | Redis `bot:prematch:sent:*` | `poll`, `Handle` | match state, drafting, publisher |
| WebSocket hub (`transport/http/handler/websocket.go`) | clients and their rooms, replay buffer, broadcast channel | register, replay, read pump, `queueBroadcast`, `handleBroadcast` | publisher, user message handler |
| Match state and context (`adapter/redis/context_store.go`, `context_builder.go`, `room_manager.go`) | Redis match state, recent events, chat window, room mapping | `SetMatchState`, `PushEvent`, `PushChatMessage`, `BuildBundle` | handlers |
| Persona selection (`persona_selector.go`, `adapter/redis/persona_state.go`) | Redis cooldown and last persona of a room | `SelectPersona`, `SelectPersonaAllowReuse` | handlers |
| Quality filter (`quality_filter.go`, `adapter/redis/quality_state.go`) | Redis hashes of recent drafts | `Check` | event handler |
| Auto scaling (`adapter/redis/autoscaler.go`, `worker/scaler_worker.go`) | Redis `room:online:*` (read) | `GetBotConfig` | event handler |
| LLM client (`adapter/vllm`) | a semaphore | `Complete`, `acquire`, `release` | generator, replies |
| Message generation, templates, Postgres, metrics | templates cached in memory | load, render, save | handlers |

What is hard, and what makes each part correct:

* **Policy.** Claims of several partitions run `CheckPolicy` at once on the same
  keys, and nearly every decision is a read followed by a later write. An event
  may pass dedup once; limits may be exceeded by the racing claims at most; quota
  is spent only by events that won their dedup key; a counter does not stay
  without an expiry; a kill switch that is on stops what starts after it.
* **Pipeline.** Kafka redelivers after a crash, the feed repeats itself, a
  publish may fail with the message delivered. An event leads to at most one
  message; no offset is committed before its events were handled; switches that
  go on while messages wait out their delay let only those through; the cap, the
  warm-up burst and the ledgers hold up to the messages in flight.
* **Prematch.** The sent marker comes after a burst of five messages and ten-second
  pauses; polls can overlap it, a restart can cut it, a fallen-out chat list makes
  the marker look stale.
* **Hub.** A client is registered before the replay, the replay buffer is fed
  before the broadcast channel, the channel drops, a dead client is removed by two
  goroutines.
* **Drafting.** Match state and quality hashes are check-then-act on Redis by
  several claims and the prematch goroutine. What is said fits the event it is
  said about unless somebody wrote in between; a text repeats at most once per
  claim.
* **Casting.** The cooldown and the last speaker are read while the cast is gone
  through and written after the pick. Choosers may overrun both once each; nobody
  waits for a persona.
* **Replies and LLM.** Replies judge the room by a window read up to two LLM calls
  earlier; LLM slots are held across retries, the cooldown key is set before a
  generation that may run out of time. What a reply saw holds it back; no persona
  answers twice at once; no slot leaks; a persona that was claimed speaks.

The hazards, each at its line, are in `PROJECT.json`.

## 2. Plan

Order of work, the most important behaviour first:

| Module | What it is | State |
|---|---|---|
| `PolicyGate` | the policy check, command by command | written, proved about |
| `SeedOnce` | abstract: one message per ticket | written, proved about |
| `EventPipeline` | EXTENDS `PolicyGate`; the consumer and event handler; implements `SeedOnce` | written, proved about, the refinement included |
| `WsHub` | the hub's goroutines, lock and channels | written, proved about |
| `Prematch` | poller, bursts, sent marker, clock | written, proved about |
| `Casting` | who speaks: the persona selector over its Redis keys | written, proved about |
| `Drafting` | what is said: match state, bundle, template, text hashes | written, proved about |
| `Replies` | bot replies in flight, their throttle and cooldown, and the LLM limiter they share | written, proved about |
| `SeedingRules` | ended matches in the feed mapping, weighting, each against a reference definition over all small inputs | left: sequential code that the unit tests reach |

Abstract specifications: `SeedOnce` is the promise of dedup, and `EventPipeline`
is checked against it by a refinement mapping. A "one burst per match" promise for
`Prematch` would say what `OneBurstEach` says.

Each module's theorems are in the module `<name>_proofs`. Every safety invariant
that a run expects to hold is a theorem now. What the proofs do not reach is named
at the end of section 6.

## 3. The modules and the code

### PolicyGate

`CheckPolicy` of several Kafka claims over one Redis. `gpc[c]` is the command
claim `c` will send next; the pure checks before the first command (event data,
type, weighting) are part of the step that begins the check (`Admit`, `Refuse`).
The steps follow the code:

| Code | Actions |
|---|---|
| `IsKilled` for the league, then for the match, each with the global key first | `ReadKillKey`, `ReadKillKeyFails` (fails open: `KillCallFailed` goes on with the next call) |
| `IsDuplicateEvent`: one SETNX | `SetDedupKey`, `SetDedupKeyFails` (the key may be set or not) |
| `CheckEventTypeLimit`, `CheckHourlyEventLimit`: GET, compare, INCR, EXPIRE on a first increment | `ReadTypeCounter`, `ReadHourCounter`, `ReadCounterFails`, `IncrementCounter`, `ExpireCounter` and their failures |
| `CheckMatchLimit`: GET and compare only | `ReadTotalCounter` |
| the projected bot ratio over the last chat messages | `CheckBotRatio`, `CheckBotRatioFails` |

The environment: admins (`SetKillSwitch`), Redis expiry (`DedupKeyExpires`,
`CounterExpires`), the clock (`NextHour`), other traffic in the chat
(`OthersPost`) and a crash of the process that ends every claim's check
(`Crash`). Variables under "history" are read by properties only. An event is a
record with the fields the policy looks at; one record stands for one dedup
signature, so two deliveries of it are the same element. The random weighting
is a free choice for the types of weight less than one.

### EventPipeline

EXTENDS `PolicyGate` and replaces its free arrivals by what the consumer really
hands over. A claim walks its partition (`Log`): `ParseMessage` or `SkipGarbage`,
then event by event `BeginEvent`, the gate's own steps (`Policy`), `Verdict`,
`Prepare` (everything from the match state to the quality filter and the delay,
which ends in a draft or in giving up), the shadow-ban reads, `Publish`, and the
three writes in the order of the branch taken: published messages go to the chat
list, the counter and the database, shadowed ones leave the publish out. `FinishMessage`
and `MarkMessage` end a message, `AutoCommit` is sarama's timer, `Restart` begins
again from the committed offsets. `PublishLost` is a publish that reports success
and reaches nobody (an MQTT timeout of 5 s, a full hub channel), `PublishFails`
one that reports an error, delivered or not. `Prepare` is one step with two
outcomes here; modules `Drafting` and `Casting` take it apart. `blind` is history:
look-ups of a switch that failed while it was on, each of which may let one more
message through. `SetKill` and `SetShadowBan` are the admin's.

Three others write the chat list, the counter and the table that the pipeline
reads and writes, and each has its own choice of the three:

| Code | Actions | list | counter | table |
|---|---|---|---|---|
| the user-message handler (`app.go:184-234`) | `UserMessage` | yes | yes | yes |
| the reply goroutine it starts (`app.go:236-302`), which may say nothing | `NoReply`, or `Reply` and then `RecordReply` | yes | yes | yes |
| a prematch burst (`prematch_handler.go:151-198`) | `PrematchPost` | yes | no | yes |

`Record` is the row and the counter of the first two: the error of either is
dropped and the other is still written. `RoomStep` gathers these actions,
`Restart` forgets the replies under way (`ForgetReplies`), `rows` counts the rows
of all three. What happens inside a reply and a burst is left to `Replies` and
`Prematch`.

### SeedOnce

A ticket per event: `Take`, `Waste` (the SETNX took effect and its answer was
lost), `Send`, `Drop`, `Die`, `Lapse`. In `EventPipeline` the dedup keys are the
tickets taken, and a claim holds one from its SETNX to the message it sends
(`Holder`).

### WsHub

Each connection has a handler goroutine (`Register`, `CopyBuffer`, the replay and
later the pings as `HandlerWrites` and `HandlerWritten`, `StartPumps`) and a read
pump (`Subscribe`, `ReadFails`); each post a sender (`BufferPost`, `QueuePost`);
there is one broadcaster (`TakePost`, `HubWrites`, `HubWritten`, `EndRound`,
`RemoveDead`). The replay takes a copy of the whole buffer and goes through it:
`SkipBuffered` passes over a message of another room, which changes nothing for
anybody else. `clientsLock` is held for reading through a broadcast round and
for writing within one action only, so it is the predicate `LockFree`. A write
has a begin and an end, because the code writes to one connection from two
goroutines without a lock of its own; gorilla/websocket answers that with a
panic, which the router recovers in a handler and nobody in the broadcaster
(`Clash`, after which `down` stops the model). `arrival`, `owed` and `due` are
history, and are kept apart from the order in which the code does things: a post
comes (`Comes`) when its sender begins, and is then due to every client of its
room that has begun to join, in the map or not; a client that has ended the last
step of its joining (`Joined`) is owed the latest posts of its room, whatever it
copied. Sending a post clears it, and nothing else does. `Join` holds the order of
the two steps of joining, and its mutant turns it round.

### Prematch

The poller (`StartPoll`, `ReadMarker`, `ReadChat`, `ReadFails`) starts a goroutine
per match (`Begin`), whose steps are `Lookup`, then for each message
`CheckKickoff`, `Draft`, `Publish`, `PushMessage`, `EndPause`, and `MarkSent` at
the end. `Tick` lets time pass between any two steps and feeds the ticker, whose
channel holds one tick. `MinutesToKickoff` is Go's conversion to `int`, which
truncates. `OthersPost` is anything else that writes the room's chat, `Restart` a
stop that waits for no goroutine.

### Casting

`SelectPersona` of several goroutines over the cooldown keys of the personas
(`resting`) and the last-speaker key of a match (`lastPersona`); one action per
Redis command.

| Code | Actions |
|---|---|
| GET of the last speaker | `GetLastPersona`; without anybody eligible straight to the fallback |
| for each eligible persona, in the order of personas.yaml, is it on cooldown | `IsOnCoolDown`; `seat` is the place in the cast |
| `PickWeightedRandom`, SET of the cooldown, whose error is dropped | `SetCoolDown` |
| SET of the last speaker | `SaveLastPersona` |
| `findFallbackPersona`, which sets no key | `FallbackFound`, `FallbackMissed` |
| `SelectPersonaAllowReuse`, which asks nothing of Redis | `SelectPersonaAllowReuse` |

A chooser whose selection failed reuses a persona if it is a claim or a burst, and
gives up if it is a reply (`Failed`). `NextItem` brings it back with its next
event. `CooldownLapses` is Redis. All scores are positive, so that the weighted
draw may fall on any candidate and is left free. `picks` and `streak` are history.

### Drafting

What lies between the policy and the publisher in `handleEvent` and in the
prematch handler, with one match's keys shared by all claims and bursts: the hash
`match:state` (`state`), the head of the list of recent events (`newest`) and the
hashes of texts (`hashes`).

| Code | Actions |
|---|---|
| `updateMatchState`, or the burst's `SetMatchState` | `WriteState` |
| `PushEvent` | `PushEvent` |
| `BuildBundle`, first read: the match state, over which a burst puts its phase and minute | `GetMatchState` with `StateFor`; `BuildBundleFails` (a claim goes on with its event alone, a burst skips the message) |
| `BuildBundle`, second read: the recent events, whose error is dropped; a claim puts its own event over them | `GetRecentEvents` with `EventFor` |
| no persona | `NobodyFound` (who is found is left open: `Casting`) |
| the scale check, claims only | `ScaleAllows`, `SkipForScale`, `MaxBots` |
| `GetMatchingTemplates`, the pick, the rendering; the LLM; the generic text | `GenerateMessage` over `Matches`, `Best`, `TemplateDrafts`, `LLMDrafts`, `GenericDraft` |
| `QualityFilter.Check` | `RejectDraft`, `IsMessageDuplicated`, `SaveMessageHash` |
| the burst's publish | `Send` |

A text is known by what survives `normalizeMessageForHash`: its wording, the player
it names, and whether the teams stand before it. `passes` and `disturbed` are
history: how often each text passed in this life of its hash, and the claims whose
own state was not the one they read, because somebody wrote after them or a command
of theirs failed.

### Replies

One goroutine per user message (`UserMessage` starts it), over the room's chat
window, the reply cooldown keys and the limiter of the LLM client.

| Code | Actions |
|---|---|
| `Complete`: `acquire`, the retries, `release` | `Acquire`, `Retry`, and `Answered` or `Errored` inside the step that uses the answer |
| `BuildBundle` with its sentiment call, which has no deadline | `BuildBundle`, `SentimentKnown` |
| `shouldAttemptReply` | `ShouldAttemptReply` |
| the intent call, its heuristic, `shouldThrottleReply` | `AnalyzeIntent` |
| `SelectPersona` | `SelectPersona` (module `Casting`) |
| `CheckPersonaCooldown`, one SETNX | `ClaimPersona`, `PersonaRefused` |
| the generation, once more when empty, and the quick reply | `Generate`, `QuickFallbackReply` |
| timestamp and publish; chat history | `Publish`, `PushChatMessage` |

The limiter is a Go channel: whoever blocks on it is served first come, first
served, so a release hands its token to the head of `queue`. Ages of bot messages
are classes cut at the ages the code compares with: below 6, 15 and 20 s, and
older. `DeadlinePasses` ends the 8 s that run from the gate on, at any step that
looks at them. `KeyLapses` may not come before the reply is twenty seconds old: the
shortest cooldown in personas.yaml is 40 s, and the reply is out 8 s after its key
was set. The row and the counter that the goroutine writes last are `RecordReply` of
`EventPipeline`.

## 4. The runs

| Run | Instance | What it shows |
|---|---|---|
| `seed_once` | 3 claims, 2 events, a ticket issued up to twice | the promise is consistent and its invariant inductive in the small |
| `gate_race` | 2 symmetric claims, 2 yellow cards (limit 1), hourly limit 1, one failed command, one lapse of each key, one turn of the hour, crashes at any time; 1.65 million states | `LimitOvershoot`, `OneGrantPerKey`, `QuotaBacked`, `CountersLapse` |
| `gate_kill` | 1 claim, one event for each branch of the entry checks, all three kinds of switch operated at will, one failed command, one foreign message | `KillSwitchHolds`, and `ChecksEnd` under fairness |
| `redelivery` | a goal in both of 2 partitions, in one behind an event that is never seeded, in the other behind a message that does not parse; a turn of the hour, a crash, and one failed command, look-up, publish or write; 171 thousand states | `SeededOncePerKey`, `HandledBeforeCommitted`, the refinement `PromiseKept`, and under fairness `LogDrains` |
| `switches` | 3 events in 2 partitions, global kill switch and shadow ban operated at will, a cap of one bot message, one failed look-up of either switch or lost count; 392 thousand states | `KillSwitchGrace`, `ShadowBanGrace`, `BotMessageCap` |
| `quiet_night` | 5 events (goals, a penalty, a red card), a user who may get a reply, 2 messages of a prematch burst, no failure; 652 thousand states | `WarmUpBurst`, `LedgersAgree` |
| `hub` | 2 connections, one for each of 2 rooms, a post in each, buffer and channel of one; 174 thousand states (the request for all rooms, `AllRooms`, is left to the proof) | `NoGapOnJoin`, `PostsServed`, `GoneClientsLeave` |
| `prematch` | 1 match, polls every 2 half-minute ticks, bursts of 2, 2 failures, 1 restart, the clock running past the kickoff; 634 thousand states | `OneBurstEach`, `KickoffTail`, `HeardAfterFaults` |
| `prematch_kickoff` | the same without failures | the finding below |
| `casting` | a claim with three events, one of which nobody comments on, and a reply with two; a cast of two, 2 failed commands, 2 lapsed keys; 93 thousand states | `PersonaRests`, `SpeakersRotate`, `ChoicesEnd` |
| `drafting` | 2 claims and the end of a burst around the kickoff, one persona, 3 templates, one failed command, one lapsed hash; 558 thousand states | `DraftFitsEvent`, `TextRepeats` |
| `replies` | a question and a sad topical message at once, one post of another bot, 2 personas, one LLM slot, 2 requests a call, a window of 2, one failed command; 439 thousand states | `SlotsAccounted`, `FreshRepliesOverlap`, `PersonaAnswersOnce`, `ClaimedPersonaSpeaks`, `RepliesEnd` |

**Why these bounds.** Two claims suffice for every read-then-write race of the
gate, since its properties allow one excess per other claim and the third event
would be refused in both; the theorems then cover any number of claims. One
failure, one crash and one lapse of each key combine with every step and with
one another. The chat window of one message in the gate runs makes the trim
happen; the pipeline runs have one long enough to lose nothing, so that the
burst can be counted. The feed of `redelivery` has the event in another
partition and in a redelivery after the crash, which may come before or after it was
handled; the
message that does not parse stands before the copy in the second partition, so that
nothing behind it is reached unless it is passed over. In `quiet_night` one user and
one reply bring two counts and two rows that the handler knows nothing of, and a
burst of two leaves room for one bot message of the warm-up and for the claims that
race for it; nothing fails there, because `LedgersAgree` asks for that. The failures
of users' messages, replies and bursts are in no run; the theorems cover them.
The hub's buffer and channel of one overflow with two posts. The prematch window
holds three polls, enough for a burst, a poll that meets it, and one after it;
half-minute ticks put two instants into the minute after the kickoff. The two
failures are exactly enough to lose all messages of a burst, so that the marker
is set over a silent room. In `switches` a lost count stands for a crash between
publish and count, which the cap sees in the same way. Two choosers overrun each
other in `casting` at every step of the scan, and with a cast of two the fallback
and the reuse come at once; the two failures combine with the two lapses. In
`drafting` the two claims hold goals of one player, so that their texts can meet,
one minute and one lead apart, so that their templates differ. In `replies` one
slot makes the second caller wait, a window of two lets one post and one message
push another post out of sight, and two personas let goroutines choose alike or
not. The theorems about these three modules then cover any number of goroutines,
personas, templates, slots and failures.

**Deadlock** is checked where the system runs for ever: `seed_once`, `gate_race`
and `gate_kill`. The pipeline stops when its log is committed, the hub when its
posts are served and its clients are gone or the process panicked, prematch at
the end of the clock, casting, drafting and replies when their work is done: these
say CHECK_DEADLOCK FALSE, and `LogDrains`, `PostsServed`, `GoneClientsLeave`,
`HeardAfterFaults`, `ChoicesEnd` and `RepliesEnd` say what they must have reached
by then.

**Fairness.** `GateFairSpec` and `FairSpec` are weakly fair to each claim's next
step: it is a goroutine that runs straight through, every Redis call has a
timeout and returns, and no step waits for another claim. `FairSpec` adds the
auto-commit timer. Nothing is assumed of faults, admins, users, crashes or
expiries. `WsHub` is fair to senders that have buffered, the broadcaster, a
handler that has registered (up to the end of its replay) and a read pump whose
connection is gone: `writeWait` and `pongWait` end every blocked write and read,
and Go's RWMutex lets a waiting writer in before later readers. Nobody has to
connect, ping, post or leave. `Prematch` is fair to the poller and the
goroutines, not to the clock: `HeardAfterFaults` may not be met by waiting for
the kickoff. `Casting` is fair to each chooser, which runs straight through.
`Replies` is fair to each goroutine's next step: a request ends, at the latest with
the timeout of the HTTP client, and who waits for a slot waits for requests only.
Nothing is assumed of users, of other posts, of the deadline or of time.

## 5. A finding

`prematch_kickoff` refutes `StopsAtKickoff`. The handler ends its burst when
`minutesToKickoff < 0` and logs `stop burst early (kickoff passed)`
(`src/internal/usecase/seeding/prematch_handler.go:99`), but
`int(time.Until(kickoffAt).Minutes())` (line 98) truncates towards zero: for 59
seconds after the kickoff it is 0, and messages are still begun, with the text
`Sap den gio bong lan!` ("it is about to roll", line 224). The run's trace waits
until a tick after the kickoff and begins a message. `KickoffTail` says what
does hold: from a full minute on at most the message under way goes out.

## 6. What is proved

Every safety invariant that the runs expect to hold, and the refinement, is a theorem for all constants that satisfy the
modules' assumptions. These are: `None` (and `Garbage`) outside the sets of values;
claims, choosers, drafters, goroutines and the slots of bursts finite, the claims
not empty; events of known matches and types; work, logs and casts that are
sequences over their sets; limits, intervals and the burst size positive; kickoffs
and all bounds naturals. Nothing is assumed of how large any of them is, so a
theorem also covers the runs' bounds on failures, crashes and lapses at any value.
Each proof shows Init => IInv, IInv /\ [Next]_vars => IInv' with one step per
action, and IInv => Inv; IInv always includes the type invariant.

**`SeedOnce_proofs`** (the promise). `Typing`; `TicketsBounded` (`TicketBound`) and
from it `SendsAtMostOnce` (`AtMostOnce`). AtMostOnce alone is not inductive: a claim
could hold a second ticket. `TicketBound` adds the tickets held to those used and
bounds both by the lapses and the ticket that is out; its proof counts the holders
of an event as a finite set that changes by one claim.

**`PolicyGate_proofs`**.
- `GateTyping` (`TypeOK`), which includes that a claim inside a check has an event
  and an hour; every other proof needs it.
- `GrantedOnce` (`OneGrantPerKey`) by `GrantBound`: wins are bounded by lapses and
  the key that is live.
- `KillSwitchStops` (`KillSwitchHolds`) by `ArmedUnread`: a scope that has been on
  since the check began, and is still armed, is one whose read is still to come;
  after the last read there is none. `armed` loses the scopes whose read failed,
  which is where failing open enters.
- `OvershootBounded` (`LimitOvershoot`) by `PendingBound`: a counter plus the claims
  that have read it below its limit and not raised it. A read adds a claim to that
  set, at a value below the limit; an increment takes it out as it adds one; so the
  sum never passes the limit by more than the other claims.
- `CountersExpire` (`CountersLapse`) by `Lapsing`: a counter without an expiry has a
  claim that is about to send its EXPIRE, or lost it to a failure or a crash.
- `QuotaIsBacked` (`QuotaBacked`) by `Covered`: what is spent of a quota and the
  claims on their way to spend it, together, are no more than the keys won.

**`EventPipeline_proofs`** reduces the pipeline's actions to a few kinds of moves
before it proves anything of them.
- `PipelineTyping` (`PipelineTypeOK`) and `CommitsFollowHandling`
  (`HandledBeforeCommitted`): a claim's place changes by one of seven moves (`Moves`),
  and by `HandledSoFar` every event before the place is handled. What a crash throws
  away is the place, never what was handled.
- `PipelineKeepsPromise` (`PromiseKept`): initial states map to initial states, and
  by `TicketMoves` every step takes, wastes, spends, loses or lapses a ticket, or
  changes nothing that `SeedOnce` sees. The mapping is instantiated twice, for
  messages published and for messages posted. `SeedsOncePerKey`
  (`SeededOncePerKey`) is then `SendsAtMostOnce` of the promise, carried over both.
- `KillSwitchBites` (`KillSwitchGrace`) and `ShadowBanBites` (`ShadowBanGrace`): the
  messages since the switch went on plus the claims past their look-up of it
  (`PastKill`, `PastShadow`) never exceed the claims and the failed look-ups.
  Nobody gets past a look-up of a switch that is on, except by a failure.
- `WarmUpBounded` (`WarmUpBurst`) by `QuietRoom`: bot messages in the window plus the
  claims cleared to post (`Cleared`). A claim is cleared only while the window
  holds fewer than three bots, whoever posted them, or by a read that failed. The
  burst asks nobody, so each of its messages may come on top: `Slack` is what the
  failures and the burst have added, and the sum moves with it (`SlackMoves`). As
  long as no user has spoken there is no reply either.
- `BotMessagesCapped` (`BotMessageCap`) and `BooksBalance` (`LedgersAgree`) by one
  invariant, `Ledgers`, which keeps a ledger for each match. The messages posted are
  at most the cap for each earlier life of the counter, what it counts in this one,
  those of claims between post and count (`Uncounted`), and those never counted;
  posts and the claims past their read of the total (`Heading`) together stay below
  the cap of all lives, since such a read found room. As long as nothing has failed,
  rows and posts differ by the claims that have still to write one (`Unsaved`), and
  counter and posts by those of `Uncounted`. The others are kept in the same books:
  they have counted what they posted but for the replies under way (`Ticks`), and have
  a row for that and for each message of the bursts (`OthersRows`). The messages of a match are the set
  `MessagesOf`, and a step that adds one to the count of an event adds one element to
  it (`MessageAdded`), so that no sum over events has to be reasoned about.
- `PipelineRunsGate`: by `GateInPipeline` every step of the pipeline is a step of
  `PolicyGate` or leaves the gate's variables alone, where the handlers' own posts
  and counts take the place of other traffic (`OthersPost`). The step lemmas of
  `PolicyGate_proofs` are about `OpenNext`, the gate under any amount of that traffic
  (`MaxTraffic` only bounds what the runs explore), so its theorems hold of the whole
  pipeline: `PipelineGrantsOnce`, `PipelineHoldsSwitches`, `PipelineOvershootBounded`,
  `PipelineCountersExpire`, `PipelineQuotaIsBacked`.

**`Casting_proofs`**. `CastingTyping` (`CastingTypeOK`); `RestBounded`
(`PersonaRests`) by `Rests`: the picks of a cooldown and the choosers that still hold
the persona among their candidates; `RotationBounded` (`SpeakersRotate`) by
`Rotation`: the streak and the choosers that read another last speaker (`Behind`).

**`Drafting_proofs`**. `DraftingTyping` (`DraftingTypeOK`); `DraftsFit`
(`DraftFitsEvent`) by `Fits`: between its write and its read an undisturbed claim
finds the state it wrote, and from then on its bundle has it; `RepeatsBounded`
(`TextRepeats`) by `Repeats`: the passes of a text and the claims that are past its
look-up (`Storers`) never exceed the claims and the failures.

**`Replies_proofs`**. `SlotsKept` (`SlotsAccounted`) by `Queued`: the queue has nobody
twice and exactly those who wait, so that a token handed on is the one a release
gave back; `RepliesTyping` (`TypeOK`); `AnswersOnce` (`PersonaAnswersOnce`) by
`Claimed`: whoever is past the claim, or spoke within the last twenty seconds, has
a persona whose key is set and nobody else's; `ClaimsSpeak`
(`ClaimedPersonaSpeaks`) by `Spoken`; `FreshHeldBack` (`FreshRepliesOverlap`) by
`Warned`: who is past the throttle has nothing fresh in its window, the window
never changes, and posts only age.

**`Prematch_proofs`**. `PrematchTyping` (`TypeOK`); `BurstsStopAtKickoff`
(`KickoffTail`) by `Tails`: once a burst published late it is past its draft, and
from a minute after the kickoff on the truncated minutes are negative, so that no
check lets another message through; `BurstsOnce` (`OneBurstEach`) by `Budgets`. That
one has three parts for each match: the messages published and those its bursts
may still publish (`Due`) fit the bound; without a burst at work and without the
marker one burst less has been used; and in a silent room every message published
has been charged to a failure, a restart or an overlap, except those between
publish and push. The third is what allows the poller to take the marker for
stale.

**`WsHub_proofs`**. `HubTyping` (`TypeOK`) by `HubTyped`: a handler that is inside a
write is replaying something, pinging or has just been told to end, and the
broadcaster remembers dead clients only within a round. The part of `TypeOK` that
takes the lock is that nobody leaves the map while a round has still to write to
it. `NothingMissedOnJoin` (`NoGapOnJoin`) by `DebtsArePaid`: a post that a client is
owed is in the part of the buffer's copy that it has still to be sent, unless a
write clash broke the replay off (`InReplay`); a post that is due to it has still to
be queued, is in the channel or in the round that has still to reach the client, or
was dropped (`OnItsWay`). `owed` begins full, with all the latest posts of the room:
that they are in the copy needs `BufferIsLatest`, the buffer is what `arrival` says
should be in it when it is copied. `due` begins before the client is in the map:
that a round which takes the post later writes to it needs that who has begun to join
and is connected is in the map, subscribed to the room it asked for, which is where
the order of the two steps of joining enters; and that a post is buffered before it is
queued is what makes it due, or owed, in time. At rest, with the handler past its
replay, there is no place left for a post to be but among the dropped.

TLC checks `TicketBound` in a run; `GrantBound`, `ArmedUnread` and `PendingBound`
were model-checked on the instance of `gate_race`, and `HubTyped`, `DebtsArePaid` and
`BufferIsLatest` on that of `hub`, before they were proved.

**Only model-checked**: the finding, and what is out of the prover's reach, which is
liveness under fairness (`ChecksEnd`, `LogDrains`, `PostsServed`,
`GoneClientsLeave`, `HeardAfterFaults`, `ChoicesEnd`, `RepliesEnd`) and ENABLED.
Induction over data and RECURSIVE operators would be too; no module needs one.

## 7. What is left out

* `Prepare` stands for match state, scale, persona, generation, quality filter and
  delay in one step with two outcomes; `Drafting` and `Casting` take it apart but
  are not composed with the pipeline: they share no key with it.
* A rebalance that leaves an old claim running beside its successor. A crash with
  redelivery covers the repeated work, not the overlap.
* `PrematchHandler` and the pipeline are separate modules; they meet in the chat
  list and the table of messages only. A burst's posts are `PrematchPost` in
  `EventPipeline`, any number of them at any time, and everybody else's posts
  `OthersPost` in `Prematch`. Prematch messages are not counted by the match
  counter and not subject to kill switch and shadow ban in the code either.
* A user's message is one step, where the code writes list, row and counter one after
  the other, and so are the row and the counter of a reply, and the list and the row
  of a burst's message. A claim that reads between two of these writes sees what it
  would have seen before or after the step, for it reads one of them at a time.
  A crash does not fall between two of these writes either; that the books then
  disagree is excepted from `LedgersAgree` with all crashes. Rooms are one per
  match, as the room manager makes them, and not those a client may name.
* What the match counter counts. `ratelimit.go:97` calls it the counter of the match's
  bot messages, and `CheckMatchLimit` compares it with `MaxMessagesBot`; but the
  user-message handler raises it too (`app.go:234`), and a prematch burst does not. The
  model does what the code does, and `LedgersAgree` says so in numbers: a count for
  each message of the events, the users and the replies. `BotMessageCap` is an upper
  bound, which the users' counts only make hold sooner.
* Commands that the client repeats. go-redis repeats a command that timed out, three
  times by default, and nothing sets `MaxRetries`. A command that failed was applied
  once or not at all in the models, and its error reached the caller. An INCR that was
  applied twice would leave a counter higher by one than what passed under it, so that
  the bound of `LimitOvershoot` would grow by one for each repetition; and if it was
  the first one, the caller would be told 2 and send no EXPIRE, which is one more way
  to the counter without an expiry that `CountersLapse` knows from failures. A
  repeated SETNX finds its own key and loses the event, as `Waste` does.
* What the scale check counts. `event_handler.go:270-271` says it compares the
  bots in the room, counted in Redis, with their maximum; `GetBotConfig` and
  `GetBotCount` both take the cardinality of `room:online:<room>`, which
  `autoscaler.go:20` calls the number of users, and nothing in the source writes
  that key. `Drafting` models what the code does: a room with three members
  online or more is not seeded, in any tier. Which of the two was meant cannot be
  told from the repository, so no run calls it wrong.
* Prompts, the parsing and repair of the LLM's output and its rules of safety: any
  outcome they can have is a free choice. The keywords of the heuristics are the
  sets `Asks`, `Topical` and `Sad`.
* The six-hour expiry of a chat list and the legacy list `conv:window:*`, the
  two-hour expiry of the prematch marker (longer than the window it guards).
* The logs of the hub read `len(clients)` without the lock; the value is only
  printed.
* Parsing of the feed, wording, templates, SQL, HTTP decoding, metrics; code that
  nothing constructs (MQTT consumer bridge, worker pools, stubs). The circuit breaker
  around the WebSocket publisher is constructed, but its `Execute` only calls through:
  it has no state to model.

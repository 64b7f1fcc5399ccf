# A formal model of Galactic Soup's engine

Galactic Soup is a single-player game whose engine runs in a worker: it owns the campaign, answers
requests one at a time, advances a deterministic simulation in quanta of time, and keeps snapshots of
the campaign in the browser's storage. These TLA+ modules model the parts of the engine and of its
client in which the order of events decides correctness. TLC checks them on small instances; TLAPS proves the theorems for
every value of the constants.

`PROJECT.json` lists the components, runs, mutants, hazards, findings and theorems, and maps each
definition to the lines of source it models. Paths below are relative to the repository.

## 1. Inventory

| component | source | state it keeps | operations |
|---|---|---|---|
| engine host | `src/engine/application/engineHost.ts`, `recentRequests.ts` | open campaign, cache of 128 answers, queue of requests | `handle`, create, resume, close, reset, save, commands, queries |
| pipeline and transaction | `pipeline.ts`, `transaction.ts`, `observers.ts` | a draft of the campaign | apply, observe, validate, commit with one revision |
| save service | `application/saves/service.ts`, `envelope.ts` | queued captures, write in flight, cached manifest, next sequence, status | `save`, `drain`, `resume`, `clear`, `slot` |
| save store, rotation | `adapters/persistence/` | manifest and snapshots of a slot | `write`, `clearSlot`, `readManifest`, `readSave` |
| save loading | `saves/load.ts`, `migrations.ts` | none | checks, migrations |
| scheduler | `simulation/scheduler.ts`, `domain/campaign/scheduler.ts` | sorted list of boundaries, next ordinal | schedule, cancel, cancel by owner, take due |
| clock | `simulation/clock.ts` | accumulator, pause, rate, simulation time | `advanceTime`, `resolveThrough`, `time.set` |
| combat | `simulation/combat.ts`, `domain/combat/` | locks, weapon and module cycles, reloads, damage | commands, completions, the continuous pass |
| navigation | `simulation/navigation.ts`, `orders.ts`, `domain/navigation/` | movement, travel, site objects | undock, dock, warp, movement |
| loss and recovery | `simulation/loss.ts`, `domain/recovery/` | destruction, wrecks, grants | destruction, expiry, recovery |
| encounters | `simulation/encounter.ts`, `domain/encounter/` | NPC state, phases, rewards | instantiate, decide, settle, abandon |
| assets and inventory | `domain/assets/`, `inventoryCommands.ts` | stacks, locations, ships, wallet | transfer, split, merge, debit, credit |
| economy | `simulation/economy.ts`, `domain/economy/` | supply, prices, insurance | buy, sell, repair, resupply, insure, hourly replenishment |
| fitting | `domain/fitting/`, `fittingCommands.ts` | draft fitting | begin, set, clear, revert, commit |
| client gateway | `src/gateway/`, `src/adapters/worker/` | pending requests, timers, frame loop, session policy | request, time out, frame, autosave |
| guidance and notifications | `simulation/guidance.ts`, `notifications.ts`, `domain/guidance/`, `domain/notifications/`, `onboardingCommands.ts` | recorded steps, hidden or shown; the last 64 entries, what was told in this visit | observe, raise, skip, hide, show |
| notification center | `ui/notifications/` | what was seen, toasts, which is held, the last cue | show, expire, hold, dismiss, sound |
| actions and keys | `ui/actions/`, `ui/settings/`, `ui/preferences/` | preferences and their stored copy, the key being captured, the last refusal | press, bind, clear, restore, store, reload |
| content rules, build | `scripts/lib/content/`, `config/contentPlugin.mjs` | the compiled bundle | validate, compile |
| projections, content, protocol, interface | `src/engine/projections/`, `src/adapters/content/`, `src/protocol/`, `src/ui/` | none that is authoritative | reads |

How they interact. The client posts messages to the worker. The host chains each on a promise, so one
request is served at a time; it answers from the cache, checks campaign and revision, and gives the
command to the pipeline. The pipeline's commit is the only place where a revision is taken.
`time.advance` runs the clock, the clock takes boundaries from the scheduler, and resolvers and systems
change the campaign and schedule more. Saving is the one activity that runs beside the host: a capture
is synchronous, its write is not, and `save` answers before the write. Create, close and reset wait.

Where it is hard, and what makes each part correct:

* **Saves**: writes in the background race requests, other captures, refusals by the browser, and the
  end of the worker. The manifest and the snapshots must agree; rotation must never remove what resume
  needs; a save status must be true; a closed or discarded campaign may not come back.
* **Clock and scheduler**: resolvers edit the queue while it is being drained. No boundary may be
  passed, resolved twice or lost; all of one instant must resolve before anyone acts on the outcome; time
  neither lost nor gained across quanta, rates, pauses.
* **Host**: messages are late, repeated or out of order relative to closes and resumes. A command may
  take effect once, in the campaign and at the revision it was decided at.
* **Combat, navigation, loss**: completions of several actors at one instant, ordered by priority; a
  resolver that moves a ship decides what later ones and the following pass see.
* **Assets, economy**: units and money are conserved through every sequence of transfers, purchases,
  losses and recoveries; a preview's token is stale when the market has moved.
* **Client**: timeouts against late answers, a page hidden or a ship moved with a request in flight.
* **Guidance, notifications**: a step is never left behind by a player who does things early; the grouped,
  bounded history still accounts for what happened; what is raised between two reads is neither missed nor
  replayed, leaves the screen in time, and is heard when it is urgent.
* **Keys**: what is stored is the difference to the defaults, and every change takes keys from others; the table
  that applies, the one a reload resolves and what the player was told must stay one.
* **Content**: the engine relies on what the build refuses (a fit that assembles, an opponent that can be
  spawned, a ship that can be bought back), and both compute it in words of their own; campaigns outlive
  the content they began on.

The hazards are listed with their lines in `PROJECT.json`.

## 2. Modules

| module | models | role |
|---|---|---|
| `SaveSlot` | `retention.ts`, the transaction of `indexedDbSaveStore.ts`, `ports/persistence/saves.ts` | the slot and its operations; no behaviour of its own |
| `SaveService` | `saves/service.ts` with the host steps that call it | EXTENDS `SaveSlot`; a specification |
| `BoundaryQueue` | what the scheduler promises: a set of entries, taken in order | the abstract specification |
| `Scheduler` | `scheduler.ts`: a list, a binary search, removals | implements `BoundaryQueue` (proved) |
| `Clock` | `clock.ts`, step by step | EXTENDS `BoundaryQueue`, implements it (checked and proved) |
| `EngineHost` | `engineHost.ts`, `recentRequests.ts`, `transaction.ts` commit, the session commands | a specification |
| `SimulationDraft` | the part of the campaign draft that simulation handlers share | operators on a record |
| `Combat` | `simulation/combat.ts`, `domain/combat/` | operators, EXTENDS `SimulationDraft` |
| `Encounter` | `simulation/encounter.ts`, `domain/encounter/` | operators, EXTENDS `Combat` |
| `Travel` | `simulation/navigation.ts`, `orders.ts`, `domain/navigation/` | operators, EXTENDS `Encounter` |
| `Loss` | `simulation/loss.ts` as far as a site can tell | operators |
| `CampaignChecks` | `validation.ts` of combat, navigation and encounter, the scheduler's part of `campaign/invariants.ts` | operators, EXTENDS `Travel`, `Loss` |
| `Availability` | `availability.ts` of combat, navigation and encounter: which commands are refused; the projections of the fight, the site, the encounter and the bookmarks, and `ui/space/tactical.ts` | operators, EXTENDS `Travel` |
| `Engagement` | the quantum loop over all of these, and the player's commands | a specification |
| `Sums` | the sums that the loops over stacks and over units add up | an operator |
| `Inventory` | `domain/assets/inventory.ts`: stacks and stores | operators, EXTENDS `Sums` |
| `Market` | `domain/economy/pricing.ts`, `simulation/economy.ts` | operators, EXTENDS `Sums` |
| `Station` | trade, services, fitting, loss and recovery | a specification over `Inventory` and `Market` |
| `PlayData` | `ui/frame/usePlayData.ts` with the gateway it asks through | operators on the client's record |
| `FrameDriver` | `gateway/frameDriver.ts`, `ui/frame/useSimulationClock.ts` | operators, EXTENDS `PlayData` |
| `Client` | the client, the port and an engine that may be late | a specification |
| `CampaignSession` | `gateway/campaignSession.ts` | operators on the client's record |
| `Transactions` | `ui/station/`: previews, dialogs, panels; `ui/actions/useActionRunner.ts`, and as much of `usePlayData.ts` as a confirmation needs | operators, EXTENDS `CampaignSession` |
| `Front` | campaign panel, frame, station and dialogs, with an engine's slot | a specification, EXTENDS `Transactions` |
| `Notices` | `simulation/guidance.ts`, `notifications.ts`, `observers.ts`, `domain/notifications/`, `domain/guidance/` | operators on the campaign |
| `Toasts` | `ui/notifications/NotificationCenter.tsx` | operators on the center |
| `Registry` | `ui/actions/registry.ts`: the actions and their default keys | constants |
| `Controls` | `bindings.ts`, `shortcuts.tsx`, `preferences.ts`, `KeyBindings.tsx` | operators on the player's desk, EXTENDS `Registry` |
| `Page` | an open campaign as its player is told of it, and the player's keys | a specification, EXTENDS `Notices`, `Toasts`, `Controls` |
| `ContentRules` | `scripts/lib/content/semantic.mjs`, `guidance.mjs`, what `schemas/content/` says of the fields that are read | operators on a content pack, EXTENDS `Market` |
| `ContentRelease` | the build, and the campaigns played, saved and loaded on what it accepts | a specification, EXTENDS `ContentRules` |
| `MC*` | instances for TLC | constants and symmetry |
| `SaveServiceProofs`, `SchedulerProofs`, `StationProofs`, `ClientProofs`, `PageProofs` | | theorems about the module they are named after |
| `EngineProofs` | | theorems about `Clock` and `EngineHost` |
| `StationFits` | | theorems about `Station`, EXTENDS `StationProofs` |
| `ContentProofs` | | theorems about `ContentRelease` |

### SaveSlot and SaveService

A snapshot is a record of its campaign, revision, kind (`auto`, `manual`), sequence, whether the
captured state is sound, and a history stamp `at` that orders captures. `manifest` and `snapshots` are
the two object stores, `lost` the documents the browser damaged. `PlannedManifest` and `RemoveIds` are
`planWrite`; `StoreWrite` and `StoreClear` are the transactions, which either happen whole or are refused.

`SaveService` adds the service's own variables (`cached`, `manifestRead`, `nextSequence`, `queued`,
`writing`, `saveState`, `lastError`, `lastSaved`) and the session (`campaign`, `phase`). `phase` is the
request the host is serving that waits for writes: while it is `create`, `close` or `reset` no other
request is served, and the pump goes on. `queued` is a sequence, because the code's `Map` keeps the place
of a key that is set again. `Pump` takes a capture up whenever none is in flight, in the same step as
the event that makes it possible: the code does so before the host's promise goes on.

The environment refuses any operation (`WriteRefused`, `ResetRefused`, a failed first manifest read),
damages a stored document (`DamageDocument`) and kills the worker (`Crash`) at any step. A worker that
comes back reads the manifest anew. A commit may produce a state that only the complete validation
refuses (`Lightweight`), which is how a production worker is configured.

### BoundaryQueue, Scheduler and Clock

`BoundaryQueue` is the promise: entries in a set, `Take` takes the one that is first by due time,
priority and ordinal, at its instant; `Pass` moves time no further than the next entry. `Scheduler`
replaces the set by the array of the code and shows that inserting by binary search keeps the
order: it is the module for `insertionIndex` and for the removals. What it asks of its constants is the definition
`SchedulerAssumption`, a hypothesis of its theorems.

`Clock` opens `advanceTime` and `resolveThrough` into steps: `Advance`, then per quantum `BeginStep`
(how far to step), `EndInterval` (the systems ran, time moves), `TakeBoundary` or `TakeNothing`,
`EndResolve`, `EndSettle` (the pass without duration that closes a batch), `FinishQuantum`. Between them
the environment schedules and cancels at every stage where commands, systems or resolvers run. `staged`
is one effect a resolver leaves for the next pass (a hull at zero). `accepted`, `done`, `cancelled` and
`cut` are history variables.

Assumed of the environment: work is scheduled at or after the instant at which it is scheduled; the
systems, which run over an interval before time moves, schedule at least a millisecond past its end.
The shipped content has no delay as short as a quantum. A rate is a whole number.

### EngineHost

A campaign is its id, its revision and `log`, the commands that made it; what a command computes does not
matter here. `sent` holds every request the client has sent to this worker: one in it can be
delivered at any time and any number of times, or never. A request may name a campaign and a
revision. `recent` is the cache in its order, `saved` the campaigns as captured. A capture is stored or
refused; any stored one may be what resume opens, as any newer one may be damaged. `answered` and
`forgotten` are history variables: the ids answered, and where in them the cache was last emptied.
The step of a handler is atomic because the host's promise chain serves one request at a time; what
happens to a write behind it is the subject of `SaveService`.

### SimulationDraft, Combat, Encounter, Travel, Loss, CampaignChecks, Availability and Engagement

The handlers of the simulation are functions of the draft, so they are operators here: each takes the
draft as a record and returns the record the handler leaves. `Engagement` makes the steps. `Interval`
runs the continuous systems (navigation, combat, encounter, loss, in that order) to the next boundary
or the end of the quantum; `Boundary` resolves the first entry of the queue by its kind, and the last
entry of an instant is followed by the pass of no length. `committed` is the draft as of the last
quantum or command that ended without an error: an error (`failed`) throws the draft away, as the
transaction does. Commands happen between two quanta, each under its predicate of `Availability`, which in the code
answers the handler and the projection alike. `CampaignChecks` is the full validation a campaign must pass
to be saved or opened; `Engagement` demands it of `committed`, so what it states is not a second opinion of
ours but the code's own, asked of every campaign that play can reach instead of those a test happens to save.

A view is a function of the campaign, as the projections are: `TacticalView` (the ship, its modules, weapons and
their commands, locks from both sides, effects, the others in the site), `SiteView` (objects, orders, travel and
their commands), `EncounterView` (the instance, its opponents, wrecks with their contents) and `BookmarkDestinations`. A command
is offered there or refused with a reason by the predicates that guard the handlers. Kept are which rows there are and
what each says of a status, a count, a target and a command; amounts, attributes and formulas are left out.

What stands for what. Times are relative: an entry is due *in* so many units, and what the code keeps
of the past only to show it is left out. The hull is one bit, so a shot takes the last of it or does not;
the shots that would only hurt are the same step. A ship has one turret and one active module at most;
the code handles each fitted one on its own. Geometry and capacitor are choices of the world: who
is in range, who runs short, whether a ship is aligned. A lock on a target out of range starts its grace;
the choice is made for all ships of the site together. What the tactics of an opponent weigh is two
bits, near and hurt. Identifiers are canonical: a new entry or ship takes the first that nothing mentions
any more, so the state space is finite, and a stale reference would still be seen because what is
mentioned is not given out again. Loot is one of a few holds; a lost ship's goods survive together.

The durations of the content (reload 5 s, lock grace 2 s, decision 1.5 s, warp preparation and docking
3 s, wrecks 1800 s or 7200 s) are one or two quanta here, where a quantum is 50 ms. `EngagementAssumption`
keeps what matters of the difference: no duration is shorter than a quantum. Two units for cycles,
reloads and wrecks against one for locks, decisions and warps let each pair of completions meet at one
instant in either order of scheduling.

### Inventory, Market and Station

`assets.stacks` is the sequence of stacks in the order of their identities, which is the order in
which the code searches. A stack lies in the hangar, a hold, a wreck or a ship's fitting store, where its
state says which slot it fills. `marked` is the recovery grant: granted units keep to themselves, except
in a magazine. `Inventory` is the only writer; `Station` calls it as the services do.

A preview is what was asked for, what it showed (credits and units), and `fresh`: whether any of the
versions bound in its token has moved. `Confirm` is `previewTokenMatches` with the whole preview
computed anew; only then is something done. Fitting is a draft of slots; `ApplyDraftTo` strips what
the plan does not want and refits slot by slot, and any slot it cannot fill gives up the whole draft
(`NoOne`). `ResolveLoss` moves what survives to a wreck, pays the insurance, and grants a ship to a
pilot who has none that flies and cannot buy one.

Prices are whole numbers computed as the code computes them (per unit, rounded once, clamped to 0.4
and 2.5 of the base, the spread 8 %), with the regional and event factors at one, their value in
all shipped content. The catalogue of `MCStation` is the shipped listings near twice their target
stock, the only place where the block rule of `bulkQuote` differs from the sum. A listing is *hedged*
(`IsHedged`) if the price moves by less per unit than the spread pays for, in whole percents; every listing of
the shipped stations is, which `MCStation` has TLC evaluate, and where one is not, buying many units and
selling them back could pay. The starting credits (20000),
the price of a hull, the payouts (30 % and 70 %) and the premium (15 %) are small numbers in the same
order. Provenance is left out, and there is one station, one hull, one gun, one round, one wreck at a time.

### PlayData, FrameDriver and Client

`client` is everything the page keeps: where it believes the ship to be (`place`), the read in progress
and the views queued behind it, what is shown, the autosave, the driver, and the requests sent. Every
operation of `PlayData` and `FrameDriver` is the code between two `await`s. The fourteen projections are
three, one for each way the store treats them, and one `Promise.all` of queries is one message. `engine`
is what the client can tell of it: the place, the revision, a version of each view and the last revision
captured. The port keeps the order of messages. A request that times out (15 s) has its `live` bit
cleared, in the outbox or the inbox: the engine still serves it and its answer is dropped. What a
timed-out read was to bring is `lost`: the views it asked for and those queued behind it, which the code
drops together. The campaign stays open. Time that passes is a number of frames.

### CampaignSession, Transactions and Front

`Client` is about a campaign that stays open; `Front` is about what comes and goes: the session and the dialogs. Every
action of the player on the campaign (create, resume, close, reset, save), the autosaves and the refreshes are
*tasks*, any number of them at once: `client.task[t]` says which answer the code of `campaignSession.ts` awaits. An action ends with a
read of session and slot whatever it came to, and a save that is still being written is followed by at most
`SettleAttempts` looks, with a delay before each. `client.hook[d]` is one `useTransactionPreview` for each kind of dialog,
with its question in flight, its preview and whether a refused confirmation has replaced it; `client.press[d]`
is how far a pressed control is: its command, the read of what it changed, the autosave it asked for. `client.open` is the
dialog, `client.panel` the station's panel; `Mounted` and `Unmounted` are what comes and goes with the campaign shown.

The engine serves one request at a time, in order, and keeps of its state what the page can tell: the campaign, its place, the
slot with its writes, and the versions a token is bound to (`commits`, and the market's `hours`). `history` is what the properties speak
of: previews that were paid and pressed, and three kinds of ignorance that the code has by design: something was
given up and not read again (`blind`, `missed`), a replacement came for a question no longer asked (`overtaken`).
Left out: the read of the frame's clock, reads of narrow topics alone, a preview that is unavailable.

### Notices, Toasts and Page

`campaign` is what the observers read and write: simulation time, the player's ship, the standing of
its shield against the authored fraction (`away` from a site there is none), the guidance and the history. A
transaction of the play is a `Happening`: from what standing it can be, the events it publishes with
the times of their batches, and what it leaves behind; `Commits` is `observeTransaction` over the whole of
it, guidance first, then events in their order and then the comparison of the two states, as the code has
it. An authored notification is a record of what its operation asks (about the player, for which reasons,
an amount above zero) and of how it groups; what an operation looks up in content or state beside that
(an attitude, an idle weapon) is a field of the event. `raises` and `visit` are history variables: every
raise there was, with the visit to a site it belongs to. `AdvanceGuidance` runs as many rounds as there are
steps, where the code runs until a round changes nothing; as content lets a step require only steps before
it, which `StepsAreOrdered` assumes and `checkGuidance` enforces, one round already reaches the end.

`center` is the state and the refs of the notification center, each operation one effect or callback of it;
an effect runs in the step of the render that causes it. `Leave` unmounts all of it, so what `Resume` mounts
is fresh. What is opened is a snapshot, newer or older, and nothing is observed by opening it. A browser
timer that is due fires before more time passes.

`desk` is the preferences that apply and the document in the browser's storage, each with what the player was told of
it (a history); whether the storage refuses writes; the settings panel with the key it waits for; and the last press. A
key is a name with its lower-case form, and the display and sound preferences are one field that has its default or
not, since what can go wrong is one preference undoing another. `Update` is the provider: applied and stored whole, or
applied only. `Bind` applies `AssignKey`, and tells what the message line says. A press reaches the document listener
unless a capture, a dialog, a field or a modifier keeps it away; what it asks for is offered by the surfaces of the
station or of space, and acts or gives the reason it cannot. The page outlives a campaign, a `Reload` neither.

### ContentRules and ContentRelease

A content pack is a record of functions from identifiers to definitions. `SchemasHold` is `validateDocument`, with
what the schemas say of the fields the rules and the engine read; `Accepted` adds
`validateSemantics`: a conjunct for each rule it checks across files, over the fields that rule reads. `Ids` are the identifiers
there can be of each kind, which the schemas keep apart by their prefixes.
Identifiers defined or listed twice cannot be written in this form; volumes are whole numbers, positions lie on
a line, a text is there or not, and one pair of bounds stands for each kind of pair that `checkRules`
compares.

`ContentRelease` has an author who edits the pack, a build that installs what `Accepted` lets through
(the page reloads, so no campaign stays open), and a player who creates a campaign on it, saves and loads.
The other side of each rule is what the engine does with the content: `AppliedStart` is `applyDraftTo` on
the starting items, `NpcFit` is `planNpcFit`, `FitBreaks` is `assessFit`, `CanBeLoaded` is what `loadSave`
asks of content: references that resolve, damage, fits, capacity, listings. Of a campaign only what content
bears upon is kept: one ship, its goods, the opponents, stock, the stations with a market. What is handed
out once and stored (a capacity, the sites known at the start, the services of a station) is stored here too,
and read from there. A station is reached without the trip to it. Of combat
there is damage, a round fired, an opponent's loot and a loss. `Edit` waits until no campaign is open,
which loses nothing: an edit reads and changes only the author's pack.

### Bounds on the kinds of steps

`Sessions` of `Engagement` and `Station`, `Engagements` of `Client` and `Page`, and `Scenes` of `Front`, are sets of kinds of steps: a
behaviour is made of the steps of one set. Every kind is in some set, and each set holds the kinds that act
on the same records: guns with reloads and changes of ammunition (`Gunnery`), modules (`Operation`), travel
with bookmarks, losses and loot (`Voyage`), a fight with a dock or an order in it (`Raid`). In `MCStation`:
prices and hours (`Trading`), fitting against the hangar (`Outfitting`), stacks across holds, space and
wrecks (`Storage`), magazines (`Gunnery`), fitting between losses
(`Refitting`) and after shots (`Rearming`), grants (`Recovery`) and insurance (`Cover`). In `MCClient`: reads against changes (`Playing`) or timeouts (`Losing`), autosaves
(`Saving`), time (`Driving`). In `MCPage`: battles (`Telling`), the loop with its guidance (`Guiding`), reads
against saves and openings (`Opening`), toasts with focus, dismissals and preferences (`Showing`), cues
(`Sounding`), keys (`Keying`). In `MCFront`: the session with timeouts (`Coming`) or with saves beside it (`Staying`); dialogs of the market with an hour
between (`Trading`), of the services (`Mending`), over changes of panel (`Wandering`), with timeouts (`Waiting`), with the campaign closed
under them (`Closing`, `Finishing`), and with the departure (`Departing`). A property is checked in all of them.

## 3. What the runs check

| run | distinct states | what it shows |
|---|---|---|
| `save_service` | 204,845 | safety of the save service, and that requests are answered |
| `close_reported` | | a statement of the documents that the code does not keep |
| `clock` | 588,203 | the quantum loop drives the queue, batch by batch |
| `clock_limit` | | a comment of the code that the code does not keep |
| `engine_host` | about 3.7 million | effects under any redelivery |
| `engagement` | 297,676 | combat, encounter, travel and loss under one clock |
| `advance_abandoned` | | a sentence of the documents that the code does not keep |
| `station` | 147,507 | what a pilot owns, through trade, fitting and loss |
| `client` | 468,150 | what is shown, saved and simulated, with late answers |
| `front` | 1,081,753 | what the page says of campaign and saves, and what a dialog charges |
| `page` | 148,641 | what a player is told, from the event to the toast |
| `content` | 70,177 | what the build accepts carries a campaign |

**save_service.** `SlotIsSound`: the manifest names exactly the snapshots there are, damaged ones aside
(`SlotIsWhole`), no more of a kind than its room, and no id twice (`RetentionHolds`). `NewestSurvivesRotation`: after a
write the slot still holds, of each kind, the newest of the captures it held and the one written.
`SequenceOrdersCaptures`: of two saves of a campaign the later capture has the higher sequence,
though restarts, failed reads and resumes from older saves restart the count.
`SlotFollowsSession`: no late write brings back a campaign that was closed or discarded; whom the slot holds changes only to
the open campaign, or while a reset is about to clear it.
`CloseIsDurableWithoutFaults`. `HostIsAnswered` (liveness): whatever is refused, a waiting create, close or
reset ends.

Fairness is weak on the write in flight (it is stored or refused: a browser transaction always ends
with `complete`, `error` or `abort`) and on the end of the waiting request, a promise continuation that
the event loop runs once what it waits for is settled. Nothing is assumed of clients, saves or crashes.
Bounds: two campaigns (one to be displaced by the other), two revisions, five captures with room for
two autosaves and one manual save (so that each kind rotates and coalesces while one write is in
flight), one fault. With three revisions, or with two faults (one to break something, one to break its
repair), it holds as well; those instances take minutes.

**clock.** `DrivesBoundaryQueue` (refinement): what is taken is the first entry of the queue, at its instant
and once, and time passes no entry. `BatchResolvesWhole`: effects of an instant are settled only when nothing
more is due at it. That no boundary is overdue or unaccounted for, and no time lost, is proved. The queue here is the
abstract one; that the list of the code is such a queue has a theorem and no run.
Bounds: quanta of two units, four units of time, three boundaries, two priorities, one owner, rates 1 and
2, deltas below and above the cap, a limit of two boundaries in a quantum. So a quantum can end on, before
and after a boundary, one delta can be worth several quanta or none, and the limit is met.

**engine_host.** `GuardedAppliesOnce`: a command with an expected revision takes effect at most once in a
campaign, after eviction from the cache, a close, or a resume that goes back to an older snapshot.
`RememberedAnswersAreTrue`: what a repeated delivery is answered agrees with the open campaign's history.
Bounds: five requests, six remembered answers and a
cache of two, so that a request is evicted and repeated; three revisions.

**engagement.** `CampaignIsValid`: a committed campaign is one the validation of the code accepts when it is loaded
(`CombatConsistent`, `SiteIsConsistent` but for the target of an order on a wreck, and `BoundariesAreOwned`: every boundary has an owner that waits for it), whatever completed together.
`ViewsAreTrue`: whatever repeats, decides or is to reload has a boundary under way (`NothingStalls`); the tactical view counts down
to an end that is queued, shows what it says is locked or locking, and offers to fire only where the engine accepts
it (`FightIsShown`); and the views of one revision agree: opponents and wrecks are listed in all or in none, the
objective counts those that are gone, what an order, a bookmark or a travel names is there with its time (`ViewsAgree`).
`RoundIsReserved`: the round of a running cycle stays in the magazine until the cycle ends.
`DestructionIsSettled`: no ship without hull stays in its site beyond the instant. `DeathsAreFair`: a shot that destroys does not cancel shots
due at the same instant (`DestructionWaits`), and each opponent is paid for once and leaves a wreck (`KillsAreRewarded`). Bounds: two ships of the player (one to lose, one to go on with), one opponent, two wrecks (the
player's and the opponent's), a magazine of one, a hold of two, one lock.

**station.** `AssetsConsistent`: units lie where the rules allow, with room, one module a slot and charges
only in fitted weapons. `RecoveryRouteStaysOpen`: a pilot without a ship can buy one or is given one.
`QuotesAreFair`: at every stock the market is brought to, bulk prices are the sum of unit prices, and buying
and selling back never pays.
`ConfirmedAsShown`: a confirmation does what the preview showed or nothing. `UnitsAreConserved`,
`GrantsBringNoValue` (granted goods and ships never turn into money), `FitsAsPlanned`. Bounds: two ships,
two slots, a hold of two, at most three guns and four rounds in five stacks, deals of one and two units.

**client.** `ShownIsCurrent`: when nothing is on its way, every relevant view shows what the engine holds,
except what a timed-out request was to bring. `TimeIsNotReplayed`: advances never add up to more than the
time the driver ran visibly. `TriggersAreAnswered` (liveness): every autosave trigger received is followed
by a capture at least as new, unless its save timed out. Fairness is weak on the engine's next answer, on the
delivery of the next message (a worker and a port are neither lost nor idle while they have work), and on
the end of a followed save, which looks at the status at most 40 times. Bounds: two changes of the
campaign, two timeouts where requests are lost and one elsewhere, one command in flight, two starts of the driver, three units of time: a change
can fall before, in and after a read, and the driver can be stopped and started with an advance in flight.

**front.** `InterfaceTellsWhatIsHeld`: once nothing is on its way, the page shows the campaign the engine holds, the slot as it is, and its
controls are free, however actions, autosaves and looks at a save overlapped, unless something was given up since. `PaidAsShown`: what is charged
was on the screen when Confirm was pressed. `DialogTellsItsOwn`: a dialog at rest shows figures of its own question, as of the last
commit. `NothingWaitsInVain`: whatever is pending waits for something that is on its way, and a control that is off waits for a task
that frees it. This stands in for liveness: with it, a pending control is freed as soon as the engine answers or
the gateway's timer fires. Bounds: three presses where a campaign is entered, else two; up to three changes of dialog or
panel; one market hour; one timeout; two looks at a save; an autosave after each unit of play time; two subjects for a
dialog to turn from one to the other. So a second action can begin in any state of the first. The player may rest, hence no deadlock check.

**page.** `LogTellsWhatHappened`: each entry of the history counts, and where it says so adds up, just the
raises of its group between its first and its last; nothing later than the oldest entry is missing; what is
told once a visit is told once; and the campaign passes `validateNotifications` and `validateOnboarding`.
`GuidanceKeepsUp`: after a transaction no open step is left that it satisfied; a completed step comes after
what it requires, and is told once if the guidance was shown then. `NothingIsMissed`: whatever was raised
since the opening and is still in the history that was read has been on a toast with its latest repeat,
unless the player had hidden it; what was there at the opening is not replayed. `NoToastOverstays`: a toast
that is not held is gone when its time is over. `UrgentIsHeard`: of what is new and audible, the most
urgent level sounds, or has just sounded. `KeysFollowThePlayer`: the keys that apply are those the player was
last told of, no key does two things, and what is stored, whole or not at all, is what a reload resolves to.
Bounds: a history of three and a memory of two against seven kinds
of notifications, so that entries are pushed out while their group goes on; four steps, one of them read
from the state; up to seven raises and six units of simulation time, three of real time with toasts of one
and two; a spacing of cues of two; two toasts on the screen; three openings. What is told once a visit is
no more than the memory holds, as in the shipped content (three against 64). Of the keys: two actions to
change, three changes or presses, presses of every sort (a capital, a modifier, a key that is none, in a
field, a list, a dialog and a capture), and three stores to begin with: nothing, a damaged document, one with a key
taken over and an entry of an action that no longer exists. A store in which two actions name one key, which only an editor
of the file can make, is not among them.

**content.** `NewPilotIsReady`: on accepted content a campaign can be created, its ship wears the whole
authored fit, may undock and has a loaded gun online. `EveryFightCanBegin`: each opponent an encounter names
can be spawned in the middle of an advance, wears its whole loadout within the rules of fitting and has every
gun loaded. `ShiplessCanFlyAgain`: a pilot without a ship, whom the recovery service owes nothing, can buy the
whole starter ship at the prices of the station, whatever was bought before and under whatever content the ship was
lost. `SavesReload`: what is played, on the content it began on or on a later one that took it over, is always a
campaign that a load accepts. `GuidanceCanBeFinished`: whatever steps are done, one of the rest has its
turn and can be skipped or done from any state.
Bounds: one pack in which every rule is met with nothing to spare (prices at reference
values, credits that with the insurance are just the price of a starter), 84 edits of it of which every rule refuses one at least and
27 pass, one edit, three steps of play, with a release and a load anywhere between them. Two edits
with two steps of play hold as well (a million states).

Deadlock is not checked where the bounds or a closed session let the system stop.

**Where code and documents differ.** Three runs end in a violation, each a counterexample to a sentence of
the repository:

* `close_reported`: a failed write "is reported through the save status". If the autosave of a close is
  refused and a manual capture queued behind it is stored, the status says "saved". The cause is also one
  of order: docs/02_TechnicalSpecification.md section 11.3 and `service.ts` say that writes of one campaign
  finish in revision order, but a coalesced autosave keeps the place of the one it replaces, ahead of a
  manual save captured in between. Sequences still order the two, so what resume opens is right.
* `clock_limit`: "Remaining entries stay queued": the entry that meets the limit of boundaries has
  been taken from the queue by then, and is neither resolved nor put back.
* `advance_abandoned`: docs/01_FunctionalSpecification.md line 426 says of a change of ammunition "It fails
  if cargo cannot hold the unloaded ammunition". Asked for behind a running cycle, it unloads when the cycle
  ends; if loot has filled the hold by then, the unload throws in the middle of `time.advance`, the whole
  advance is abandoned, and so is every later one, because the boundary stays due.

More observations, which are hazards and not runs. A wreck that expires at the edge of a quantum leaves
an order on it until the next quantum, and a capture in between has an order whose target is gone:
`validateNavigation` would refuse it, which is why `SiteIsConsistent` lets an order stray to a wreck
and to nothing else. A dock or
warp that completes in the batch in which the hull was lost, and behind the shot by priority, takes the ship
away before the pass that looks for deaths, which looks only in the site: the player keeps a ship without
hull. `DestructionIsSettled` therefore speaks of the ships in the site. A toast that holds the focus does not
always stay, as the comment at `NotificationCenter.tsx:33` says: only the three most urgent are rendered, so
more urgent ones push it off the screen with the focus in it; a removed element reports no blur, so it
stays held, comes back when they leave and does not expire before the focus moves again; `NoToastOverstays` leaves the held toast out. The comment at
`projections/notifications.ts:11` says that an entry whose definition a content update removed is left
out, but such a campaign does not open: `validateNotifications` and the content references of the snapshot
refuse it.

Of content: `semantic.mjs:912` says that "A campaign that cannot assemble its own fit would fail at creation
rather than at validation, so the build refuses the content instead". It counts one round for each loaded
slot, while `applyDraftTo` fills whole magazines: with two guns on one charge the first can take all the rounds,
and `startingAssets` throws. `NewPilotIsReady` leaves such fits out; the shipped fit has one gun.
An update that adds or removes a listing, changes the initial stock of a fixed one, or makes a magazine or a hull
smaller can refuse older saves although every reference resolves; `docs/agent-comm/status/phase-20-completion.md:281`
knows of the listings. A station that an update adds has no economy state in older saves
(`requireStationEconomy` throws), and a neutral station need not offer a market, so `ShiplessCanFlyAgain` speaks
of stations with one. A hull no pilot may use may be listed; its purchase is refused at the commit. Of two
encounters at one site, which pass the rules, the second can never be met.

`TypeOK`, `StationTypes`, `ServiceInv`, `SchedulerInv`, `ClockInv`, `HostInv`, `StationInv`, `FitInv`, `ClientInv`, `PageInv`,
`HistoryOnlyGrows`, `OnlySoundIsStored`, `SavedStatusIsTrue`, `WritesBelongToSession`, `SlotFits`,
`ClosingSaveIsNewest`, `EffectsAreSettled`, `QuantaAreWhole`, `NothingIsOverdue`, `WorkIsAccountedFor`, `TimeIsKept`,
`RepeatsOnlyBeyondTheLimit`, `EffectsStayInTheirCampaign`, `TimerIsSet`, `ReadIsFollowed`, `ImplementsBoundaryQueue` and `PilotIsPlaced` (a part
of `AssetsConsistent`) are not among the runs' properties: the theorems below establish them for all constants. The
inductive invariants were checked by TLC on the instances above as well, but for shapes it cannot enumerate.

Each property of a passing run has a mutant: a changed definition, marked "Wrong on purpose" beside the
right one, under which the run must find the property violated.

## 4. What is proved

TLAPS checks every proof for all values of the constants, subject to the named assumptions. They say:

* that a sentinel (`NoOne`, `Nothing`, `NoCampaign`, `NoSave`, `NoEntry`, `NoOwner`, `Any`) is not a value of
  the sets it stands beside (also `UnreadAssumption` and `PreviewAssumption`);
* that what the code divides by, waits for or keeps is positive: a quantum, rates, the limit of boundaries, the
  answers and saves kept, the history, the spacing of cues, volumes, a magazine. Priorities are integers;
* what the content rules guarantee: the guidance's steps are ordered, definitions have ids of their own and a severity each, and a site remembers
  all that is told once in it (`NoticesAssumption`, `AuthoredAssumption`); one definition tells of completed steps, each by itself, and
  nothing else that happens is named as a step is (`GuidanceAssumption`; content/notifications/rules.json:303-311); events come in the order of time (`HappeningsAssumption`); every listing is hedged (`ListingAssumption`, see `Market`); the
  starter hull is listed at a fixed price that the recovery service's threshold covers (`RecoveryAssumption`), and the hold has room for what it starts with (`StartAssumption`);
* the action registry gives each remappable action a place and a bindable default of its own (`RegistryAssumption`), and what was
  stored before was stored by this program, so no two of its overrides claim one key (`DeskAssumption`);
* that an identifier tells its kind and is not the word for none (`IdsAssumption`; the patterns of `schemas/content/common.schema.json`);
* the shape of the station's world: a gun and its ammunition, slots counted from one, at least one ship
  (`StationAssumption`, `InventoryAssumption`).

Each has instances: TLC evaluates them in the runs. Bounds in the guards are constants too, so the theorems hold
for any value of them.

**SaveServiceProofs.** `InvariantHolds` proves `ServiceInv`. The properties are not inductive alone:
that sequences order captures needs to know that within a kind captures are written in the order they
were made (`KindsAreOrdered`), that nothing on its way has the next sequence (`CapturesAreApart`), and
that the service either knows the slot or, after a failed read, holds nothing of the campaign the slot
holds (`SlotIsKnownOrForeign`). From it: `TypeCorrect`, `SlotStaysWhole`, `SequencesOrderCaptures`,
`SavedStatusStaysTrue`, `StoredIsSound`, `WritesStayInSession`. Rotation is an argument about cardinalities: a
planned manifest takes the newest of a kind up to its room and drops the rest, so it never lists more
(`SlotAlwaysFits`, an invariant over the cached manifest too, then `RetentionIsKept`; with `SlotStaysWhole` it is `SlotStaysSound`) and what it drops is older than
everything of its kind it keeps (`NewestSurvives`). `SlotFollows`: only a write under way changes whom the slot holds, and it is of
the session's campaign. `CloseIsDurable` needs `ClosingSaveStaysNewest`: while a close waits, the capture it made
is stored or on its way with the highest revision.

**SchedulerProofs.** `SchedulerInv`: the list is in resolution order, its ordinals are below the counter and apart, and
nothing in it is past. Every theorem has the hypothesis `SchedulerAssumption` (priorities are integers, the bounds naturals), which no run evaluates. The search is a recursive function over an interval of the list; a least counterexample, by
the width of the interval, shows that it finds the one place that keeps the order, for lists of any length. With it
`SchedulerImplementsQueue`: every step of the list is a step of the set, or a stutter.

**EngineProofs: the clock.** `InvariantHolds` proves `ClockInv`: ordinals are handed out once (`OrdinalsAreApart`),
what is true of time and of the step at each stage of the loop (`LoopIsInStep`), and how much of the
accumulator is already being simulated (`TimeIsBudgeted`). From it: `TypeCorrect`, `NeverOverdue`,
`WorkIsKept`, `NoTimeIsLost`, `EffectsSettle`, the action properties `BatchesResolveWhole` and
`QuantaResolveWhole`, and the refinement `ClockDrivesBoundaryQueue`.

**EngineProofs: the host.** `HostInvariantHolds` proves `HostInv` with the properties it supports. A revision counts
effects, and a guarded effect is only appended at the revision it expects, so its place in a history is
fixed and it has one place: `GuardedOnce`. The cache is the tail of the answers since it was emptied, so
an id that is not in it is older than the tail or was never answered: `RepeatsAreOld`. Also `EffectsStay`,
`AnswersAreTrue`, `HistoryGrows`, `HostTypeCorrect`.

**ClientProofs.** That what is shown is current is true only when nothing is on its way, so `ClientInv` says what
is on its way otherwise. One read is in progress and its messages belong to it (`OneRead`, `FetchFits`); every
view that may be asked for is missed, told of, still to be asked, or, if the read is bringing it, will be shown
as the engine holds it, else is shown so already (`ViewsCome`); where the client's idea of its place is behind the engine's,
a message that says so is under way, or what it would not ask for is queued again (`PlaceIsMended`, `AnswerIsMended`). `ShownCurrent` is the idle
case. `TimeNotReplayed` follows from `TimeIsMeasured`, which splits the time the driver ran into what the engine has advanced by, what
a message carries and what the next frame will count. The attempt found an error of ours: `Lost`, what a read that is given up
leaves undone, must include the views queued behind it, which the client forgets in the same step.

**PageProofs.** `PageInv` ties the center to the history: what it has seen is where the page read, what was read
is still what the history says of those entries, and toasts are of what came since (`ReadIsFollowed`); while a toast may go, the one
timer runs, and fires no later than the first of them goes (`TimerIsSet`). From these `NoneIsMissed` and
`NoneOverstays`; `UrgentSounds` needs to know which cue sounded last, and when. Three more arguments:

* *Keys.* `DeskOk` is what the preferences satisfy whatever is edited, refused or read back: overrides are of
  actions of the table and `Settled`, no two claim one key. Taking a key settles again what it takes (`PreferencesAreSettled`); a table
  resolved from settled overrides has no key twice, because a default yields to an override and defaults are apart. The search for
  the action of a key then has one answer: `KeysFollow`.
* *The log.* `ToldInv` says of three things what one cannot without the others: the open campaign, the saved one (a load makes it the open one), and the
  events the guide observed last. For each campaign `HistoryTells`: an entry accounts for the raises grouped in it (`EntryTells`: count, sum, first and last), two entries
  of one key do not reach into each other (`Apart`), everything since the oldest is on the log (`Covered`), and what is told once in a site is among what the
  site remembers (`Remembered`, `OnceOnly`), which cannot overflow. A repeat that is grouped moves its entry to the end, one that is not appends,
  and trimming drops the oldest; each keeps all four: `LogTells`.
* *Guidance.* `GuideOk` says which steps may be recorded (after all they require) and what was told of each. Settlement runs a bounded number of
  rounds; a round that finds a step adds it to the record, so by a count of the steps left the rounds suffice and none
  is found when they end, for chains of any length. From it `GuidanceKeeps`: no open step is satisfied already, and each completion was told once, and
  only if the guidance was shown then.

**StationProofs.** Three arguments.

* *Quotes.* Bulk prices are sums over the units of a deal; the price of a unit falls with the stock and stands still over
  blocks of it; a hedged listing leaves a margin at each block's edge. So what a unit brings never exceeds what it costs, whatever lies
  between: `HedgedIsFair`, for every listing and every stock, and `QuotesStayFair` of every market reached.
* *Who flies.* `StationInv` is typing, `PilotIsPlaced` (the active ship is an owned one, nobody is in space without a ship
  or with a fitting open, a draft is of an owned ship) and the recovery route. `TypeCorrect`, `PilotStaysPlaced`, `RouteStaysOpen`: a pilot without a ship is given
  one or can pay for one, after any sequence of trades, losses and grants, because the service grants whenever what the pilot has falls
  short of a price that does not move.
* *Conservation.* A weight is given to each kind of stack (item, place, state, mark); the sum of the weights is what a step may not change,
  and choosing weights that count one item, or only what is not granted, yields each property. Moves, splits, merges, and the loops of fitting and reloading
  rearrange stacks (`Rearranged`). Resupply draws on what the pilot owns and buys when nothing is left; how much it buys is fixed by a
  potential, what is missing less what is owned, which falls by one with each round bought (`Drawn`), so it buys what the preview showed. `EveryStep` says of every action which
  of rearrangement, deal, consumption and loss it is. From it `GoodsAreConserved` (units come and go only with a deal, a shot or a loss, in the same number as the money),
  `GrantsStayWorthless` (granted goods and ships never become money) and `PreviewsAreKept` (a confirmation does what was shown, or nothing).

**StationFits.** `AssetsConsistent` says nothing of a draft, so it is not inductive: a plan with a charge and no weapon
would be carried out as it stands. And it counts stacks, where the operations are known by what they do to weights. `FitInv` adds to `StationInv`:

* `Orderly`: stacks lie where they may (`Sorted`), a slot has one stack of a state (`Apart`), and the limits of slots and holds are
  stated as weights (`Sized`, `Roomy`), so the lemmas of `StationProofs` say what each operation does to them;
* `Armed`: a slot with a charge has its weapon; `IsWhole`: so has the plan.

A move adds to its target what it takes from its source (`MoveIsHeavier`), and its guard asks for room by the weight the target had. A
commit is followed slot by slot (`Refit`): stripping leaves only what the plan keeps, by a count of what is still to go, then each slot gets its module and
its rounds, and the slots already passed stay as the plan has them (`FitSlotRefits`). After a loss no stack may stay in the ship's places, which
are no more: what survives is gathered in the wreck, what does not is left out (`SettledIsStowed`). From this
`AssetsStayConsistent`, and `FitsStayAsPlanned`: a commit ends with every slot as planned, or it is refused whole.

**ContentProofs.** Nothing is assumed of a pack, of the edits an author can make, of how many there are or of how long is played:
`InstalledIsAccepted`, that what runs passed the build, is all that is known. So each theorem is about two computations that must agree.

* *Fights.* The build counts modules by kind, the engine gives each the next slot of its kind. Slots are apart, since an index counts
  the modules before it, and none is missing, since the count of a kind is the bound of its indices (`NpcSlotsAreApart`); so counts and sums over slots are
  counts and sums over the list (`OneToOne`), and `FightsCanBegin`.
* *New pilots.* The draft is applied in the order of the slots' keys, which are strings: `SlotsAreOrdered` says that this is a total order, and the places
  of the slots in it count up without a gap, so every slot has its turn. Along it, what is left of each starting item is what was granted less the mentions already passed
  (`Supplied`), which the build's count bounds, if no two slots share a charge: `NewPilotsAreReady`.
* *Saves.* `PlayInv` says of the campaign that is played that it is `IsGood`: well formed, of identifiers that resolve, valid. For a campaign of the
  right shape this is exactly what a load checks (`GoodIs`), so a load establishes it on any content, and each step of play keeps it on the content it is on, with
  the capacity as it was stored: `PlayIsLoadable`.
* *Losses.* A pilot without a ship was owed nothing, so holds the sum of reference values; each price of the starter ship, clamped and rounded, is at most the reference value
  of its part, and so is the sum over fit and magazines: `LostShipsAreReplaced`.
* *Guidance.* Of the steps not done, the first in the chain requires only steps before it: `GuidanceIsFinite`.

Only model-checked, with the reasons:

* liveness (`HostIsAnswered`, `TriggersAreAnswered`): out of the prover's reach;
* everything of `Engagement`: an inductive invariant would have to describe the whole draft after every handler, in the middle of a batch
  as well, through folds nested over entries, locks and ships; it has not been found;
* the four properties of `Front`: not attempted.

## 5. What is not modelled, and the plan

Not modelled for good: movement and attribute arithmetic (floating point), the random generator's words,
text, the figures of projections and what only formats them, the parts of the content schemas no rule or step reads, budgets and the content floor, protocol validators,
migrations of documents, rendering, release scripts. One engine per slot is assumed: two tabs on one slot are listed as a hazard.

Done of the plan: the save service, the scheduler and the clock, the host, then combat with encounters,
travel and loss, then inventory with the market and fitting, then the gateway with the play data store,
then guidance and notifications down to the toast, then the rules of content and its releases, then the
views of a fight and the front of the page with its session and dialogs.
Since then most theorems of the plan: the scheduler's search and refinement, the client, the whole page with its log, guide and keys,
rotation, everything of the station, and everything of content. Left, in this order:

1. Theorems about single handlers of `Combat` and `Encounter`, then `RoundIsReserved` and `NothingStalls` (of `ViewsAreTrue`) of `Engagement`.
2. Two workers over one `SaveSlot`.

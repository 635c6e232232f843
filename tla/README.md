# daifugo-together in TLA+

daifugo-together is a card game (daifugo) for four players in which the players
propose house rules, an AI implements them, and rooms play with the rules that
have been released. This directory holds TLA+ models of the program, the TLC
configurations that check them and theorems about them that TLAPS checks.

    tlc -workers 2 -config MCRoom.cfg MCRoom
    tlapm GameProofs.tla

## The system

| Part | State it keeps | Operations | What is hard about it |
| --- | --- | --- | --- |
| Room reducer (`packages/server/src/room/reducer.ts`) | members, phase, set, turn number, five deadlines | `RoomAction`s: join, takeover, start, continue, leave, connect and disconnect, moves, mini games, pauses, expiries, drain | long sequences of legal actions; derived data (host, controller, deadlines) kept right by every action |
| Room timers (`room/timers.ts`) | one phase timer and one lifecycle timer per room, decisions in flight | sync after every action, fire, await a decision of the AI | state read before an await and used after it; stale timers; retry |
| Room gateway (`room/socket-gateway.ts`) | the socket of each user, whether the server drains | the clients' commands, connection, disconnection, drain | sockets replaced and lost, late and repeated moves, drain against everything else |
| Room manager (`room/manager.ts`) | rooms, users' rooms, invitation codes | create, join, apply, sweep | indexes corrected lazily, sweep against timers |
| Set and game (`packages/core/src/set`, `engine`, `game`, `play`, `priority`) | hands, field, turn, standings, skips, pending choice, results | start, play, pass, choices, end and score | effects of several rules on what the engine has just computed, choices of several players that wait for each other |
| Mini games (`packages/core/src/minigame`) | rounds, clocks, answers | inputs and ticks | simultaneous input, end by time |
| Replay, snapshots (`core/src/replay`, `core/src/snapshot`, `server/src/persistence.ts`) | inputs of a set | record, replay | every input recorded exactly once |
| Rule registry (`server/src/rules`) | a rule's row, its version, incidents, pins | synchronize with the code that runs, enable, disable, record an incident | code and database change apart from each other: merges, reverts, images deployed again |
| Proposals (`server/src/proposal`, `core/src/proposal`) | proposals, what has been marked as seen | submit, transition, list, mark as seen | the quota, several changes in one millisecond, marks that arrive late |
| Screening and yellow cards (`server/src/injection`) | checks, cards, suspensions, appeals | record a verdict, confirm a card, appeal, revoke | cards used up by suspensions, both taken back in part |
| Pipeline on the server (`server/src/pipeline`) | judgements, jobs | record, confirm, approve, amend, update, retry, give up | tools with stale lists, repeated requests |
| Pipeline worker (`packages/pipeline`) | a clone, branches and pull requests on GitHub | prepare, submit, merged, retry | commands broken off anywhere, reports lost, merges by hand in between |
| Evaluation (`server/src/evaluation`) | votes, eliminations | vote, eliminate, reinstate | meets disabling and rollback of the same rule |
| Notifications, push | inbox, subscriptions | notify, send | idempotence |
| Accounts, administration, operations | sessions, accounts | login, queries | little concurrency |
| AI players (`packages/ai`, `server/src/ai-turn.ts`) | pool of workers | decide within a budget, replace a worker | time-out against a late answer |
| Web client (`packages/web`) | what the server has sent | commands | external: sends anything, late, twice |

How the parts interact: a client's command or a timer becomes a `RoomAction`;
the manager applies it to the room's state, records it and corrects its
indexes; the gateway publishes the new state and the timers synchronise with
it. The reducer hands moves to the set, the set to the game, the game asks the
rules. A proposal is submitted, screened and judged by tools, decided on by the
developer, implemented by the worker through a job and a pull request, merged,
deployed, registered, enabled and handed to sets: the tools, the developer and
the worker all come by HTTP, with what they read some time ago. Node runs one
handler at a time, so what is atomic in the models is a handler up to its first
`await`, of the server as of a command of the worker. `PROJECT.json` lists every part with its state
of modelling and the hazards, each at its line.

## The modules

**Room** models the reducer. Its variables are the fields of `RoomState`; each
handler is one action with the handler's early returns as guards, and a rejected
action is a stuttering step.

| Code | Model |
| --- | --- |
| `createRoomState` | `Init` |
| `join`, `joinTakeover`, `start`, `continueSet` | `Join`, `JoinTakeover`, `Start`, `Continue` |
| `leave` (playing; lobby and set result) | `Leave` with `LeavePlaying`, `LeaveTable` |
| `connectionChanged` | `ConnectionChanged` |
| `expireSetResult`, `expireWaitingMember`, `expireRoom` | actions of the same names |
| `gameAction`, `autoAct` | `GameAction`, `AutoAct` |
| `miniGameAction` | `MiniGameInput`, `MiniGameTick` |
| `advanceIntermission`, `readyIntermission`, `requestDrain` | actions of the same names |
| `startSet`, `settleMembersAtSetResult`, `phaseAfterSettlement`, `deadlineAtForTurn` | `StartSet`, `Settled`, `PhaseAfter`, `DeadlineForTurn` |

Abstractions. A member id is the id of the user who joined with it, or one of the
AI ids; who took over an AI seat keeps the AI's id. A deadline is the time left
until it, `Never` when it is null, and `Tick` is one unit of time: two deadlines
are equal exactly when the timestamps are. Times of joining are ranks. The
card game is reduced to what the room reads of it: the phase of the set, the
number of results, whether the game waits for a play, for choices or for a mini
game, and for whom (`asked`, in the order of the requests). Which of these
follows an accepted move is left open, so every game that any set of rules can
lead to is covered, as far as the room is concerned. The commands `rename` and
`refreshRules` change only names and the list of rules and are left out.

**RoomServer** extends Room with what surrounds one room: who is online
(`activeByUser`), whether the server is up, draining or exiting, the moves of
`Senders` that may arrive late or repeatedly, and the two timer coordinators. A
timer is its specification (what the fingerprint in the code tells apart) and the
time left. A step of `Room` and the synchronisation of the timers are one
step, as in the code. `FireTurn` ends where `#fireTurn` awaits the decision;
`Decide` and `DecideInVain` are what happens after it, with the fingerprint
checked again; everything else may come between. `Sweep` is the periodic sweep.
Time passes only while no timer is due: timers are served promptly compared to
their delays, in any order with everything else. `SlowThought` says whether time
may pass while the AI thinks. A decision for a state that is over is marked so,
instead of keeping its timestamp. While a server is draining, the other rooms are
left out: it exits when this room is not playing, at any time after.

**Game** models one card game: `reduceGame` with everything it calls. The state is one
record, `GameState` of the code; what a helper of the code does to it is an operator
of nearly the same name, and where the hooks of rules come in, the set of the states that
can follow.

| Code | Model |
| --- | --- |
| `startGame`, `completeGameStart`, `resolveOpeningTurn` | `Init`, `CompleteStart`, `Led` |
| `reducePlay`, `completeAfterPlay` | `Play` with `Played`, `CompletePlay` |
| `reducePass` | `Pass` with `AfterPass` |
| `reduceRuleInput` and what it calls | `Answer` with `Served`, `Continued`, `ServedAtOnce` |
| `clearFieldWithHook`, `advanceTurn`, `resolveNextTurn`, `nextActivePlayer` | `ClearField`, `AdvanceTurn`, `Resolved`, `NextActive` |
| `executeEffectHook`, `applyMoveCards`, `forceStanding` | `AfterEffects`, `Moved`, `Forced` |
| `finishPlayer`, `finishGame`, `forceFinishByHandCount` | `Finished`, `GameOver`, `RankedByHand` |

Abstractions. Ranks and suits are left out, so any cards in hand may be played and any
moved to the field: the house rules can make any play legal, and the engine sees to it
that whoever leads has a legal one. Rules are left open: in each hook up to two effects of
any kind, adopted and in either order, and after a play or at the start a request that
asks up to `MaxAsked` players, one by one or at once. What players answer shows only in
the effects that follow. Requests and effects name seats of the table; the code also
has to deal with names that are none, which it ignores for effects. The closed form of
`resolveNextTurn` in `Resolved` makes it a plain formula; `Loop` is the loop of the
code beside it and `SkipsResolveAsLoop` compares the two.

**Scoring** models what the results of a set add up to.

**YellowCards** models `InjectionRepository` as far as it changes cards, and **Proposals**
extends it to the life of proposals up to the decision and to its author's screen. Rows are
numbered as they are inserted.

| Code | Model |
| --- | --- |
| `confirmCard`, `#cardResponse`, `#expireCards` | `ConfirmCard`, `Count`, `ExpireCards` |
| `summary`, `createAppeal`, `rejectAppeal`, `revokeCard` | `Summary`, `CreateAppeal`, `RejectAppeal`, `RevokeCard` |
| `ProposalSubmissionService.submit`, `seen` | `Submit`, `Seen` with `SeenThrough` (what the body asks for) |
| `transitionProposal`, `#nextStatusTimestamp` | `TransitionProposal`, `NextStatusTimestamp` |
| `LocalScreeningService.record`, `recordAi` | `RecordVerdict`, `RecordAi` |
| `confirmE6Rejection`, `confirmCxRejection`, `approveSpec`, `amendSpec` | actions of the same names |
| `pending`, `pendingCx`, `pendingConfirmations`, `implementation` | `PendingScreening`, `PendingCx`, `PendingConfirmations`, `ApprovedJudgement` |
| `MyProposalsScreen` | `Mine`, `SeenOnScreen` |
| `POST /api/proposals/seen` from any other client | `SeenElsewhere` |

Abstractions. A request of a tool or of the developer may arrive at any time it would be
accepted, whatever list it was made from: late, repeated and stale requests are covered, and a
refused one is a stuttering step. A verdict is any of those there are; the text of a proposal is
its hash. A check is named by its proposal, which has only one. A prompt has a version, and
several runs may use it. The clock is coarse and need not move between two requests: what happens
in the same millisecond happens at the same value of `now`. The limits of the lists, 100 rows of
the oldest first, are left out. `Finish` stands for what ends a job.

What `UnreadTillShown` promises depends on who asks. The screen sends the latest change it shows
(`asked`), so nothing it did not show becomes read. But the server takes any client's word: a
request without a body, the older contract, which is kept (`submission.ts:203-205`,
`proposal.test.ts:351-355`, `docs/archive/impl-progress.md:1406`), marks all there is when it
arrives, shown or not, and one with a body may name any `seenThrough` up to the author's latest
change. `SeenElsewhere` is every such request, and the history variable `claimed` keeps which
changes they covered: these count as known to the author. The property says that nothing else
is read, hence that a change that comes after the request is unread again, and that what was
claimed stays read when earlier requests arrive later. Whether the author of a request without
a body has seen what it marks, the server cannot know, and no property says so.

**Pipeline** models the implementation of one approved proposal: the row of its job, the commands
of the worker, and GitHub. **Release** extends it by what becomes of main: images, the registry,
the developer's switches, the elimination by votes.

| Code | Model |
| --- | --- |
| `PipelineJobService.update`, `retry`, `fail`; `amendSpec` | `Update`, `RetryJob`, `Fail`, `AmendSpec` |
| `prepareImplementation` with `GitImplementationPublisher.publish` | `BeginPrepare`, `Publish`, `Claim` |
| `submitPreparedImplementation` with `publishImplementation`, `recordOpened` | `BeginSubmit`, `PushWork`, `OpenPr`, `RecordOpened` |
| `recordMergedImplementation` | `BeginMerged`, `RecordMerged` |
| `prepareImplementationRetry` | `BeginRetry`, `CloseOldPr`, `DeleteOldBranch`, `RecordRetry` |
| a command that fails or is stopped | `Abandon` |
| GitHub and the developer there | `MergePr`, `ClosePr`, `RevertOnMain`, `Pushed` |
| `release.sh`, a deployment | `PushRelease`, `StartServer` |
| `synchronizeCodeRegistry`, at start-up and in `get` | `Synchronize` in `StartServer`, `GetRule` |
| `enable`, `disable`, `recordIncident` | `Enable`, `Disable`, `RecordIncident` |
| `evaluateElimination`, `reinstate` | `Eliminate`, `Reinstate` |
| `versionIssue`, `availableRules` | `VersionFits`, `Offered` |

Abstractions. A SPEC is the number of its approval. A commit is its scaffold, its SPEC and how many
commits lie on top; a merge commit is the number of its pull request; the bundle of a rule is named
by the commit it was built of. A command is a sequence of steps with what it has read in between
(`cli`): the server, GitHub, the developer and time may do anything between two of them, and it may
end after any. There is one worker, as E07 has it. The number of a rule's version is the same in
every pull request of a job, so the registry has one version per rule. An amendment looks at the
job's phase when it arrives, and what the votes for a rule are is left open.
`MergesOnRecord` says whether people merge only the pull request the job has on record while no
retry is closing it. The code cannot enforce it; the theorems that need it say so.

**RuleDelivery** is what this promises, without jobs, branches or registries: an implementation
comes into play only after it was presented and accepted, and stays that one. `Release`
implements it by `Delivery == INSTANCE RuleDelivery WITH ...`: the stage is the job's phase, under
review is the head on record, accepted is the head of the pull request that was merged, in play
is what new sets are given.

The **MC** modules instantiate these for TLC, with symmetric users, AIs, players and cards
(all but the one that leads).

Definitions marked `Fault:` are variants with a plausible mistake. Nothing uses
them; they are there to be put in the place of the definition that follows, to see
that a property notices.

## The runs

| Run | What it checks | Result |
| --- | --- | --- |
| `room` | `TypeOK`, `TableIsFull`, `OneHostInLobby`, `OneSeatPerUser`, `AbandonClockRuns`, `PhaseFollowsSet`, `HumanIsOnTheClock`, `AiHoldsSeatOfAbsent`, and of steps `SeatIsKept`, `NextSetNeedsConsent` | hold |
| `room_mini_game` | `PhaseFollowsSet` when the result of a mini game may end a game | violated |
| `server` | timers follow the room (`PhaseTimerFollowsRoom`, `LifeTimerFollowsRoom`), sockets and members agree (`ConnectedMeansOnline`), decisions that take long, late and repeated moves (`AiYieldsToHuman`, `MoveFitsPosition`) | hold |
| `server_drain` | `DrainStartsNoSet` | violated |
| `server_live` | `ResultEnds`, `DesertedRoomEnds`, `LobbyEnds`, `PauseEnds`, `GameGoesOn` | hold under `FairSpec` |
| `game` | `CardsConserved`, `StandingsFit`, `TurnHolderCanMove`, `FieldIsContested`, `SkipsResolveAsLoop`, and of steps `NobodyIsPassedOver`, `LeadIsTheOwners`; that no game gets stuck (deadlock) | hold |
| `game_cleared_field` | `TurnIsInTheGame` when rules clear the field and take it away at once | violated |
| `game_simultaneous` | `AnswersAreTaken` when a rule follows up on one of several simultaneous answers | violated |
| `scoring_ties` | `EqualPointsEqualRank` | violated |
| `release` | `MergedAsReviewed`, `StatusesAgree`, `ProvenanceKept`, of steps `RevertedStaysOut`, and `ImplementsDelivery`, the refinement | hold |
| `release_provenance` | `PlayedIsAccepted` when a pull request is merged that the job goes on without | violated |
| `proposals` | `CardsAddUp`, `DecisionStands`, `NobodyForgotten`, `UnreadTillShown` | hold |

The runs that hold also check the type invariant of their module.

What the violated ones show:

- **A mini game that ends the last game leaves the room behind.** `miniGameAction`
  takes over only the engine and the turn's deadline. When the result completes
  the set, the room stays `playing`: no result is shown, no member is settled, no
  timer is set, and what E03 calls the moment of writing the result does not
  come. `MiniGameEndsGame` is `FALSE` in the other runs, so that they speak of
  the rest of the room.
- **A draining server starts sets.** `room:start` and `room:continue` are refused,
  but a departure at the set result and the end of the response time deal a new
  set, which the exit then waits for.
- **The turn stays where it is.** One rule asks for the field to be cleared, another
  moves all of its cards away: `clearFieldWithHook` finds no field and returns, and with it
  the choice of the next turn is left out. A player who has just played the last card
  keeps the turn, with no card to play and no field to pass on. `FieldMayVanish` is
  `FALSE` in `game`, so that it speaks of all other combinations.
- **The last answer is refused.** A follow-up to an answer other than the last of several
  simultaneous ones takes the place of the next player's request, the loop that applies
  the answers stops there and rejects the one that has just come in. Nothing changes, so it
  happens again. `AsksOn` is `FALSE` in `game`. In `RoomServer` such a game would be one whose
  decisions are never accepted, which the fairness below excludes.
- **A tie of three is no tie.** The third of three entries with equal points gets the rank
  below: 10, 4, 4 and 4 points are the ranks 1, 2, 2 and 3.
- **The registry takes the job's word for the code.** The number of the pull request and
  the merge commit in `rule_versions` are copied from the job, not read from what is deployed.
  `prepareImplementationRetry` closes an open pull request and goes on when it is merged: the
  code of that one is on main and may be in an image, the job gets another one. When the first is
  reverted, the second merged and recorded, and the old image started, the registry registers the
  code of the first under the number of the second and lets it be enabled. E07 has provenance
  checked before a rule is enabled.

Bounds of the room. `MaxTurnSeq` bounds the accepted moves, `MaxSets` the sets, `MaxRank`
the order of joining, `MaxFlaps` the disconnections. In `room` two seats and three users
give a full table, an AI seat to take over, a user in the way and a departed one; two
sets give a set result with everything that can follow, two games in a set a pause, also one
whose next game ends at its start. Two moves give choices that are asked for together and answered
one after the other. The limits are one or two units of time, different where their order
matters (`TurnLimit` and `DisconnectedLimit`, `LobbyTtl` and `LobbyGrace`). `server` adds timers,
sockets and messages for two users, with one set of two games, two accepted moves and
one disconnection; one of the users sends moves, the AI may think while time passes. The second
move matters: a move composed at the first turn meets another turn, again or late, and two choices
that are asked for together are answered one after the other. `MCView` takes states of `server`
for one that no later step tells apart: which decisions come too late to fit the room (all end in
`DecideInVain`), what is in a message that is late (turns do not come back, so none is accepted;
that one is on its way is kept, and delivering it is still tried in every state), all messages
once `MaxTurnSeq` accepts no move any more, the clock of the lobby after the lobby, and all but
members, sockets and timers once the room is closed or the server exits. `server_live` has two
sets and no messages: its properties are about what happens when nobody does anything. Deadlock is
not checked there: a closed room and an exited server stop.

A game has three players and four cards, so that one holds two: somebody can play and
stay, the other two finish with a play, and when one is out or ranked two go on. `MaxEffects`
bounds effects and requests of a whole game: two, in one batch, in two hooks or as a
request with what follows it, meet in every pair. `MaxSkip` of 2 (3 in the code) makes a
skip last longer than a round with two players left. `TurnLimit` of 6 (1000 in the code) is
reached by passing and skipping as well as passed over. With `Rules` of 2 another rule
has its turn when the first request is done: to ask, or to have effects. The sets of
`scoring_ties` have the four players and up to three games of the code.

`release` has three attempts (both kinds of retry, and one after the limit of `FailureLimit` is
reached), three scaffolds, so that a branch is deleted and pushed anew, two SPECs, two commits on a
scaffold (a correction of a pull request that is open), two pull requests and two changes of
main: a merge and its revert. `IncidentThreshold` is the code's. `release_provenance` needs a
third change of main, and makes up for it with fewer attempts.

`proposals` has scenes: a behaviour keeps to one of them, which bounds it where it does not
look. In the first a user collects cards: three proposals that are blocked, over so much time that
a card expires before, while and after a suspension runs, with an appeal. In the second two users
have two proposals, any verdict and four judgements: two of the AI and two of the developer, an
amendment among them, with two prompts of which one has two runs. In the third an author with two
proposals, which are checked, judged and decided, reads the list while time passes, on the screen
and with other clients; in the fourth two authors do, whose proposals are blocked. What meets in none of them, cards and lists for instance, shares no
variable but the status. Proposals that no tool takes on and jobs nobody works on stop: deadlock is
not checked in these runs.

Fairness (`FairSpec`). Time passes and timers fire (weak fairness of `TimeGoesOn`,
`FirePhase`, `FireTurn`, `FireLife`): `setTimeout` of a running process. A promise
of a decision is settled (weak fairness of `ThoughtOver`): the AI has a budget and a
fallback. A decision asked for again and again is one the game accepts in
the end (strong fairness of `Thought`): without this the code retries for
ever. Nothing is assumed of clients, of the network and of the sweep, whose work
the timers do alone. `GameGoesOn` needs the bound `MaxFlaps`: `connectionChanged` computes
the deadline of whoever is to move anew when anybody drops out or comes back (reducer.ts:1036), so
that endless disconnections put a turn off for ever. The pipeline has no liveness properties: it
moves when people and tools do, of whom nothing can be assumed. `NobodyForgotten` says instead that
whoever asks what there is to do is told.

## The proofs

**RoomProofs** proves `TypeCorrect`: `Spec => [](TypeOK /\ EngineSound(engine))` for
all values of the constants that satisfy the assumptions of `Room`. `TypeOK` alone is
not inductive: that `NextRequest` is a member, and that the count of results stays
below `GamesPerSet`, depend on what the engine can be in. `EngineSound` says it: the
engine has its type, a game is on exactly in the phase `gameInProgress` and then asks
somebody, and until the set result there are results to spare. `TypeInv` is the conjunction.
The proof has one lemma for each helper (a started game, a move, the end of a game, a settled
table and so on) and one step for each action.

**RoomSafety** proves, on top of `TypeInv`:

- `OneSeat`: `OneSeatPerUser`, inductive by itself;
- `PhaseFollows`: `PhaseFollowsSet`, from the assumption `~MiniGameEndsGame`; the
  run `room_mini_game` shows that it is needed;
- `AiHolds`: `AiHoldsSeatOfAbsent`, inductive by itself: it speaks of the lobby, where
  nobody is played by the AI, as of the sets;
- `AbandonClock`: `AbandonClockRuns`. Its lemmas show that settling a set and dealing
  a new one keep who is connected;
- `OneHost`: `OneHostInLobby`. The next host is a `CHOOSE`, so that one is there has to be
  shown: `LeastExists` finds a least element of any set that is numbered, from the library's
  theorem that the strict subsets among finite sets are well-founded (the elements are told
  apart by the sets of numbers up to theirs);
- `OnTheClock`: `HumanIsOnTheClock`. Whom the game waits for depends on who is automated,
  so a departure may change it without a move; `ClockLeavePlaying` shows that a human who is
  waited for after it was waited for before it;
- `FullTable`: `TableIsFull`, by counting humans and AIs at the table;
- `SeatsKept` and `ConsentNeeded`: the action properties `SeatIsKept` and
  `NextSetNeedsConsent`, the second with `ResultClock` (a result is shown under a clock).

**ServerProofs** proves the safety properties of `server`. That the room under the server takes
only steps of Room is not there for the asking: who acts must be online, a timer that fires must
be the one the room calls for, the AI must have been asked about a member it plays for. This in
turn holds only as long as the room takes no other steps, so one invariant, `ServerInv`, carries
both. Next to the properties themselves it says

- `RoomInv`: the type invariant, `OneSeatPerUser`, `AiHoldsSeatOfAbsent` and `MembersSound` (an AI
  is always there, no two users have the same rank), which is what the proofs about the timers
  need of the room;
- `TimerSound`: a timer has just the time left that its specification names, unless it is a turn
  of somebody the AI plays for or whose time is up;
- `InFlightSound`: a decision of the AI that is on its way is for a member who is an AI or has
  departed, for somebody whose time was up, or for a moment that is over;
- `SentSound`: a move sent for the turn the room is at was sent in the room's very position.

`ServerSteps` splits the steps into those that bring somebody in or out (`PresenceStep`) and all
others (`SteadyStep`), `CarriedStep` says what the latter leave of a member. `TickPhaseSpec` and
`TickLifeSpec` show that the passing of time does to the timers a room calls for what it does to
those that are set. Theorems: `ServerTypes`, `Online`, `PhaseTimer`, `LifeTimer`, and the action
properties `AiYields` and `MoveFits`. `RoomStaysSafe` and `RoomStepsSafe` carry over what RoomSafety
proves of the room alone; only the sweep of the lobby had to be looked at again.

**ReleaseProofs** proves the properties of `release`. `TypeOK` is not inductive here either.
`TypeInv` adds `HistorySound` (main and the images name pull requests that exist and were merged),
`WorkspaceSound` (only a commit can be built on), `JobSound` (a job has the fields its phase needs,
and its head builds on its scaffold) and `CommandSound`: what a command has read still is what the
job says, but for the phase. The last is what makes broken-off and interleaved commands safe: a
report is accepted only from the phase and attempt the command has seen, so if it is accepted
nothing else has moved. From it follow

- `TypeCorrect`, `Merged`, `Statuses`, `Provenance` and the action property `Reverted`, for any
  bounds and whether merges stay on record or not;
- `Accepted` and `Implements`, from the assumption `MergesOnRecord` and the further invariant
  `MainIsOfJob`: whatever main has held is the job's pull request, and no retry is under way. The run
  `release_provenance` shows that the assumption is needed. `Implements` maps each action to one of
  `RuleDelivery` or to a stutter; `AcceptedOnly`, in `RuleDelivery`, is what it is worth.

**CardProofs** has the inductive invariant of the cards, `CardInv`, as lemmas: its conjuncts say
which cards a suspension was paid with, that each card paid at most one that stands, that a user
has no card that counts while suspended, and that the running suspension is one and the same as
the copied date. One lemma per action keeps it.

**ProposalProofs** proves the properties of `proposals` with it. The invariant `Inv` adds
`LatestExists`, `JudgementsSound`, for each proposal `Stands` and `Approved` (the shape of its
judgements in each status) and `NewsSound`. `LatestExists` says that among the timestamps of
proposals there is a greatest: the prover has no induction over finite sets, so that the code's
`MAX` is defined is carried along as an invariant. `NewsSound` says that what a screen is about to
have marked lies below every change its author was neither shown nor had marked otherwise, which is
true since timestamps are never given twice, and that what another client had marked lies at or
below the mark, which never goes back. Theorems: `TypeCorrect`, `Decisions`, `Forgotten`, `NewsUnread`, `CardsAgree`.

**GameProofs** proves every property of `game`, for every number of players, every deck and any
bounds, from the assumption `~FieldMayVanish`: no rule clears the field and takes its cards in one
batch. The run `game_cleared_field` shows that it is needed. The inductive invariant is `Settled`:

- `Sound`: the game has its type, every card is in one place (`CardsFit` names it for each), and
  exactly those who are out have a standing, each his own (`Ranked`);
- the game is finished, or somebody is to move (`ToMove`: he is active, owes no skip, the field is
  contested, and the game is not decided), or choices are open (`ToAnswer`).

None of the properties is inductive without the others. While choices are open the rest of a hook
is yet to come, and what it relies on has to be remembered (`Answerable`); that resolving the skips
ends with the field contested or over needs that somebody can still beat it (`Contested`). The
lemmas follow the code: effects, the next turn, clearing the field, requests and their answers, and
then one per action. Some arguments are of their own:

- a free standing is always left, by counting (`FreeStandings`);
- `ResolvedIs`: a player `k` places away who owes `n` skips gets his turn when `n` rounds and `k`
  turns have gone by; the first to do so stops the resolution unless all others have passed before;
- `TurnsGoRound` and the lemmas around it: going from one active player to the next takes them in
  the order of their places, and round again, in either direction;
- `ServedAtOnceSettles` and `LoopIs` are about functions that are defined by recursion on numbers.
  Such a function is shown to be what it should be by building one that fits its definition, or by
  the least number at which a claim about it fails: the prover has no induction that takes a
  predicate.

From `Settled` follow `GameTypes`, `Cardkeeping`, `Standings`, `TurnHolder` and `ContestedField`.
The action properties `NobodyPassedOver` and `OwnersLead` need to know in which steps rules had no
part: `QuietOrMore` says of a hook that it used up one of the effects or left the game as it was.
`ClosedForm` says that `Resolved` does what `Loop` does in every state, reachable or not, and
`SkipsAsLoop` is what the run checks of it.

Only model-checked: the liveness properties and `AnswersAreTaken`, which speaks of ENABLED (both out
of the reach of the prover), and what the runs that expect a violation refute. Nothing is proved of
Scoring yet.

## Not modelled

- Several rooms with the users' index and the invitation codes (`RoomManager`): what one room does
  is independent of the others, but that a user sits in one room only is not shown.
- Mini games, the legality and the strength of plays, the order of priority of rules, the rules
  themselves: Room and Game allow whatever they could decide. Replay and snapshots, which rest on
  the game being a function of its inputs, and for that on the rules.
- Of the registry: several versions of a rule, maintenance of a rule after its release (a path of its
  own, `scripts/diff-guard.mjs`), legacy rows, pins of running sets. Reopening a closed pull request.
- Votes and popularity; notifications and push; the worker pool of the AI. They follow what is
  modelled and nothing modelled depends on them; of the votes only their outcome matters to a rule.
- How screening comes to its verdict, the text of prompts and patterns, views, HTTP routes, login,
  the pages of the administration, screens and styles of the web client, the simulation. They compute
  data and keep no state that other parts depend on.

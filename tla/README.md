# kuafu in TLA+

kuafu is a small C++11 library: a finite state machine, a set of machines fed by
a queue and emptied by a background thread, a blocking queue, and some helpers.
This directory holds TLA+ modules of its concurrent and reactive core, the TLC
configurations that check them on small instances, and TLAPS proofs of the
properties that matter most for every value of the constants.

Paths below are relative to `src/`. Definitions keep the names of the code where
TLA+ allows it (`current_state_`, `ForceState`, `event_fifo_`, ...); `PROJECT.json`
maps each definition to the lines it stands for.

## 1. Inventory

| Component | State | Operations | Interacts with |
|---|---|---|---|
| `Fifo<T>` (`util/fifo.h`) | `fifo_`, `mutex_`, `condition_` | `Add`, `Clear`, `GetNext()`, `GetNext(ms)`, read-only `Empty`, `Size`, `MessageAvailable` | any threads; the queue of `MachineSet` |
| `StateMachine` (`fsm/machine.*`) | `current_state_`, `previous_state_`, `meta_state_`, `states_`, `timeout_ms_` | `Process`, `ForceState`, `SetStartState`, `SetMetaState`, `ClearMetaState`, `SetTimeout`, `IsTimeout` | calls `OnExit`, `OnTransition`, `OnEnter` and predicates, which are user code; arms its timer through the event's `MachineSet` |
| `State`, `Transition`, predicates (`fsm/state.*`, `fsm/transition*`, `fsm/timeout_predicate.*`) | the ordered `transitions_` of each state; `to_` (a weak pointer), type, predicate | `MakeState`, `MakeTransition`, `IsMatch`, `ClearActions` | walked by `StateMachine::Process` |
| `MachineSet` (`fsm/machine_set.*`) | `event_fifo_`, `machine_list_`, `machine_set_`, `event_handler_`, the background thread and its stop flag, `OnProcessError` | `Enqueue`, `Process()`, `Process(event)`, `StartBackground`, `StopBackground`, `ProcessTimeoutMachine`, `GetMachine`, destructor | puts itself into events; calls `Process` of its machines |
| Events (`fsm/event.h`, `fsm/add_machine_event.h`, `fsm/timeout_event.*`) | target machines, weak pointer to the set | constructors, `ToString` | |
| `MachineSetHandler` (`fsm/machineset_handler.*`) | user defined | `OnEventEnqueue`, `OnUpdateMachineTimeOut`, `ProcessEvent`, `ProcessTimeOutMachine` | an external event loop instead of the queue and the timer scan |
| `ActionMachine`, `NonTransitiveAction` | `non_transitive_actions_` | `Process` | |
| `Logger` (`log/kflogger.*`) | `logger_`, an `atomic_flag` and an atomic `bool` | `Init`, `Uninit`, `Instance` | every thread that logs |
| `ExternalLogger`, `StrUtil`, `TimeUtil`, `stdext`, `MachineType` | none to speak of | helpers | |

What is hard in this code, and what each component owes its users:

* **Fifo.** Timed and untimed waiters share one condition variable and `Add`
  wakes one. No message may be left while somebody waits, a timed call may come
  back empty-handed only when there is nothing, and it must come back.
* **StateMachine.** `Process` runs user code three times in the middle of its
  work, and that code may force states, change the meta state and set the timer.
  What the machine does must still be what the table of transitions says, in the
  order of the table; its loop must stay on the vector it started on; the timer
  must be that of the state entered.
* **MachineSet.** The members have no lock: only one thread may use them. What
  the members are, and which of them an event reaches, must follow from the order
  in which events were enqueued. The background thread must serve every event and
  every timeout, survive machines that throw, and stop soon when told to.
* **Lifetime of a set.** Who drops the last reference decides which thread runs
  the destructor. A set that is gone must not be used, and the process must not
  end because of it when the application stops the thread first.
* **Handler.** Events and deadlines live in two places, the library's and the
  application's. No event may be lost between them or processed twice, no machine
  may get the same timeout from both, and the two deadlines of an entry may not
  part, so that one is left over when the other is used up.
* **ActionMachine.** It consults a vector to which its actions may append; what an
  event does must not change because of that.
* **Logger.** `Init` races with itself, with the macros and with `Uninit`, and may
  throw. Nobody may write to a logger that is half set up.
* **Helpers.** `size_t` and `unsigned long long` wrap; times are cut to milliseconds.

The full list of hazards, with their lines and the properties that cover them,
is in `PROJECT.json`.

## 2. Plan

Done:

1. `QueueSpec`, `Fifo`, `FifoProofs`: the queue and that it is one.
2. `StateMachine`, `StateGraph`, `StateMachineProofs`: the machine, that it follows
   its table, that it walks a graph, and how long a call takes.
3. `SetSpec`, `MachineSet` (over `QueueSpec`), `MachineSetTimers`, `MachineSetProofs`:
   queue, members and threads, that they are the set a user has in mind, and how
   long a timeout waits in a burst of events.
4. `MachineSetLifetime`, `MachineSetLifetimeProofs`: who destroys a set, and when
   that goes well.
5. `ExternalHandler`, `ExternalHandlerProofs`: a set under the event loop of the
   application, the same `SetSpec`, and `ActionMachine`.
6. `Logger`, `LoggerProofs`: `Init`, the macros and `Uninit`.
7. `StrUtil`, `TimeUtil`, `UtilProofs`: strings, and the arithmetic of deadlines.
8. `SequenceLemmas`: what the proofs need of appending to, cutting, searching and
   reversing sequences, beyond what the prover's library states.

Next, in this order:

1. `Logger` against a contract in which `Init` happens at once and exactly once.
2. `StateGraph` inside `SetSpec`: a set of graphs that all see the same sequence of
   events.
3. A handler that is taken back or replaced while events are on their way.

## 3. The modules

### Fifo

`QueueSpec` is the contract: a queue and, for each consumer, the call it is in
and what the last one returned. `Fifo` is the code. Every access to `fifo_` is
made under `mutex_`, so a critical section is a step; a call of `GetNext` is
several, since it gives the mutex back while it waits. `pc` says where a consumer
is: *checking* the predicate, *waiting*, or *expired*, that is, after the deadline
and before the last evaluation of the predicate that `wait_until` makes. `Expire`
may hit a consumer that has just been notified, and a wait may end for no reason
(`SpuriousWakeup`). The clock is not modelled: a deadline passes at some time.

### StateMachine

A state of the model is the fields of the machine, the transitions of all states,
and the locals of the running `Process` (`call`, `phase`). One step is a stretch of
code between two pieces of user code:

| Action | Code (`fsm/machine.cc`) |
|---|---|
| `Dispatch`, `TimerExpires` | entry into `Process`; for a timeout the set first switches the timer off (`machine_set.cc:100-106`) |
| `Match` | the first loop up to the `IsMatch` that holds |
| `ExitReturns` | `OnExit` has returned or thrown |
| `TransitionReturns` | `OnTransition` of a normal transition has: commit of the target, arming of the timer, up to `OnEnter` |
| `InternalReturns` | `OnTransition` of an internal transition has: commit, and on with the loop |
| `EnterReturns` | `OnEnter` has: `return true` |
| `MatchMeta`, `MetaInternalReturns` | the second loop, over the meta state |
| `MatchNothing` | both loops have ended: `return false` |
| `PredicateThrows` | `IsMatch` is outside the `try` blocks |
| `MakeTransition`, `ForceState`, `SetMetaState`, `ClearMetaState`, `SetTimeout` | calls of user code, the last four also from inside callbacks |

Since each callback stands in a `try` block that catches everything, one that
throws is the same as one that returns. A predicate is the set of events it
accepts. `NoState` stands for a null pointer and for a weak pointer that has
expired; a state of another machine (in `States` and not in `Owned`) may be a
target, but not be forced. `ForceState` of a state the machine does not own
changes nothing and is left out. Two history variables, `fired` and `setBy`, serve
the properties.

`StateGraph` is what a user has in mind: edges, a current node, and one atomic
decision per event. The refinement maps the current node to the target of the
transition as soon as it has been chosen: from `Match` on nothing that a callback
does can change where the machine ends up, until `OnEnter` runs.

`StepsLeft` bounds the steps a call has still to take: two for each transition
the first loop has not tried, a match and a callback, and a few for the end.

### SetSpec

The contract of a set, whoever drives it. There is no queue, no list and no thread:
events are submitted; one at a time is begun, and each once; an addition or removal
changes the members at a stroke (`Change`); any other event reaches every member
it is for and nobody else (`Reach`, `Complete`), while the members stay what they are.
Only if a machine fails (`Fail`) may it miss the rest. `InOrder` says whether events
are begun in the order in which they were submitted.

### MachineSet

`MachineSet` takes its queue from `QueueSpec` (which `Fifo` implements) and adds
the members, their timers, the background thread and one *owner*, the thread that
starts and stops the background thread and, while there is none, may call
`Process()`. Steps are cut where the threads interleave: the test of the stop flag,
`GetNext`, one machine of a broadcast, one machine of the timer scan. A machine's
`Process` is one step that sets, clears or keeps its timer, or throws
(`DeliveryThrows`, `VisitThrows`); what happens inside is `StateMachine`'s matter.
An exception leaves the thread's function, and ends the process (`terminated`),
when it comes from the timer scan or when `OnProcessError` was never assigned.
The history `log` is the sequence of all events ever enqueued, and `given` that of
the machines that have had the event at hand. *delivering* is the walk over the
members, *catching* the `catch` block around it (`ErrorEnds`), which calls
`OnProcessError`.

`ImplementsSet` maps it to `SetSpec`, in order: `log` is what was submitted, the first
`Processed` of it are done, `machine_set_` are the members and `given` those reached; a
set that is catching has failed. An event is processed from `GetNext` to the end of
`Process(event)`, by whichever thread; the timer scan is a stutter.

### MachineSetTimers

`MachineSet` with one more history variable: `overtaken` counts, for each machine,
the events that the background thread has taken since it was due and a member.
Eventual service would also hold of a thread that looks at the timers only when the
queue is empty, as long as every burst ends, and in a model with `MaxLog` events every
burst does. A bound on `overtaken` (`OneEventOvertakes`) is broken by such a thread in the
second event of a burst, and is proved for bursts of any length.

### MachineSetLifetime

The same class seen from its `shared_ptr`s. The application's threads hold, copy and
drop them; the background thread makes two of its own, one around each timeout
event (`Promote`, `Demote`) and one from the commit of a transition to the end of
`OnEnter` (`Enter`, `Leave`). Whoever drops the last one runs the destructor: `Clear`,
then `StopBackground` (`TestFlag`, `StoreFlag`, `Join`, or `JoinItself` on the background
thread), then the destruction of the members (`Release`), where a `std::thread` still
joinable ends the process. `StopBackground` may be called by the owner and, with
`CallbackStops`, by a callback. What machines do is left open: a machine may or may
not make a transition, a timer may or may not be due. `careless` remembers that the
set was let go of without a finished `StopBackground`, or stopped by a callback.

### ExternalHandler

A `MachineSet` with a `MachineSetHandler`. The background thread is replaced by one
thread of the application, its *loop*. What the handler does is the application's;
it is modelled as one that keeps events in order and one alarm for each machine.

| Action | Code |
|---|---|
| `Enqueue`, `AddToFifo` | `Enqueue` on any thread: the handler is asked and keeps the event, or the event goes into the queue, in a step of its own |
| `RegisterHandler` | `RegisterHandler`, at any time at which the loop is idle and nobody is inside `Enqueue` |
| `ProcessEvent` | `MachineSetHandler::ProcessEvent`: one of the events kept |
| `CallProcess`, `Take`, `StartScan`, `Visit`, `VisitThrows`, `ScanEnds` | `Process()`: the events of the queue, then the timers, unless there is a handler |
| `Operate`, `StartDelivery`, `Deliver`, `DeliveryEnds`, `DeliveryThrows`, `ErrorEnds` | `Process(event)`: an addition or removal, or one machine of a broadcast after the other, and the `catch` block around them |
| `AlarmRings` | `ProcessTimeOutMachine`: a timeout for a member, lost for any other machine |
| `ClockPasses` | a deadline in `timeout_ms_` passes |
| `SetTimeout` | `SetTimeout` (`machine.cc:62-64`) by the application or in a callback, of any machine |
| `MakeNonTransitiveAction` | `NonTransitiveAction::Init`, by the application or inside `OnAction` |

A machine's whole `Process` is one step: it enters a state and sets timer and alarm
(`EnterState`), does not (`Stay`), or the handler throws between the commit of the
target and `SetTimeout` (`HandlerThrows`). Which state a machine is in is the matter of
`StateMachine`; here it may enter any. `Stay` is also what an internal transition of the
meta state does (`machine.cc:259-262`): it moves the machine without an entry, and
leaves timer and alarm as they are. So does `ForceState`, which is no step here.
`SetTimeout` in a callback is a step of its own behind that of its machine: nothing
in between looks at the timer. An action machine runs the first action that accepts
the event (`Act`).

The history variables are `log` and `processed`, the events given to `Enqueue` and those
done with; `armed`, the state whose alarm a machine last got, until one of its deadlines
is set or used up without the other; `told`, the timeouts it has been given since one was
set for it; `answer`, the action that each event has run; and `given`, the machines
that have had the event at hand.

`DeadlinesAgree` and `OneTimeoutEach` are about these two clocks. What the code does not
promise, they do not say: an alarm of an earlier state does ring in a state that has no
timeout of its own (the handler is not told, `machine_set.cc:207`), in one to which the
machine was moved without an entry, and in one for which the handler failed.

`ImplementsSet` maps it to `SetSpec` without the order: an event that the handler keeps
may overtake one in the queue, or the other way round.

### Logger

One step for each line of `Init` that another thread can see: `CallInit` is the
`test_and_set`; the first caller goes through `AddFileAppender`,
`AddConsoleAppender`, `SetLogLevel`, `Publish` and `Finish`, or throws (`Throw`) where
something is allocated; the others wait in `SpinEnds`. A macro reads `logger_`
(`Log`) and then gives log4cplus a record (`AppendRecord`); between the two, other
threads may do anything. `Uninit` closes the appenders and leaves the pointer.

`logger_` is a plain pointer. `synced` is the set of threads for which its write
happens before their reads: the one that wrote it, and those that waited for
`sKuafuLoggerInitFinished`. Any other thread may still read null after the write
(`Instance`). When it does read the pointer, it finds the appenders and the level as
they are: the appenders are behind a lock of log4cplus, and the models assume of
the rest that stores become visible in their order, as they do on x86-64. The C++
standard calls this read a data race and promises nothing.

### StrUtil, TimeUtil

Pure operators. `SizeRange` and `WordRange` are the number of values of `size_t` and of
`unsigned long long`, 2^64 on the machines kuafu is written for; differences and
sums wrap there. `StrUtil` also has what the names promise, by prefixes and
suffixes, and `TimeUtil` what a user expects of a deadline. `Logger` uses the first
(`NullOrEmpty`). `MCLogger` evaluates both on bounded inputs.

## 4. The runs

| Run | Instance | Shows |
|---|---|---|
| `fifo` | 3 consumers, 2 messages, queue of 3 | `NoLostWakeup`, refinement of `QueueSpec` with its fairness |
| `state_machine` | 2 owned states, one with a timeout, 2 events, up to 2 + 1 transitions | `LoopStaysOnItsVector`, `TimerBelongsToState`, `FollowsTheTable`, refinement of `StateGraph` |
| `state_machine_deep` | a state that is not owned, one event, 3 + 2 transitions | order within a table (`FollowsTheTable`); every call ends, and in a number of steps bounded by its table (`CallTerminates`, `CallsGetShorter`) |
| `machine_set` | 2 machines, a broadcast and an event with both as its targets, 4 events in all | members and deliveries follow the log; refinement of `SetSpec`; one user at a time; `Process()` does not block; prompt stop; a due member waits for one event of a burst at most |
| `machine_set_live` | 2 machines, a broadcast and an event with two targets, 3 events in all | every event and timeout is served in the end, `StopBackground` returns |
| `lifetime` | 3 users, 2 machines, a queue of 3, callbacks that may stop the set | a freed set is quiet; only the careless die; `StopBackground` leaves no thread; the last drop frees |
| `destructor_stops` | as `lifetime`, no callback stops the set | the disagreement about the destructor, section 6 |
| `external_handler` | a state machine with 4 states (two timeouts, none, a negative one), an action machine with 2 actions, 3 events, additions or removals | no event lost or doubled; refinement of `SetSpec`; deadline and alarm of an entry agree; one timeout each time one is set; an event keeps its action; every event is processed |
| `logger` | 3 threads, 3 file names (null, empty, one), 2 levels, 2 severities | records go to a whole logger or nowhere; `Init` returns unless the first one threw; `Uninit` is for good |
| `meta_internal_keeps_state`, `unhandled_fires_nothing`, `survives_lost_target` | as `state_machine_deep` | the disagreements of section 6 |

Why these bounds are enough. In `Fifo` the interesting cases need one consumer
that sleeps, one that expires and one that overtakes, and more messages than
sleepers. In `StateMachine` they need an internal transition before a normal one
for the same event, two states to force between, a meta state that is also an
ordinary one, a transition without a target, and states with and without a
timeout; the tables are not fixed but built by `MakeTransition`, so every table up
to the bound is tried. In `MachineSet` they need an addition, an event, a removal
and another event, with a thread at work while they are enqueued; and an event
whose targets stand in an order that is not that of the broadcasts. A timeout can be
overtaken twice after one addition and three events, which four leave room for. In `ExternalHandler`
they need an addition, one event in the queue and one with the handler, or an
addition, an entry and a removal before the alarm rings, so three events; two
states with timeouts, so that an alarm can be that of another state; and two
actions, so that one can come before the other. `am` is not removed there:
removals are tried on `sm`, which has the timers. In `Logger` they need a winner, one
that waits and one that only logs. Bounds of the models and nothing else: `MaxLen`,
`MaxTransitions`, `MaxLog`, `MaxActions`, `MaxEvents`.

The run `logger` also evaluates, as assumptions of `MCLogger`, `StartsWith` and
`EndsWith` on all pairs of strings of up to three characters, and deadlines around
the ends of their periods, with words of 16 and 8192 values.

Deadlock is not checked where the process may be gone (a null target
dereferenced, an exception out of the background thread) or everything may be
over: the system does stop there. `Logger` stops when the first `Init` has thrown
and every thread waits for it.

Each property has a mutant in `PROJECT.json`: a definition with a plausible
fault (`ReturnUnchecked`: an expired `GetNext` that does not look once more;
`InternalKeepsForced`: a loop that does not restore the state; `GetNothingAndRetry`:
timers looked at only after events; ...) under which TLC finds the property
violated.

## 5. Fairness

* `Fifo`: weak fairness of each consumer's own steps inside `GetNext`. No critical
  section blocks, so a thread that wants the mutex gets it, and time passes.
  Nobody is obliged to add, clear or call.
* `StateMachine`: weak fairness of the matching steps and of the return of
  callbacks: the code has no loop that waits, and user code returns.
* `MachineSet`: weak fairness of each of the two threads while it is inside the
  library. Nothing obliges anybody to enqueue, start, stop or pump, and no timer
  has to run out.
* `MachineSetLifetime`: weak fairness of each user inside `StopBackground` or the
  destructor, and of the background thread; its loops are finite walks over the
  members. Nobody has to start, stop or let go.
* `ExternalHandler`: weak fairness of the second half of `Enqueue` and of the loop
  inside the library; strong fairness of `ProcessEvent` and `CallProcess`, since an
  event loop comes back to both again and again while it is idle only in between.
  This is asked of the application. No alarm has to ring and no deadline to pass.
* `Logger`: weak fairness of each thread inside `Init`, the wait included. Nobody has
  to call `Init`, and a thread may wait with its record for ever.

## 6. Where the code disagrees with its own text

* `fsm/machine.cc:259`: an internal transition of the meta state makes the meta
  state current (its `to_` is the state it belongs to), without `OnExit`, `OnEnter`
  or timer. The comment at line 261 says "transitions to meta-state do not change
  the current state".
* `fsm/machine.cc:200`: the `return true` of a matched transition is inside the block
  of normal transitions. After an internal one the loop goes on: several
  transitions may fire for one event, the meta state is consulted as well, and if
  nothing else matches, the set logs "Unhandled event" (`fsm/machine_set.cc:173`).
  The properties of `StateMachine` describe this behaviour as it is.
* `fsm/machine.cc:181, 190, 275`: the target of a transition is dereferenced without
  a test; lines 123, 148 and 265-266 expect it may be missing.
* `fsm/machine_set.cc:103`: the destructor calls `StopBackground` (line 31), and
  `examples/fsm/test_fsm.cc` relies on it, but a timer that is due while the destructor
  waits makes `shared_from_this()` throw `bad_weak_ptr` on the background thread,
  outside of any `try`: the process ends. It also ends when the background thread
  itself drops the last reference and joins itself (line 230).

Two more, for which no step has to be taken:

* `util/strutil.h:31`: `EndsWith` is true of any two strings of which the second is one
  character longer, since `npos` is the `size_t` that the difference of the lengths
  wraps to. `EndsWithIsSuffix` states just this.
* `fsm/machineset_handler.h:34`: the parameter of `OnUpdateMachineTimeOut` is called
  `seconds`; what it is given are milliseconds (`fsm/machine.cc:181`,
  `fsm/machine_set.cc:206`).

## 7. What is proved

All theorems hold for every value of the constants under the named assumptions
(`FifoAssumption`, `StateMachineAssumption`, `MachineSetAssumption`,
`LifetimeAssumption`, `ExternalHandlerAssumption`, `LoggerAssumption`,
`StrUtilAssumption`, `TimeUtilAssumption`), which say only that the sets are disjoint,
finite or of numbers where the code has it so.

* **Fifo.** `TypeCorrect`; `WakeupsAreKept`; `FifoIsAQueue`. `NoLostWakeup` is inductive
  with the types: an `Add` wakes a sleeper if there is one, a consumer that takes
  a message removes one of each side, and one that leaves without a message does
  so only from an empty deque. The induction is over steps, with the cardinality
  of the set of awake consumers counted by the lemmas of `FiniteSetTheorems`.
* **StateMachine.** `TypeCorrect`; `LoopIsSafe`, `TimersAreTheirStates`. The invariant
  behind them is `WalkInvariant`: besides the two properties it says that, while
  `OnExit` or `OnTransition` runs, a timer still marked as left by an entry means
  that no callback has forced another state. That is what makes it right to put the
  old state back after an internal transition.
  `TableIsFollowed`: of the transitions one event fires, each was the first to accept
  it behind the one before. Its invariant `FiredSoFar` says what has fired while the
  call is under way; it needs `PassedOver`, that those the loop has passed were
  internal or did not accept the event.
  `CallsAreShort`: every step of a call leaves fewer ahead of it, 2n + 4 for a state of n
  transitions. The iterator never leaves the table (`WithinTheTable`), and no callback
  sends it back, since what callbacks force is overwritten before the loop goes on.
  It is what makes `CallTerminates` true, once the steps are taken at all.
* **StateGraph.** `MachineIsAGraph`, in `StateMachineProofs`: every step of `StateMachine` is a
  step of the graph or a stutter. It needs that the transition chosen stays the first
  that matches (`ChosenStays`), and `PassedOver`.
* **MachineSet.** `MembersAreSafe`, `ProcessReturnsAtOnce`, `StopIsPrompt`, from
  `TurnsAreInvariant`: the owner is in `Process()` only while the background thread
  does not exist or has ended, and the events taken late are counted by where the
  thread is.
  `TypeCorrect`, together with the agreement of the two views of the members
  (`MembersAgree`): neither is inductive alone, since it is `machine_set_` that keeps
  a machine from being added to the list twice. `MembersAreThoseOfTheLog`: the queue
  is always the rest of the log, and the event at hand the last one taken
  (`QueueIsRestOfLog`); the members are those that the events processed so far leave
  (`MembersFollowEvents`), an addition or removal being the step that counts.
  `DeliveriesAreThoseOfTheLog`: the event on its way to the machines is the next of the
  log, and it has gone, in their order, to just those of the machines addressed so
  far that are members. `DeliveryInvariant` has it with `todo` as the rest of those
  addressed; that it stays true needs that one thread at a time delivers
  (`TurnInvariant`) and that `machine_list_` and `machine_set_` have the same members,
  reversed for a broadcast (`SequenceLemmas`).
  `SetIsImplemented`: every step is one of `SetSpec` or a stutter, from the same
  invariants; an event is complete only when the walk has reached everybody.
  `TimersAreNotOvertaken`, of `MachineSetTimers`: a member that was overtaken is still to be
  visited by the scan behind the event at hand (`OvertakenNow`), because the scan goes
  over `machine_list_` as the event has left it and that has every member (`MembersAgree`).
* **MachineSetLifetime.** `TypeCorrect`, `FreedSetsAreQuiet`, `CarefulSurvive`,
  `StoppedThreadsHaveEnded`, from `LifeIsInvariant`. Its parts: the set is alive just
  while somebody holds it; few threads can be inside `StopBackground`, and only one
  once the set is dying; flag and `background_thread_` agree with where the threads
  are; and what a careful application may rely on.

* **ExternalHandler.** `TypeCorrect`; `EventsAreInOnePlace`, inductive with the types;
  `DeadlinesStayTogether`, `OneTimeout`; `AnswersStay`. A timeout comes from the
  alarm or from the timer and not from both because the alarm switches the timer off
  when it rings, and because there is no alarm while the timers are looked at: a machine
  that has been given its timeout has neither left (`TimeoutsSpent`): a scan has machines left to visit only while there is no handler
  (`ScansAlone`). An event keeps its action
  because the action it has run is the first in the vector that accepts it
  (`AnswerIsFirst`), and appending does not change which is first.
  `SetIsImplemented`, by an invariant of the same kind as for `MachineSet`
  (`DeliveryInvariant`): those given the event and those still to be given it are
  together the members, which no addition or removal changes meanwhile.
* **Logger.** `TypeCorrect`; `WholeRecords`, `Initialized`, `ShutForGood`. One thread at most
  is inside the body of `Init`, and none before the flag is set (`OneInside`); what the
  appenders and the level are follows from where it is (`Progress`); and whoever can
  read the pointer reads it after the last of those steps (`Published`).
* **Helpers.** `StartsWithIsPrefix`, `EndsWithIsSuffix`, by the first and the last of the
  occurrences, for all strings a `size_t` can measure. `NeverEarly`, `NeverLong`: a
  deadline passes after its period and at the latest a millisecond later, and a
  negative period has passed at once, for every time and period whose sum fits
  the word.

Only model-checked: liveness, which is out of the prover's reach under fairness, that
is `CallTerminates`, the fairness of `QueueSpec` in `ServesCallers`, `EventsAreServed`,
`TimersAreServed`, `StopReturns`, `LastDropFrees`, `EveryEventIsProcessed` and
`InitReturns`. Of `CallTerminates` the part that is safety is proved (`CallsAreShort`).
Every other property that a passing run checks is stated by a theorem.

## 8. Not modelled, and under which rules the models hold

* One thread uses a machine at a time, and user code does not call `Process` of a
  machine or of its set from inside a callback: the loops hold iterators that such
  a call may invalidate, which is undefined behaviour.
* Transitions are made between calls of `Process`, for the same reason.
* `Process()` is not called from `StartBackground` until `StopBackground` has
  returned: the code has no lock for the members, and expects this of its user.
* In `MachineSet` there is no external handler (`event_handler_` is null), and the set
  outlives its threads; how it dies is the matter of `MachineSetLifetime`, where one
  thread of the application, the owner, starts and stops the background thread.
* In `MachineSet` a callback sets the timer of its own machine only; in `ExternalHandler`
  that of any. The timeout of a state (`State::SetTimeout`) does not change.
* In `ExternalHandler` the handler is registered once and never taken back, with no
  `Enqueue` under way: `event_handler_` has no lock. The set outlives it, so that
  neither of the calls from the handler meets a set that has gone. Its events are
  all broadcasts; those with targets are in `MachineSet`. A handler with another discipline, that drops
  events or keeps several alarms for one machine, is the application's risk.
* `Logger` leaves out the pattern of the layout and what log4cplus does with a record.
* Identities of machine types (`MachineType` counts them), `ExternalLogger` and its
  delegates, the interface `IMachineSetExternalHandler`, the one-line wrappers of
  `util/`, the templates of `stdext` and the examples hold no state of their own that a
  property could be about.
* Texts of events, `ClearActions` (a call that returns at once) and the copy
  constructors are left out; memory allocation does not fail, but in `Logger::Init`.

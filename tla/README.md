# dengeX Remote: TLA+ models, model checking and proofs

dengeX Remote lets one person show a screen to another: a Go server pairs two
devices through a single-use invitation, the sharing person consents, the two
devices exchange WebRTC descriptions through the server, and the native host
captures its screen for as long as the server keeps signing short grants. The
modules here are translated from the source under `src/`; `PROJECT.json` maps
each definition to the lines it stands for.

## The system's parts

| Part | State it keeps | Operations | Talks to |
|---|---|---|---|
| **Pilot server**, `services/api/internal/pilot/{server,security}.go` | rooms (state, token hashes, descriptions, expiries, heartbeats, events), three fixed-window budgets, event ring; all in memory under one mutex | create, create-guest, join, room (poll), action (end, accept, offer, answer), security; every request first sweeps all rooms | both devices over HTTPS polling |
| **Request pipeline**, `boundedBody`, `bufferedResponse`, `cmd/api/main.go` | sixteen upload slots, the shared budgets, the process itself | read body before the lock, copy the response after it; stop, end, start again | HTTP clients |
| **ICE**, `ice.go` | configuration only | STUN or time-limited TURN credentials per role | snapshot |
| **Desktop host session**, `apps/desktop/src-tauri/src/pilot.rs` | the connection slot behind an async mutex; per session a stop channel, fingerprints, replay cache and a spawned task | pilot_create, pilot_join, pilot_poll, pilot_answer, pilot_accept, pilot_stop, close | server, media transport, session gate, window |
| **Media transport**, `native/transport/src/remote.rs` | peer connection, capture helper or worker thread, queue of two encoded frames, deadline | prepare, answer, stream, stream_windows | host session |
| **Windows capture and encoding**, `native/platform-windows/src/{capture,encoder,pixels}.rs` | one duplicated screen, one encoder of a fixed size | open, next_frame, new, encode, dimensions, nv12 | worker thread |
| **Development receiver**, `pilot_receive` in `native/transport/src/main.rs` | peer connection, three access units, a native helper | join, wait for the offer, answer, receive, end | server, host |
| **Session gate**, `native/agent-core/src/lib.rs` | replay cache; per grant a deadline, capabilities and input sequences | verify, check, validate_input, revoke | host session |
| **Viewer window**, `apps/desktop/src/Pilot.tsx` | the room shown, busy and active flags, generation counter, lease watchdog, peer connection | create, join, poll, viewerOffer, accept, stop | host session commands |
| **Domain kernel**, `services/api/internal/domain` | token vault, session consent and deadline | Issue, Consume, Consent, Renew, Revoke | nothing yet |
| **Local tests**, `apps/desktop/src-tauri/src/lib.rs`, `native/transport/src/main.rs`, `native/platform-macos/Sources/Probe.swift` | busy flag, two report files for each kind of test, a probe and its helper | run_probe, dx-probe, the helper | processes and files |
| **Other platform code, SQL schema, scripts** | see `PROJECT.json` | | |

What is hard about it: every request sweeps every room before it acts; polls,
timers and both ends race for the same room; a capture thread that nothing can abort blocks on a
full queue; budgets are shared by strangers;
replies get lost after the server acted; a spawned task outlives the command
and even the session that started it; wall-clock grants are enforced on a
monotonic clock; the host must stop by itself when nobody can reach it. The
list with its lines is `hazards` in `PROJECT.json`.

What makes each part correct:

* **server**: an invitation admits one viewer; consent precedes descriptions,
  each is written once; an ended room never comes back; nothing served is
  stale; a bearer moves only its own room and is never refused for strangers'
  failures; grants need live peers and end within 45 seconds and the room;
  capacity holds; rooms are eventually forgotten;
* **host session**: a lease ends with its grant but for the time of one answer; a session
  stopped before its stream has looked never captures, and any other's capture ends; a running task can be reached by the stop command; no request, lost or late,
  makes anything hang;
* **streamed trial**: a stop or the end of a lease is obeyed within one write, a
  failure of the capture is not mistaken for a quiet end, a room that has ended goes
  dark within one grant, one answer and one write, and everybody's part comes to its end;
* **session gate**: a grant is accepted once, a lease is bounded, inputs enter once;
* **request pipeline**: slow clients cost upload slots for a bounded time and never
  the lock; fewer than twice a budget's limit are admitted within a window's length;
* **viewer window**: once stopped it plays nothing and holds no connection, and
  whatever the native side holds can be ended by a button;
* **domain kernel**: a token has one taker and is not lost, a cancellation stays;
* **local tests**: one at a time, and a result is the result of the run it is shown for.

## Modules

| Module | Models | Used by |
|---|---|---|
| `FixedWindow` | `budget.allow` and the same arithmetic in `createGuest` | `PilotServer`, `RequestPipeline` |
| `PilotServer` | the server's rooms, budgets, rings, grants and requests | `MCPilotServer`, `PilotServerProofs` |
| `RoomLifecycle` | abstract: the life of a room without clocks, tokens or requests | refined by `PilotServer` |
| `PilotServerProofs` | the theorems about `PilotServer` | |
| `DesktopHost` | the host's native session and its streaming task | `DesktopHostProofs` |
| `Pixels` | the sizes a screen is encoded at, and where the conversion reads and writes | `FrameWorker` |
| `FrameWorker` | the Windows stream, its capture thread and the queue between them | `StreamedSession` |
| `StreamedSession` | a whole trial: `FrameWorker` under the host's session task, the room, and the receiver | `MCStreamedSession`, `StreamedSessionProofs` |
| `SessionGate` | verification of grants, the replay cache, the gates and their inputs | `MCSessionGate`, `SessionGateProofs` |
| `SessionGateProofs` | the theorems about `SessionGate` | |
| `RequestPipeline` | the way of a request around the room lock | `RequestPipelineProofs` |
| `ViewerWindow` | the window's callbacks against the native slot | `ViewerWindowProofs` |
| `OneUseToken` | abstract: a token's fate | refined by `TokenVault` |
| `TokenVault` | the enrolment token vault | `DomainKernel` |
| `ConsentSession` | consent, renewal and cancellation of a support session | `DomainKernel` |
| `DomainKernel` | the vault and a session over one clock | `MCDomainKernel`, `DomainKernelProofs` |
| `LocalProbe` | the local tests, their processes and files | `MCLocalProbe`, `LocalProbeProofs` |
| `...Proofs` | the theorems about the module of that name | |
| `MCPilotServer`, `MCSessionGate`, `MCDomainKernel`, `MCLocalProbe`, `MCStreamedSession` | symmetry sets, views and the data of the runs | cfg files |

### PilotServer

One action is one request's critical section: `Handler` takes `s.mu`, sweeps,
runs `failedAuthLimited`, runs the endpoint and unlocks, so no other request is
seen in between (server.go:125-147). `Swept` is the sweep of one room, and every
action is written over `SweptRooms`, never over `rooms`, the way a handler sees
the map. `SweepOrders` keeps Go's free choice of map order for the order of the
events. `Create`, `CreateGuest`, `Join`, `GetRoom`, `End`, `Accept`, `Offer`,
`Answer`, `Malformed`, `Security`, `Unrouted` and `FailedAuth` are the
endpoints and their early returns in the code's order; `Refused` is a request
that authenticates (and so refreshes a heartbeat) but changes nothing else.

Abstractions. A token is its hash and a hash is a record naming what it opens;
the hash of a missing or malformed header is `ZeroHash`, equal to the zero value
an unjoined room's viewer hash has, as in the code. A description is the
fingerprint found in it, or `NoFingerprint` where `fingerprint()` fails. `s.now()`
is read several times in a request; here a request takes place at one instant,
so a room can cross an expiry between requests but not inside one. "free" and
"gone" stand for identifiers outside the map. `reply` and `authority` are
histories: the last request with its status, and when a room's latest grant
expires. Events are kinds without their time stamps. Requests refused before the lock (`Origin`, query
strings, oversized bodies) change nothing and are left to the pipeline.

### RoomLifecycle

`PilotServer!Lifecycle` maps each room's state, name, offer and answer onto the
abstract one; `ImplementsLifecycle` is the abstract `Spec` as a property. An
abstract step moves every room along one edge or none, since one sweep may end
several.

### DesktopHost

State: `slot` and `mutex` are `PilotState.connection` and its tokio mutex, which
create, join and stop hold across their request (`Begin...`, `Finish...`); `stop`
is the watch channel; `task[s]` is the spawned task: its place, the stream's
state, the lease, the countdown it waits on and the reply it is waiting for.
`room` is what the server holds of the session, as coarse as the task can tell.
Every request may be served, served with its reply lost, or not served;
`FinishAccept`, `FinishOpen`, `Offer`, `FinishStop` and `EndTask` have one
disjunct for each. A GET is two steps, the server's snapshot and its arrival,
with anything in between, so a reply may be stale. `BeginCapture`, `StartCapture` and
`StopCapture` are the stream's own task (`stream` on macOS, `stream_windows`): it looks at the
stop channel and the deadline once (`BeginCapture`; remote.rs:282, and 185 on Windows), then starts
the capture (`StartCapture`; 285, and 189), and looks again every 100 ms. Between that look and
the start a stop may come or the lease may end, and the capture opens nevertheless; so
`StopIsFinal` promises that a session stopped before its stream's look never films and that an ended stream
never begins again, while `NothingHangs` and `EndedRoomGoesDark` end a capture that was starting. Not only a
missing look would break it: so would a stop channel that is reset, or a room that is accepted twice.
`Renew` and
`HearRenewal` are the five-second branch of the `select!`, during which the
loop listens to nothing else. `Prepare`'s failure skips the close, as in the code.

Time is kept as ticks left. A grant expires on a whole second of the wall clock;
`verify` floors the wall clock, subtracts one second and caps at 40 (`LeaseOf`);
the clock the lease is compared with starts after `host.answer` returns, so the
lease does not run while the task is answering. `Tick` waits until the ticker has
seen an expired lease and a stop, and until an answer that has used up
`AnswerDelay` has returned: the assumption is that the runtime fires a
100 ms ticker within a tick of half a second. The two clocks advance
together: a wall clock that is set belongs to `SessionGate`.

`PolicyScopes` is how many policy scopes the application passes to `verify` and
`RequiredScopes` how many `verify` wants. The code passes **one** (pilot.rs:139)
and wants **five** (lib.rs:190-193), so at the code's values no capture ever
starts (run `host_scopes`; `WithoutItsScopesNothingIsCaptured` proves it for any two
different numbers). The passing run `host_session` sets both to five, the value at
which the rest of the code can be reached at all; it says what the
host does once the two agree. `Verified` is the part of `verify` that depends on these numbers and on
the time: the grants here are the server's own, with the right fingerprints and clocks that agree, and its other
refusals are `SessionGate`'s. `StreamedSession`, which has no scopes, says it too.

### Pixels

The scale is a `f64`. `Share` keeps what that does to the result: a quotient that is
not whole is cut, and one that is may come out just below and lose a pixel (2154
columns are scaled to 1279, hence 1278). `Dimensions` is therefore a set.
Colours are left out; `Source` and `ChromaAt` are the indices.

### FrameWorker

The actors are the worker thread, the stream's task and the session that
started both. `worker.pc` follows the closure: waiting for a thread (`queued`),
opening the screen, at the head of the loop, holding a frame or none,
sending, blocked in `blocking_send`, failing with an error to report. `valid` is asked
where the code asks it, so every check may be stale when the next step is taken.
A call of the platform may return or fail at any time and the screen may change its size;
`encode` returns up to `MaxOutputs` access units, or an error in place of all of
them. `queue` and `open` are the bounded channel and whether its receiver lives, `live` is the
flag of `WorkerGuard`. A tick is one of the stream's 100 ms ticker: `Tick` waits until
the ticker has looked and until a write that has taken its 250 ms has been
given up. `lapsed` and `overdue` are histories.

### StreamedSession

`FrameWorker`'s actions as they are, with what surrounds them: the session task of
`pilot_accept` from the offer on (`Ask`, `HearPoll`, `AnswerHost`, `HearRenewal`, `LeaveLoop`,
`HostCloses`, `HostEnds`), the room, and the receiver the project tests
with (`AwaitOffer`, `Answer`, `TakeUnit`, `WriteUnit`, `StopReceiving`, `ViewerEnds`).
A reply is taken at one moment and heard at another; the grant in it grows old in
between. The lease is what is left of the grant, without the exact rounding, which
is `DesktopHost`'s. `HearPoll` computes it (`host.granted`); `host.answer` is awaited while the task is
"answering", for `AnswerDelay` ticks at most, and the lease's clock starts only with `AnswerHost` (pilot.rs:422-423), so
a room may be filmed for that much longer after its end. While the receiver writes to its helper it hears nothing else,
as in the code, where the write is inside the branch of the `select!`.

### SessionGate

One action is one call: `Verify`, `Check`, `ValidateInput`, `Revoke` (also
`disconnect`), with `Tick` and `SetClock` for the clocks. The verdicts come in
the code's order: the envelope (unparsable, badly signed, or sound), the
expected scope, the times, then the cache, then the number of policy scopes.
`Retained` is the purge, which happens once a grant is in time, so a grant
refused for the cache or the scope count still purges; one refused earlier does
not. `gate[j]` is the latest gate that grant `j` opened, with the two clocks as
they stood (`openedMono`, `openedWall`, histories, as are `accepted` and
`entered`). `signed` is chosen once: it is what the authority put under each
identifier, which it draws at random, and nothing else passes the signature.
Input epochs may repeat between grants. Pointer events and all others have a sequence each;
a packet that `InputPacket::validate` refuses is a Boolean.

The wall clock is floored to seconds, as the caller does (pilot.rs:120-123), and
may be set ahead at any time, and back if `SetBack`; the monotonic clock only
ticks. The additions that overflow 64 bits are out of reach of any real clock
and are left out. The module is the crate as its interface and tests offer it:
the desktop today calls only `verify`, with a monotonic clock of 0, and drops the gate it gets
(`DesktopHost` models that use), and the server signs only `view_screen` and
epoch 1, so inputs are exercised by the crate's own tests alone.

### RequestPipeline

A request's `stage` is where `Handler` has got to: reading its body with a slot
of `uploads`, waiting for the room lock, inside (what happens there is one action
of `PilotServer`), replying from its buffer. `Upload` is `boundedBody`'s
non-blocking `select`; `BodyRead`, `BodyFails` and `ReadTimeout` are the three
ways `ReadAll` returns, all of which run the deferred release. `joins` is one of
the three budgets, charged in `Handle`; which requests are charged is `PilotServer`'s
business. `Signal` and `Exit` are the end of `main`: `ListenAndServe` returns when
`Shutdown` has closed the listener, and `main` with it, so requests under way are cut
(`"cut"`) although `Shutdown` would wait for them; `Exit` is also a crash. `Start` finds
an empty memory. The refinement
that `PilotServer` relies on, one request in one step, is
`LockedOnlyInside`: everything between `Lock` and `Handle` is under the lock, and
nothing outside it touches a room.

### ViewerWindow

One action is one stretch of JavaScript between two awaits, or one native
command's critical section, or one step of the server that the window notices.
`active`, `lease`, `negotiating`, `generation`, `peer` and `video` are the refs of
`Pilot.tsx`, `room` and `busy` its React state; `offers[o]` is a call of
`viewerOffer` and the await it is at; `connections` are the peer connections
nobody has closed. The generation counter is modelled as the call that set it
last, or none: only equality with the call's own number is ever asked. `Show`
is `setRoom` with the effect it re-runs, which cancels a poll when the room's id
or its having ended changes. `queue` is the order in which commands wait for the
slot's mutex, which tokio's mutex serves first come, first served; replies of the
commands that hold it across their request arrive in that order, others at any time. At most one poll waits there, and one that has been
cancelled is dropped (`WithoutPoll`): the command is still carried out, but it changes
nothing and its reply is ignored.

What is assumed: React commits a state change before the next callback runs;
a description being set on a closed connection never settles or fails; a
track event of a closed connection may still be delivered. The component is
hidden, never unmounted (main.tsx), so its clean-up is left out. As in `DesktopHost`,
`PolicyScopes` and `RequiredScopes` say whether a grant can be verified; the run
`window` sets both to five, as in `DesktopHost`. `PollsRestoreNothing` says that no poll
brings a stopped session's room back and excepts the answers `viewerOffer` waits
for: one that arrives after `stop()` does set its room again (Pilot.tsx:35
compares nothing after the await). As the application is built no answer is
accepted (`WithoutItsScopesNothingIsLeased`), so it cannot happen yet; it will need a test of the generation when the
scopes are mended.

### TokenVault and OneUseToken

`Issue` and `Consume` are the critical sections; `now` is any instant up to the
present, since callers read their clock before they get the lock. `records`
holds only the tokens the map has; `until` and `taker` are histories.
`OneTaker` is `OneUseToken`'s `Spec` under the mapping `Fate`: a token that has
been purged unused has lapsed, one that is in the map unused is good.

### ConsentSession and DomainKernel

`Consent`, `Renew` and `Revoke` with old clocks, as above. Nothing in the
repository takes a session from negotiating to active, so `Init` starts it
awaiting consent or active, as the package's tests do. `CanTransition` is the
table, which the methods do not consult; `StepsFollowTheTable` relates the
two, with one exception that the code makes: a cancellation moves a failed session to
ended, although packages/protocol/README.md:21 calls both terminal. `DomainKernel`
puts vault and session side by side over one clock; neither calls the other.

### LocalProbe

`calls` is where each `run_probe` is, `process[r]` the process it started and
`helper[r]` the helper that one started. Both files are variables of their own,
indexed by kind as their names are. A crash may come at any step, `Quit` leaves
the processes running and forgets the flag, as a restart does. `Collected` needs
the helper's end as well, because it inherits the error pipe that `output()`
reads to its end. `tested` is a history: what the run's own test found. A report
is written at once; a half-written one cannot be parsed and counts as none.
The synthetic test differs from the capture test only in needing no permission;
`Kind` may hold it, the runs leave it out.

## Runs

| Run | Question | Result |
|---|---|---|
| `room_life` | Do one room's secrets, descriptions, log and grants agree with its state through every order of requests and timeouts, and is its life the abstract one? | holds |
| `three_rooms` | With three creations for two places, can the capacity be exceeded, does any request act on stale state or on another's room, or lose a holder to the shared failed-authentication budget? | holds |
| `release` | Is every room deleted after its life, if time passes and clients poll? | holds |
| `host_session` | One host session through lost and late requests, renewals and stops: does a lease outlast its grant, does a stopped session start filming or go on with it, is a running task out of the stop's reach, does anything hang? | holds |
| `streamed_trial` | Over a whole trial, how late can a stop or the end of the room be obeyed, can a failure be swallowed, can anybody be left behind? | holds |
| `gate` | Is a grant accepted once and its lease bounded, whatever the clock does short of going back? Does a closed gate stay closed, does any input enter twice, does a full cache recover? | holds |
| `gate_set_back` | Is a grant accepted once if the wall clock is set back? | violated (finding) |
| `window` | Does a stopped window play or hold anything? Can every held connection be ended, does every stop come to its end, does an ended session go dark, does a late poll bring one back? | holds |
| `request_pipeline` | Do slow clients keep slots or the lock from others, also when the process is stopped and started? How large is a burst? | holds |
| `domain_kernel` | Is a token taken twice or lost? Does a cancellation stay, does a lease grow, are a session's moves those of the table? | holds |
| `probe` | Is the flag ever set without a call, do two local tests overlap, is a result another run's or unearned? | holds |
| `host_scopes` | Is a genuine grant accepted by the host? | violated (finding) |

Bounds. `RoomId` bounds the rooms a run creates, `MaxTime` its clock. Durations are scaled so that
each timer can fire before and after each other: in `room_life` the heartbeat
limit (3) is shorter than the invitation's life (4), that than the room's (6),
and the clock reaches 9, so a room can expire by each and be forgotten; guests may
create rooms in it. `three_rooms` has three identifiers for a capacity of two, every
duration tight (1, 2, 3) and an `AuthLimit` of 1 so that the budget is exhausted.
`RoomLog` is 5, the least the assumption allows and as many events as a room can
have, so that losing one would show; `ServerLog` is 2 so that the ring overflows. Guests create no rooms in
`three_rooms`, which would double its time; that they keep to the capacity too is `CapacityIsRespected`, proved
for either setting of `AllowGuestHosts`.
In `host_session` a second has two ticks, grants last up to four seconds,
leases up to two and answers take up to one second, so that cap, rounding and
delay all bind, and a stop comes before, after and during each of the stream's steps (54 938 states, half a minute). It has one session; what depends on several, a task that is still winding
down when the next session is opened, is proved for any number of them
(`DesktopHostProofs`).

`streamed_trial` has two screens, one odd and scaled at the float's edge, one at the ends
of the range, so that the size changes in the middle; a queue of one and up to two units of one `encode`, so that the
worker blocks with more to send; leases of two ticks and writes of one, so that a renewal
can arrive before and after the end of a lease, and a write can straddle it; an answer of up to one
tick, which is enough to make the bound of `EndedRoomsGoDarkInTime` fail without it; one place in
the receiver's inbox. All counters are bounded by these but `overdue`, which the property bounds, and
`dark`, which stops at `Forget`. It is the largest run, with 563 956 states in some two and a half minutes.

The gate's runs have two grants. `gate` has a second of two ticks; a grant lives one
second, or the longest allowed (two) and issued a second later, or too long; and the
cache has one place, so that grants are premature, over, too long, forgotten and crowded
out. It has two epochs, two sequence numbers, two channels, and policies that have a
scope too few or refuse control. `gate_set_back` needs no inputs.

`window` has two sessions, one after the other, and two calls of
`viewerOffer`, one of which may still be at an await when the other starts;
`MaxStops` lets the user press stop when no other stop is under way, while the
watchdog, a failed connection and a failed offer add theirs. `request_pipeline` has
four requests, three with a body, two slots, a budget of two in a window of two ticks and a
clock of five. Each of them may be charged to the budget, and four admissions fill two windows, so the burst of
three within less than a window's length, around a boundary, does occur: one admission less allowed, the run finds it violated. `domain_kernel` has three tokens, a
vault of two, two callers and tenants, and a clock that passes every life. `probe`
has two processes, so that one can be left over when the other starts, two
callers racing for the flag, and one restart.

View and symmetry. The safety runs of the server identify states by `Futures`:
handlers only ever compare instants with the clock, so ages and remaining times
decide the future, a lapsed budget is as good as untouched, and `events`, `reply`
are never read. A property over `reply'` or `events` of a step is still checked
on every generated step, since steps are evaluated before states are identified;
Rooms, names and fingerprints are interchangeable
in code and properties. The liveness runs use neither.

Deadlock is not checked in the server's runs: at `MaxTime` the clock stops, which
is the bound's doing, nor in the gate's, which may be at rest, nor in `domain_kernel`, which runs out of
tokens and time. All the others are checked for deadlock.

Fairness. `release` assumes that time advances and that some client polls: the
window polls every 1.5 seconds (Pilot.tsx:50) and rooms are swept only by
requests, so without one they stay. A poll counts even if it fails to authenticate. `host_session` assumes that
requests end within `api()`'s 12 seconds, answered or not, that the runtime polls
its tasks, that the ticker fires and time passes; and strong fairness for leaving
the streaming loop, as `select!` picks at random among ready branches. Nobody has
to press a button and neither server nor viewer has to act. `window` assumes
that the mutex serves its queue and each request ends within its 12 seconds,
that an offer's awaits end (candidates are waited for 20 seconds), that time
passes a lease and the watchdog fires. `request_pipeline` assumes Go's mutex
starves nobody (strong fairness of `Lock`), that handlers do not block and the read timeout fires;
of clients nothing, nor that the process is never stopped. `streamed_trial` assumes that the platform's calls return,
that requests are answered or fail within 12 seconds, that time passes, that the server's sweep
ends a room whose receiver is done, and that the receiver's helper leaves after its 20
seconds (`--seconds 20`, main.rs:490), without which a stuck write would hold the receiver for ever; strong
fairness for what a `select!` finds ready again and again; nobody has to press anything. `probe` is a safety run: that a local test ends is not
checked, as `read_status` and the wait for the helper's exit have no limit.

## Proofs

`PilotServerProofs` proves, for every number of rooms, names, fingerprints,
limits and durations that satisfy the named assumptions of `PilotServer`:

| Theorem | States |
|---|---|
| `TypeCorrect` | `TypeOK` |
| `RoomsStayConsistent` | `RoomsConsistent` |
| `EventsAreFaithful` | `EventsTellTheStory` |
| `ServerImplementsLifecycle` | `ImplementsLifecycle` |
| `GrantsOnlyToLivePeers` | `GrantsNeedLivePeers` |
| `AuthorityStaysBounded` | `AuthorityBounded` |
| `CapacityIsRespected` | `CapacityRespected` |
| `ServedStateIsAlwaysFresh` | `ServedStateIsFresh` |
| `HoldersAreAlwaysServed` | `HoldersAreServed` |
| `OnlyOwnRoomEverMoves` | `OnlyOwnRoomMoves` |

The argument. A request touches all rooms through the sweep and at most one more
through its handler; `RoomStep` says what may happen to one room in one request,
and `Touches`/`Roomwise` that every action is, for each room, such a step. This
is proved once per action, and everything about a single room follows from it.
The inductive invariant is `RoomInv`: `RoomsConsistent`, `EventsTellTheStory` and
that a live room's host has been heard of. None of the three is inductive by
itself: the log's length is bounded only because the state and the log agree
(a log of sixteen would otherwise be cut), and the offer is known to be absent
before consent only through the state. From `RoomInv`, `Edge` shows that each
room's step is an edge of `RoomLifecycle` or a stutter, and PTL lifts it to the
refinement. `Bears` says what it takes to sign a grant and gives
`AuthorityBounded` and the action property `GrantsNeedLivePeers`. Capacity uses `Quiet` (only
`IssueRoom` adds a room) and finite-set cardinalities.

Three action properties need no invariant of their own, only what one request can do.
A swept room is fresh at its instant (`SweptIsFresh`) and every handler leaves it so, or ends it
(`RoomStepIsFresh`). A token opens at most one of the swept rooms, the one it was made for
(`HoldersAreOwn`, `HoldersHoldOneRoom`, from `RoomsConsistent`); so a holder passes the
search of the rooms before any budget is charged, and no request moves a second room, or one that
neither its bearer nor its invitation opens.

`SessionGateProofs` proves, for any grants, policies, limits and settings of the clock:

| Theorem | States | Assumes |
|---|---|---|
| `GateTypeCorrect` | `TypeOK`, with the cache's limit | |
| `LeasesAreBounded` | `LeaseIsTheGrants` | |
| `GrantsAreAcceptedOnce` | `GrantAcceptedOnce` | the wall clock is not set back |
| `ClosedGatesStayClosed` | `ClosedStaysClosed` | the same |
| `InputsAreEnteredOnce` | `InputsEnterOnce` | the same |
| `ReplayRefusalsAreAlwaysDeserved` | `ReplayRefusalsAreDeserved` | |

The argument. Every step opens one gate or keeps all of them (`OpensOrKeeps`).
`AllAccounted` is the invariant behind a single acceptance: an accepted grant is
still in the cache, or its last second is over; neither can be taken back while
the wall clock's seconds never decrease, and `OnlyFreshGrantsOpen` follows. So
a gate, once opened, is kept, which makes closing final and lets
`InputsAccounted` say that whatever entered is covered by its gate's sequences
and carries its epoch. The run `gate_set_back` shows that the assumption is
needed. `AllDeserved`, that a grant in the cache has been accepted and is
remembered until its own expiry, does not need it: a grant is refused as replayed only if it
was accepted before, wherever the clock is set. `LeaseArithmetic` does the rounding: whole seconds left, against ticks.

`DomainKernelProofs`, for any tokens, tenants, callers, capacity and life, and any consent, setup
and lease times that are naturals (`KernelAssumption`):

| Theorem | States |
|---|---|
| `VaultIsBounded`, `GoodTokensStay`, `VaultKeepsItsPromise` | `VaultBounded`, `GoodTokensAreKept`, `OneTaker`, of the vault alone |
| `KernelKeepsGoodTokens` | `GoodTokensAreKept`, of vault and session together |
| `KernelKeepsItsPromise` | `OneTaker`, likewise |
| `SessionAuthorityStaysBounded` | `SessionAuthorityBounded` |
| `SessionsFollowTheTable` | `StepsFollowTheTable` |

`VaultInv` says that every record is of an issued token, agrees with `until` and is marked
exactly if it was taken, and that a token which is missing has expired. So
`Issue` maps to `Change` (`IssueIsAChange`), `Consume` to `Take`, and the clock to a stutter.
A session's step is none of the vault's and the vault's only move the session's clock
(`KernelRunsTheVault`), which carries both sets of theorems to the whole kernel. The session's
bound is inductive with its types: a late caller's deadline counts from an instant that has
passed, so it is never further off than a punctual one's.

`ViewerWindowProofs`, for any number of sessions and offers:

| Theorem | States | Assumes |
|---|---|---|
| `WindowTypeCorrect` | `TypeOK` | |
| `OnlyOpenedSessionsAreUsed` | `OnlyOpenedSessions` | |
| `StoppedIsClosed` | `StoppedMeansClosed` | |
| `HeldSessionsAlwaysHaveAButton` | `HeldSessionsHaveAButton` | |
| `PollsRestoreNoRoom` | `PollsRestoreNothing` | |
| `WithoutItsScopesNothingIsLeased` | nothing is ever leased or answered | the two numbers of scopes differ |

`StoppedIsClosed` rests on this: only the current call of
`viewerOffer` has an open connection or plays. A connection that is open is
`peer`'s, `peer` is `generation`'s, and both are none unless the window is active.
The guard `peer.current` carries the induction where a resumed call has reset
`negotiating`; without it the mutant of the property finds two connections.

The others rest on `WindowInv`: the types of page, calls, poll, native side and server, and `QueueInv`
for the mutex's queue. It says that an opening waits there only for a session just asked for, and once, and
that a poll waits only while one is asking, and one alone; without it a command taken from the queue could be
answered for a session the server never opened, and the types would not be inductive.
`OnlyOpenedSessionsAreUsed` states what a reader needs of it. On it stands `HeldIsShown`: while the slot holds a connection, the
reply that opens its room is on its way and no stop's reply comes after it, or the room is
shown and no stop's reply is on its way. It holds because replies of the commands that hold
the mutex arrive in the mutex's order; `HeldSessionsHaveAButton` is its value when nothing is on the way.
`EntryIsQuiet` says that on the entry page no poll is left, so none can set a room.

`RequestPipelineProofs`, for any number of requests and slots:
`PipelineTypeCorrect`, `SlotsFollowBodies` (`SlotsOnlyWhileReading`) and
`LockIsNeverHeldOutside` (`LockedOnlyInside`), three parts of one inductive
invariant. The count is one more or less as one request enters or leaves
reading (`ReadingFollows`).

`BurstsAreAlwaysBounded` (`BurstsAreBounded`) rests on a second invariant about `admitted`:
only its last `used` entries were admitted in the budget's window, the first of them at its opening, and all but
`Limit - 1` of the rest at least one `Window` before that; so entries `2 * Limit - 1` apart lie
a window apart.

`DesktopHostProofs`, for any number of sessions and any durations:

| Theorem | States |
|---|---|
| `HostTypeCorrect` | `TypeOK`, with the limit of every countdown |
| `LeasesAreBoundedByGrants` | `LeaseBoundedByGrant` |
| `RunningTasksAreReachable` | `RunningTaskIsReachable` |
| `TitleAlwaysGoesBack` | `TitleGoesBack` |
| `StopsAreFinal` | `StopIsFinal` |
| `WithoutItsScopesNothingIsCaptured` | no task answers, streams or captures, if they differ |

The lease needs an invariant for each place of the task: while it is answering, the lease is
less than what the grant has left plus the answer's own time so far; from the
streaming on, both run down together. A task is reachable because the invariant already speaks of its
accept, `s \in accepting`, whose session is in the slot or stopped, and because the slot is empty
whenever a command that will fill it holds the mutex. A stop is final because each session is accepted
once (`OnceInv`: a room with a task is past its consent and never goes back, a room being opened is
a free one), so its stream is new once, and from then on moves forward only (`TasksGoForward`).

`StreamedSessionProofs`, for any screens, queue, bursts, leases and limits: `SizesFit` and `FramesAlwaysFit`
(`SupportedScreensFit`), with `ReadsStayInside` and `WritesStayInside` for the
indices of the conversion; `WorkerTypeCorrect`, `RevocationIsAlwaysPrompt`
(`RevocationIsPrompt`) and `QuietEndsAreAlwaysDeserved` (`QuietEndsAreDeserved`) of
`FrameWorker`. `Late` says that `overdue` is at most the age of the write under way, `Blamed`
that a worker that has gone without reporting, or a stream that ended well, has
lost its authority once, or its receiver. `TrialImplementsFrameWorker` shows that a whole trial is a behaviour
of `FrameWorker`, which carries those theorems over (`TrialsRevokePromptly`), and
`EndedRoomsAlwaysGoDarkInTime` (`EndedRoomsGoDarkInTime`) follows from
`RoomClock`: what is left of a grant still in the mail and the time since the room ended are together at most `Life`;
a lease whose clock has not started adds what `host.answer` has taken so far, and one that runs adds
`AnswerDelay`. That `host.answer` returns within `AnswerDelay` is assumed (the guard of `Passes`); the code sets no limit to it.

`LocalProbeProofs`, for any kinds, callers, processes and number of restarts: `ProbeTypeCorrect`
(`TypeOK`), `FlagAlwaysHasAnOwner` (`FlagHasAnOwner`), `OneTestAlways`
(`OneTestAtATime`) and `ResultsAreAlwaysOwn` (`ResultsAreOwn`). The invariant says that at most
one call is under way, that before the first restart every process alive is the one
it waits for, and that the files of its kind hold nothing once they have been removed but
what that process and its helper wrote.

The type invariants (`TypeOK` of each module) and `VaultBounded` are proved where the module has proofs;
no run checks them, nor `TitleGoesBack` by itself (it is part of `NothingHangs`).

Every invariant and every action property of the passing runs, and each refinement, is stated by one of
these theorems. Only model-checked is liveness (`EveryRoomIsReleased`, `EndedRoomGoesDark`, `NothingHangs`,
`StopsReachTheEntry`, `EndedSessionsGoDark`, `RequestsAreAnswered`, `TheTrialEnds`): it rests on
fairness and ENABLED, which are outside this prover's reach. The two runs that expect a violation
show counterexamples, at the code's number of scopes and with a clock set back; what holds then is
`WithoutItsScopesNothingIsCaptured`, and what holds while the clock is not set back is `GrantsAreAcceptedOnce`.

## Findings

* `host_scopes`: the application passes one policy scope to a gate that demands
  five, so every genuine grant is refused and sharing never starts.
* `gate_set_back`: the replay cache forgets by the wall clock, so a wall clock
  set back re-admits an expired grant and gives it a second lease.

Two statements of the documents are stronger than what the code keeps. The properties beside them state
what it keeps, and pass.

* The lease and its grant. docs/cloudflare-pilot.tr.md:53 says "Yerel lease en fazla 40 saniye ve
  grant bitişinden kısadır" (the local lease is at most 40 seconds and shorter than the grant's end). `verify` computes
  the lease's length with a second to spare, but `host.answer` is awaited before its
  clock starts (pilot.rs:422-423), and nothing limits that wait. A wait of more than about a second makes the first lease
  end after its grant: `LeaseBoundedByGrant` without `AnswerDelay` is violated with the constants of
  `host_session`, where an answer takes one second and the lease may run half a second longer than the grant. A renewed lease
  has no such gap. `LeaseBoundedByGrant` and `EndedRoomsGoDarkInTime` therefore carry `AnswerDelay`.
* The limits per minute. docs/cloudflare-pilot.tr.md:49 ("6 oluşturma/dakika"), docs/architecture.md:75 and
  docs/security-and-dll.tr.md:12-14 (30 joins, 20 failed authentications, 6 rooms "dakikada", a minute) state
  plain rates. `budget.allow` (security.go:17-26) and `createGuest` count in windows that start with a request,
  so up to one less than twice the limit (11 creations, 59 joins, 39 failures) pass within less than a minute around
  a boundary. With a limit of two, `request_pipeline` reaches such a burst of three; `BurstsAreBounded`
  states the exact bound.

More disagreements are kept as hazards in `PROJECT.json`, and the properties
around them are stated so that they hold: the tail of a stopped session's task
takes the sharing title away from the next session (`TitleGoesBack`); the server's
process ends without waiting for `Shutdown` (`RequestsAreAnswered` allows for it, so no property covers
what is cut); a
cancellation moves a failed session to ended (`StepsFollowTheTable`); after
a restart during a local test, the first run's helper can make the second run's
failed test count as passed (`ResultsAreOwn` promises the rest only before a restart).

## Plan

Done: all modules of the table above, and proofs about eight of them
(`PilotServer`, `SessionGate`, `DomainKernel` with `TokenVault` and `ConsentSession`,
`RequestPipeline`, `ViewerWindow`,
`DesktopHost`, `StreamedSession` with `FrameWorker` and `Pixels`, `LocalProbe`).

What could follow:

1. The window's viewer in place of `pilot_receive` in `StreamedSession`.
2. `Effective`, the intersection of permissions, and Rust's `intersection`, against a
   reference definition.
3. A refinement of `DesktopHost`'s stream by `FrameWorker`, with leases in milliseconds.

## Not modelled

* ICE configuration: pure functions of configuration and role; they change no state.
* The protocol package, the SQL schema, packaging, scripts and infrastructure: no
  state of the running system; nothing in the repository queries the schema.
* Windows text input and the launcher: one call of the platform that nothing is
  wired to, and a loader.
* Inside the platform: ScreenCaptureKit, VideoToolbox, the keychain, COM, DXGI and Media
  Foundation; the modules have what their calls may come back with.
* The network: WebRTC's own transport, candidates and encryption. Frames may be
  lost (`Arrives`), a write may hang or fail.
* Colours, wording, logging, and the layout of reports.

# A TLA+ model of `rusty_rtos_sntp`

`rusty_rtos_sntp` is an SNTP client for small devices: a packet codec that is a
pure function over bytes, and a polling client that is a state machine over the
callbacks of its host. This directory holds TLA+ modules that model both, the
TLC configurations that check them on small instances, and TLAPS proofs of what
matters most for every instance.

All source paths below are in `src/crates/rusty_rtos_sntp-core/src/`.

## The system

| part | state it keeps | operations | interacts with |
|---|---|---|---|
| timestamps (`types.rs`) and their arithmetic (`serializer.rs` "the arithmetic", `calculate_elapsed_ms` of `client.rs`) | none | `is_zero`, `fractions_to_ms`, `as_millis`, `safe_time_difference`, `calculate_clock_offset`, `calculate_elapsed_ms` | used by the codec and the client |
| packet codec (`serializer.rs`) | none | `serialize_request`, `deserialize_response` | changes the client's timestamp in place; judges the packet in the client's buffer |
| poll interval, UNIX time (`serializer.rs`) | none | `calculate_poll_interval`, `convert_to_unix_time` | called by the application |
| client (`client.rs`) | `current_server`, `current_server_addr`, `last_request_time`, `packet_size`, the network buffer | `new` / `with_authenticator`, `send_time_request`, `receive_time_response`, accessors | calls back into the host and the authenticator |
| host (trait `SntpHost`, external) | the clock, the UDP socket | `resolve_dns`, `now`, `adjust_clock`, `send_to`, `recv_from` | shared by several clients and the application |
| authenticator (trait `Authenticator`, external) | its own | `generate_client_auth`, `validate_server_auth` | reads and writes the client's buffer |
| servers and network (external) | the servers are stateless | answer, refuse (Kiss-o'-Death), stay silent | datagrams are lost, delayed, duplicated, forged |
| application loop (external) | - | alternates send and receive calls | reads `Reception`, `SendError`, `ReceiveError` |

Everything runs on the caller's thread. The concurrency is with the outside:
between any two callbacks the clock may have moved (or have been stepped by
somebody else, also backwards), datagrams of earlier requests may have arrived,
and a call may return with its work half done. What is hard, and what makes each
part correct:

* **arithmetic**: the seconds wrap every 136 years and the two clocks may be on
  different sides of it; fractions become milliseconds by a divisor that is a
  little too large; a `u64` subtraction borrows. Correct: differences are the
  true ones within half an era, the offset's error is bounded by the asymmetry of
  the network, elapsed time never runs back on a clock that does not.
* **codec**: a request carries nothing of what the buffer held before, a response
  is used only if it answers this very request, and an answer is understood
  whatever else the server put into it.
* **client**: one request is outstanding at most, it is answered at most once,
  the packet on the wire is the request that is remembered, the buffer is
  never sliced out of bounds, nothing is acted on before it is validated, and
  what a call returns tells the caller what changed.
* **deadlines**: two in the receive loop (response timeout and block time), one
  in the send loop, all measured with the host's clock, which the client itself
  corrects.
* **rotation**: every refusal and timeout moves to the next server, but the
  resolved address follows only with the next request.

`PROJECT.json` lists these hazards one by one, with the line of each and the
properties that watch it.

## Modules

```
SntpTime ─┬─ SntpSerializer ─┬─ SntpBuffer ─┬─ SntpOnWire ────── MCSntpOnWire
          │                  │              └─ SntpSerializerProofs
          │                  └─ SntpClient ─┬─ SntpClientHistory ── MCSntpClient
          │                 (refines        └─ SntpSystem ── SntpUnsteadyHost
          │                  SntpExchange)                     └─ MCSntpSystem
          └─ SntpUnixTime
SntpPoll

proofs:   SntpSerializerProofs  SntpBuffer, DivisionLemmas
          SntpTripProofs        SntpOnWire, SntpSerializerProofs
          SntpClientProofs      SntpClientHistory, SntpSerializerProofs
          SntpSystemProofs      SntpUnsteadyHost, SntpClientProofs
          SntpMeasuringProofs   SntpSystemProofs
          SntpUnixTimeProofs    SntpUnixTime, DivisionLemmas
          SntpPollProofs        SntpPoll, DivisionLemmas
```

**SntpTime** - timestamps and arithmetic, operator for function. The widths are
constants (`HalfSeconds` for 2^31, `FractionsMod` for 2^32, `FractionsPerMs` for
4 295 000, `MsPerSec` for 1000, `U64Mod` for 2^64). `WidthsAssumption` states the
relations between them the code relies on; the real values satisfy it. Saturating
and wrapping operations: an operation that cannot leave its type is plain
arithmetic (the module says why), `calculate_elapsed_ms` is modulo `U64Mod`. At its
end `TrueMs`, a time in milliseconds with the era that the code's timestamps drop, is
what the properties of all modules measure the arithmetic by.

**SntpOnWire** - one round trip of the on-wire protocol between two clocks that
advance and may be in different eras. The request is written into a `buffer` that still holds an earlier response
and its authentication data, with the random bits in its timestamp; the server
echoes what it received and fills the words the client does not read with ones;
the client reads the answer from the same buffer.

**SntpSerializer** - the codec on packets as records. `Unpredictable` is the
in-out change of the request time, `DeserializeResponse` the checks in the
code's order. The authentication data behind the header are left out.

**SntpBuffer** - the codec on the network buffer: `SerializeRequest` writes the
fields at their offsets over whatever is there, `PacketOf` reads them. A cell is a
byte where the code handles bytes (the first four) and a 32-bit word elsewhere.
`SntpClient` keeps the packet as a record; `RequestLayout` (below) is why that
loses nothing.

**SntpClient** - the client. An action is one callback together with the code
that runs from it to the next callback; `pc` names the callback about to be
made:

| `send_time_request` | `receive_time_response`, `process_response` |
|---|---|
| `SendTimeRequest` call | `ReceiveTimeResponse` call |
| `ResolveDns` `resolve_dns` | `ReceiveStart` `now` (block-time base) |
| `RequestTime` `now`, then `serialize_request` | `RecvPacket`, `RecvNothing`, `RecvFails` `recv_from` |
| `GenerateClientAuth` `generate_client_auth`, size check | `RecvRetry` `now`, both deadlines |
| `SendStart` `now` (retry window) | `ReceivedAt` `now`, and judging if no authenticator |
| `SendAll`, `SendNothing`, `SendFails` `send_to` | `ValidateServerAuth` `validate_server_auth`, then judging |
| `SendRetry` `now`, block time | `AdjustClock` `adjust_clock`, then the request is cleared |

The variables `server`, `addr`, `lastRequest`, `packetSize`, `buffer` are the
fields of `Client`; `blockTime`, `started`, `receivedAt` the locals that survive
a callback (reset when a call returns, so that they do not distinguish states);
`result` what the last call returned. The callbacks' answers are parameters of
the actions; `Next` takes all of them, so the module assumes nothing of the
clock, the network or the resolver. Of the authenticator it assumes one thing: it
is lent the whole buffer and could overwrite the request in it, and the model takes
the trait at its word that it appends "a client authentication code after the
48-byte packet" (`client.rs:140`) - what it returns, and whether it fails, is
open. The dead fallbacks of the
code (an index out of the server list, a slice out of the buffer) are not
modelled; `TypeOK` and `PacketFitsBuffer` say why they are dead.

**SntpExchange** - the abstract client: what the documentation of the two calls
and of their result types promises, with no callbacks, packets or time.
`SntpClient` refines it with `pending` mapped to "`last_request_time` is not
zero".

**SntpSystem** - the client composed with its surroundings. The client's actions
are those of `SntpClient`, which leave the answers of the host open; here they are
the answers of a host with a `clock` that `adjust_clock` corrects, of a network
(`net`, datagrams on their way; `socket`, datagrams waiting to be read) that
delays, reorders, duplicates and loses, and of servers that share the `truth` and
answer, refuse or are silent. `Ask` and `Listen` are the application's loop.
"Whether to step or slew is the implementation's business": corrections of up to
`SlewLimit` ticks are slewed (the clock runs twice as fast, or stands still, until
`slew` is used up), larger ones step the clock, and a limit of 0 is a host that
always steps. With `SharedHost` another client of the same host corrects its clock
between two calls. Time goes round an era of a few ticks, so behaviours are infinite
and the states finite. Three observers the code does not have let the properties
speak of the past: the age of the request by the true time, what the host's clock
has `gained` on the true time since the request was made (in slewing, or set by
another client), and which server's datagram was read last. With more than one
datagram on its way the network reorders; see the bounds below for what the runs take.

The divisor that turns fractions into milliseconds is not exact in the code: a thousand
times 4 295 000 is 4 295 000 000, and a second has 2^32 = 4 294 967 296 ticks. A
millisecond is then no whole number of ticks, so the properties measure both in parts
of which either is a whole number (`Ticks`, `Millis`): a second is `FractionsMod` ticks
and `MsPerSec` milliseconds, their product in parts. `Loss` is what a reading loses: the
remainder of the division and what the divisor is too large by for each millisecond of
the second, with the code's constants 1.0076 milliseconds in all. None of the
assumptions asks for an exact divisor, and every configuration of the system has an
inexact one.

`Fresh` is the one assumption about the random numbers: they keep a request from
carrying the timestamp of an earlier one whose datagrams are still under way. On a
clock that is stepped back nothing else does, and the scaled-down timestamps leave
no room for random bits.

**SntpUnsteadyHost** - the same system on a host whose clock is set back a tick
now and then, also in the middle of a call (`Falter`): an interrupt, a second time
source, a bad oscillator. `UnsteadySystemSpec` is what safety is proved of;
`UnsteadySpec`, which the run `unsteady_clock` checks, adds the fairness of
`FairSystemSpec`.

**SntpUnixTime**, **SntpPoll** - the two pure functions an application calls:
`convert_to_unix_time` on a clock that runs from the UNIX epoch across the wrap of
the timestamps and the wrap of its own result, and `calculate_poll_interval` for
every pair of arguments, reached by raising one of them at a time.

**SntpClientHistory** - ghost variables added to the client's actions, for the
properties that relate a state to an earlier one.

In each module a definition commented "Variant" is the definition after it
with one plausible mistake; putting it in that one's place makes a property fail
(`PROJECT.json`, "mutants").

## What the runs check

| run | bounds | shows |
|---|---|---|
| `onwire` | era of 2 s by 16 ticks and 4 ms, divisor 5 (does not divide 16, as 4 295 000 does not divide 2^32); every start in an era at which the clock does not read zero, every skew up to a whole era either way, legs up to 3 ticks; random bits 0, 1 and 3; a buffer full of an earlier response; seven answers (a usable one for each leap indicator, one of them with a reference id that spells a kiss code, and three refusals) | `EraSafe`, `OnlyTheRequestIsSent`, `AnswerUnderstood`, `OffsetError`, `ElapsedAccurate`, `DeadlineStaysReached` |
| `client_noauth` | 2 servers, 2 addresses, 8 timestamps (2 s by 4 ticks), 2 random masks, a usable answer and a Kiss-o'-Death to every possible request and three malformed packets | `WireMatchesRequest`, `CorrectionIsAnswer`, `AnsweredOnce`, `ImplementsExchange` |
| `client_auth` | the same, with authentication codes that fit exactly, that are 0, and that are too large | `PacketFitsBuffer`, `SizeOfLastPacket`, `ActsOnlyOnValidated`, `ImplementsExchange` |
| `system` | 2 servers (one answers, one refuses), era of 2 s by 7 ticks and 8 ms, divisor 1, the clock 2 ticks behind, duplication of responses; 1 datagram on its way and 1 in the socket at a time | `OffsetIsHowFarBehind`, `CreditedToAnswerer`, `TimeoutIsTrue`, `TimedOutHasExpired` |
| `system_live` | 3 servers (silent, answers, refuses), era of 2 s by 4 ticks and 5 ms, a host that slews a correction of one tick, loss and failures but no duplication, response timeout 4 ms, block time 1 ms | `CallsReturn`, `Synchronises` |
| `system_shared` | 1 server, an authenticating client, era of 2 s by 7 ticks and 8 ms, divisor 1, the clock 5 ticks behind, another client on the host, corrections of up to 2 ticks slewed, response timeout 3 ms | `CorrectionWithinRoundTrip`, `TimeoutIsTrue` |
| `shared_offset` | as `system_shared`, by 6 ticks and 7 ms, the clock ahead, every correction stepped | a counterexample to `OffsetIsHowFarBehind` |
| `shared_timeout` | as `system_shared`, by 6 ticks and 7 ms, the clock 1 tick ahead, every correction stepped | a counterexample to `TimedOutHasExpired` |
| `unsteady_clock` | 1 server, era of 2 s by 4 ticks and 5 ms, block time 2 ms, the clock goes forward or back while a send is retried | a counterexample to `BlockTimeBoundsSend` |
| `unix_time` | era of 16 s by 16 ticks, UNIX epoch at second 9, 457 ticks: past both wraps | `UnixTimeTrue`, `UnixNeverBack` |
| `poll` | every pair of arguments up to 150, with 10 for the code's 1000 | `LongestSafeInterval`, `IntervalFollowsDemand` |
| `address_after_rotation` | as `client_noauth` | a counterexample to `AddressOfServerInUse` (see Findings) |

The bounds are enough for the branches: the scaled clocks wrap, tie at half an
era and truncate fractions; a request may be zero, overwritten, answered, refused
and timed out in any order; two servers are the fewest that show a rotation and
its wrap; the response timeout (3 ms) and the block times (0 and 2 ms) lie inside
the 4 ms of the scaled clock on both sides of each other. `OffsetError` allows
six half-milliseconds of rounding beyond the asymmetry: four for the truncated
readings of clocks whose seconds begin at different times, one for the random bits, one
for the division. `ElapsedAccurate` allows two milliseconds short and one over. On the
instance of `onwire` every one of these is needed: with any of the three bounds one
smaller TLC finds a counterexample, and the proofs show that no instance needs more. The datagrams offered to the client
of `SntpClient` do not depend on what it sent, so forged, duplicated, late and
replayed answers are among them.

In `SntpSystem` the bounds are named constants: `MaxDelay` (a datagram takes at
most a tick to a server, and one back), `MaxInFlight`, `SlowSteps` and `MaxLag`
(the steps of the client during which time passes, and how much), `MaxAge` (where
the observer of the request's age stops counting). They leave room for what the
properties are about: a reply of another server read late, a reply in the socket
when the timeout fires, a correction measured over more than two ticks, a
duplicate response read after its original. Every one of them occurs in the runs. What
does not is one datagram overtaking another, or a duplicated request: `MaxInFlight` is 1
in all of them, one datagram on its way and one in the socket, because with 2 the
states no longer fit. Answers are late, stale and repeated all the same; that
reordering and duplicated requests change nothing is what the theorems show, for any
`MaxInFlight`. In `system` and
`system_shared` time passes while a request is made, while the client waits for a
datagram and before it reads the clock after one, which is where the readings that
enter an offset and a deadline are taken; in `system_live` it passes where a retry
loop could spin. `Rounding` in `SntpSystem` names the terms of its rounding.

`CorrectionWithinRoundTrip` compares the offset with the mean of what the clock
lacked when the request was made and what it lacks when the answer is read. On a
host that steps its clock and is used by one client the two are the same, and the
property is `OffsetIsHowFarBehind`, which `system` checks; slewing and other clients
change the clock in between, and half of that change is what the offset is then off
by. Both have as their premise (`HalfEraPremise`) that the differences the code takes
are within half an era, with the round trip, what the readings lose and the random bits
counted. Both allow twice the offset an error of the round trip and `Rounding`. In
`system_shared` that is 2.6 ticks, with clocks and round trips of together up to 6 ticks
within the premise, and the run comes close to it: with a bound smaller by 5/8 of a
tick, or with a `Loss` smaller by half a tick in `TimeoutIsTrue`, TLC finds a
counterexample. `TimeoutIsTrue` has as its premises that there is a request, that the clock
was not set back since it was made, and that its age fits an era less a second, which
is what the code's subtraction of the seconds can measure. In
`system_shared` they are met by corrections after other clients' and while one is being
slewed, and by timeouts on a clock that has gained.

`TimedOutHasExpired` says of the timeouts on a host that steps and is not shared what the documentation says
of them without a premise.

`system_live` and `unsteady_clock` assume the same fairness: weak fairness of the client (the caller's
thread runs), of `Respond` and `Arrive` (servers and network do not hold a datagram
for ever; they may still lose it), and strong fairness of `Tick`: a clock that
keeps running is not stopped by where the client happens to be - the code says that
the block time is only as good as the clock, and the source's README names a clock without
progress as the case in which a call never returns. `CallsReturn` needs no more
than that; in the counterexample of `unsteady_clock` the clock goes forward for ever,
and is set back as often. `Synchronises` has as its premise that from some moment on there is no
`Fault`: a name that does not resolve, a transport that fails or moves nothing, a
lost datagram, a full socket, a server whose clock reads exactly zero. The code gets
past servers that refuse or do not answer, not past one whose name never resolves
or whose socket always fails: only a rejection or a timeout rotates.

Two limits came out of stating `Synchronises`. The application of that run listens
again after `InvalidResponse`. One that sends a fresh request instead may never
synchronise, although every request is answered: a stale reply in the socket is
read first, rejected, and the genuine one it left behind is the next stale one. The
documentation of the calls leaves open which of the two is meant. And the client
must not be asked to receive after `TimedOut` or `Rejected`: it has moved to another
server by then, with the request still remembered (the applications of all runs
ask anew, as the documentation says).

The `onwire`, `unix_time` and `poll` runs switch deadlock checking off because a
trip, the clock or the list of arguments ends; the client and the system never stop.

## What is proved

Every safety property and every action property that a passing run checks is also a
theorem. For every value of the constants allowed by the named assumptions
(`WidthsAssumption`, `RandomAssumption`, `ClientAssumption`, `TripAssumption`,
`UnixAssumption`, `PollAssumption`, and for the system `SystemAssumption` and
`ApplicationAssumption`: the application does not listen after `TimedOut`,
`Rejected` or a failed resolution), TLAPS proves:

* `SntpSerializerProofs`: `RequestLayout` - what is written into any buffer reads back
  as the record `SntpClient` puts on the wire, and nothing else is touched - and
  `SmallestDifference` - `SafeTimeDifference` is the representative of the millisecond
  difference modulo an era that lies in (-half, half]; and the lemmas about packets and
  readings that the next four rest on.
* `SntpClientProofs`: `TypeCorrect`, `SlicesInBounds` (`PacketFitsBuffer`),
  `RequestRemembered` (`WireMatchesRequest`), `OnlyAnswersCorrect`
  (`CorrectionIsAnswer`), `Refinement` (`ImplementsExchange`), `NoReplay`
  (`AnsweredOnce`), `ResponseSize` (`SizeOfLastPacket`), `ActionsValidated`
  (`ActsOnlyOnValidated`).
* `SntpSystemProofs`: `SystemImplementsClient` - the client of the system is one of
  `SntpClient`, so all of the above hold of it - `SystemTypes` (`TypeOKSystem`) and
  `AnswererCredited` (`CreditedToAnswerer`); and of a host whose clock is set back
  `UnsteadyImplementsClient` and `AnswererCreditedUnsteady`.
* `SntpTripProofs`: all properties of the round trip - `EraSafety` (`EraSafe`),
  `TripTypeOK` (`TypeOK`), `NothingElseIsSent` (`OnlyTheRequestIsSent`),
  `AnswersUnderstood` (`AnswerUnderstood`), `ElapsedIsAccurate` (`ElapsedAccurate`),
  `DeadlinesStayReached` (`DeadlineStaysReached`) and `OffsetIsAccurate` (`OffsetError`).
* `SntpMeasuringProofs`: what these measurements are worth in the system -
  `CorrectionAccurate` (`CorrectionWithinRoundTrip`), `TimeoutsTrue` (`TimeoutIsTrue`)
  and `TimeoutsTrueUnsteady`,
  the same where anything may set the clock back; and, on a host that steps its clock
  and serves one client, what the documentation says without a premise:
  `OffsetTrueUnshared` (`OffsetIsHowFarBehind`) and `TimeoutsExpired`
  (`TimedOutHasExpired`). Both are false on a shared host, see Findings.
* `SntpUnixTimeProofs`: `UnixTimeCorrect` (`UnixTimeTrue`) and `UnixTimeAdvances`
  (`UnixNeverBack`).
* `SntpPollProofs`: `PollIntervalCorrect` - what `calculate_poll_interval` answers to
  any two arguments - and from it `IntervalIsLongestSafe` (`LongestSafeInterval`) and
  `IntervalIsMonotone` (`IntervalFollowsDemand`).

The theorems of `SntpMeasuringProofs` have hypotheses of their own. All of them have
`AgesToldApart`: the observer that counts the age of a request counts to an era less a
second at least. It is about the observer only - beyond `MaxAge` it has stopped and says
nothing true of the code - and the configurations of `system` and `system_shared` satisfy it. A host that steps its clock and serves one client is
`~ SharedHost` and `SlewLimit = 0`. `TimeoutsExpired` needs in addition
`ListensForAnswers` - an application that listens after a correction or after a
transport that failed may have no request to listen for, and the code then reports a
timeout of a request made at time zero - and a response timeout that is no longer than
an era less a second, which the 32 bits of the code's parameter, 50 days of
milliseconds, cannot exceed. The configuration of `system` satisfies all of these.

The argument for the client: `IInv` is the conjunction of `TypeOK`,
`PacketFitsBuffer`, `WireMatchesRequest` and `CorrectionIsAnswer`. None of the
last three is inductive alone - they need the types, and all of them say
something only at some values of `pc`, so that the step which enters such a value
has to establish them. `WireMatchesRequest` needs that a bitwise or never makes a
number smaller, so a reading that is not zero stays so (`UnpredictableTime`);
`PacketFitsBuffer` needs the size check to come before the addition
(`SizeWithBounds`). Each action is a step of `SendStepIInv` or `ReceiveStepIInv`.
The refinement maps each action to an action of `SntpExchange` or a stutter under
`IInv`: `Sent` and `Synchronise` need a request in flight, which is
`WireMatchesRequest` and `CorrectionIsAnswer`. `NoReplay` rests on a second
inductive invariant: whenever a request is outstanding no correction has been made
for it (`Unanswered`), because only `RequestTime` makes `last_request_time`
nonzero (`OnlyRequestsRemember`). `ActionsValidated` needs besides only that a call
has no result before it returns (`ResultsLast`).

For the system: `SysInv` adds to `IInv` the types of the surroundings, that the
queues are finite, and `Matching`, which ties every datagram to the request and the
server it belongs to. While a request is being sent, and as long as the application
listens for its answer (`Current`), the datagrams of the remembered request all
belong to the server in use; so the one that is read and echoes the request does,
and `CreditedToAnswerer` follows with `CorrectionIsAnswer`. It takes the freshness
of the random bits (a new request equals no timestamp under way), that the address
resolved is that of the server asked, and the application's part: rotation ends
`Current`, and without `ApplicationAssumption` a listening client could read an
answer of the server before. That a datagram of a request that is not remembered
may belong to anybody is why the invariant speaks of the remembered one only.

For the arithmetic: a difference of two `as_millis` values lies strictly within one
era of zero, and adding or subtracting an era when it is beyond half an era gives the
one representative within half an era; the tie is the special case.
`StampDropsEras` relates a reading to the absolute clock (they differ by
whole eras), which makes `EraSafe` an instance. For the elapsed time both branches of
the fractions are one signed quantity (`PartialMs`), truncated toward zero; the seconds
modulo the era are the true ones while a trip is shorter than an era less a second
(`SecondsBetween`), and the `u64` never borrows below zero because the random bits
stay below a millisecond (`ElapsedBetween`). That the measured time does not go back
comes down to one tick: within a second the fraction grows, and at its end a whole
second is added for at most a second's milliseconds taken away, since a fraction is
never a thousand milliseconds.

For the round trip the inductive invariant is `TripInv`: the types, that the request
is a reading of the clock at its start with less than a millisecond of random bits
(`RequestRead`), how late each leg may end (`TripTimes`), that the buffer is what
`serialize_request` made of some earlier content (`RequestWritten`), and in the end a
response to that (`Answered`). `OffsetError` and `AnswerUnderstood` are about the last
state and need all of it: the offset is computed from four words that were written in
four different steps.

For the measurements of the system the inductive invariant is `Measured`, beside
`SysInv`. `RequestAge`: the remembered timestamp is a reading, and the clock now
reads that much more as the request is old and the clock has gained since
(congruent modulo an era, `SameTick`: a clock that is stepped goes round).
`AnswersServed`: any datagram that answers it, in flight, in the socket or read, holds
readings of a server's clock that were taken after the request was made.
`AnswerRead`: the reading that goes with it was taken after that, with so much slewing
since as there were ticks. The freshness of the random bits is what makes it
inductive: when a request is made nothing under way answers it. A request makes the
invariant hold by binding nothing yet, and every later step only has to move the
times on: a tick by one, a step of the clock by what `gained` records; one that
this client makes itself forgets the request. The offset and the age then follow from
two lemmas, `DifferenceInParts` and `ElapsedInParts`, which bound what the truncations
lose for any divisor that is not too small: in parts a reading's milliseconds lie
between its ticks less `Loss` and its ticks (`FractionInParts`), because the loss grows
with every millisecond of a second and is made good at the end of it.
`OffsetTrueUnshared` adds that the clock `KeepsPace` on such a host.
`TimeoutsTrue` needs `RequestAge` only, not the answers, and that is invariant also
when the clock is set back, as `gained` keeps the books of it (`ClockMoves`); hence
`TimeoutsTrueUnsteady`. `TimeoutsExpired` adds to `KeepsPace` that there is a request
whenever the application listens (`HasRequest`), which needs `WireMatchesRequest` for the
calls that fail after the request was made.

Proving these corrected the model in places that the instances were too small to
show: the bounds of `OffsetError` and `ElapsedAccurate` were a millisecond too small for
divisors and random bits that the scaled instance did not have; `HalfEraPremise` did
not count the rounding; the observer of the request's age stood still while an
answer was validated, and the observers and the network while an unsteady clock was
set back; and the assumptions now say how short the last millisecond of a
second and the random bits have to be (`TripAssumption`, `SystemAssumption`). A divisor
that is exact would have hidden that a reading loses more than a millisecond: the
bounds of the system's properties hold for the code's because they count it. The
instances of the runs were chosen anew to exercise all of this.

For the UNIX time: both branches of the conversion are one subtraction modulo an
era because the two constants are complementary (`SecondsTrue`), and a quotient
never decreases (`QuotientMonotone`), so neither the seconds nor, within a second,
the microseconds run back. The inductive invariant is that the clock has not been
before the epoch.

For the poll interval an induction is needed - that the powers of two grow, that some
power exceeds every number - and the provers cannot apply the library's induction
principle, which takes the statement as a parameter. The proofs take the least
counterexample instead: a set of numbers that is not empty has a least one
(`LeastNumber`, from the well-foundedness of `<`), and the one before it gives the
contradiction. That `TwoTo` is the function its recursive definition describes is proved
the same way. `leading_zeros` is the number of powers that exceed its argument, so the
power it points to is the largest that does not, and two divisions' worth of
inequalities turn that into drift. The interval follows the demand because each of the
three steps does: the division (`ExactFollowsDemand`), the highest bit and the shift
(`IntervalGrows`).

Only model-checked, because out of the provers' reach, are the liveness properties,
`CallsReturn` and `Synchronises`. The counterexamples are TLC's alone.

## Findings

`AddressOfServerInUse` - the accessor `current_server_address` is documented as
"The resolved address of the server in use." (`client.rs:389`). `rotate_server`
changes the server only, so after `Rejected` or `TimedOut` the address is that of
the previous server until the next request is resolved. The run
`address_after_rotation` gives the shortest such history: server 0's name is resolved,
a receive call times out and rotates to server 1, and the address is still server 0's.

`OffsetIsHowFarBehind` - "`offset_ms` is how far this clock is behind the server."
(`client.rs:79`), while "the same host can serve several" clients (`client.rs:291`).
When another client corrects the clock between this one's request and its answer,
the offset is wrong by half of that correction: in the history of `shared_offset`
a clock that is right is moved away from the true time. `CorrectionWithinRoundTrip`
is what does hold: the offset is the mean of how far the clock was behind before
and after.

`TimedOutHasExpired` - "The response timeout expired." (`client.rs:227`). The
unsigned subtraction in `calculate_elapsed_ms` borrows when the clock was stepped
back within a second, and the next receive call reports a timeout of a request just
sent, and rotates. The source's README lists it as a defect reproduced from the C
library; `shared_timeout` shows how another client of the host brings it about.
`TimeoutIsTrue` is what holds unless the clock was set back since the request.

`BlockTimeBoundsSend` - "`block_time_ms` bounds the retrying of a transport that
keeps reporting that it sent nothing." (`client.rs:414`). On a clock that goes
forward and back in turns the difference of two readings never reaches the block
time, and the send call never returns (`unsteady_clock`). The documentation of
`receive_time_response` says so of its own deadlines, and the source's README calls
the oscillating clock the realistic trigger; that of `send_time_request` promises a
bound.

## Not modelled

The facade crates re-export. The C drivers under `src/oracle` drive the reference
implementation that the tests compare with. The benchmark calls the codec in a
straight line. The order of the bytes within a word, `code_bytes` and the accessors
of `types.rs` are formatting. The two checks of `with_authenticator` are assumptions
on the constants: a client that failed them does not exist, and the `BufferTooSmall`
errors of the codec cannot occur in one (`PacketFitsBuffer`). A host whose clock
stops for good is among the behaviours of `SystemSpec`, which asks for no tick, but
not of `FairSystemSpec`: the documentation says that calls do not return then. A
server that refuses an authenticating client with a bare 48-byte Kiss-o'-Death is no
kind of server in `SntpSystem` (in `SntpClient` it is `RecvFails`): the read is
partial, so the client reports a network error and does not rotate.

## How it was built, and what is left

The order was: the arithmetic, the codec and the client with the abstract exchange it
implements; the system around it, safety before liveness; the codec on the buffer; the
pure functions; then the proofs, the client's first, on top of them those of the system
that its client is that client, and on top of the accuracy of a single round trip what
the client measures in the system.

Left: a server that refuses with a bare header in **SntpSystem** (see above), and the
accuracy of a correction on a host whose clock is set back while an answer is being
validated, where `wait` ticks no longer bound what the clock has moved.

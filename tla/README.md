# GNSSTk: TLA+ models and proofs

This directory holds TLA+ models of the stateful core of GNSSTk, the TLC
configurations that check them on small instances, and proofs, checked by
TLAPS, of the safety properties that matter most. `PROJECT.json` relates every
definition to the lines it models and lists the runs, the hazards, the
disagreements found and the theorems.

## The system

GNSSTk is a library of GNSS algorithms. Most of it is numerical or formatting
code; its stateful core is what happens to navigation messages: receivers
deliver copies of broadcast messages, *filters* weed out the bad ones, *decoders*
turn them into `NavData` objects, and a *store* answers searches for them.

| Component | State it keeps | Operations | Modelled |
|---|---|---|---|
| `NavFilterMgr` | chain of filters, the set `rejected` | `validate`, `finalize`, `processingDepth` | yes |
| `NavOrderFilter`, `LNavOrderFilter` | `orderedNav`, a set in time order | `validate`, `finalize` | yes |
| `LNav-`, `CNavCrossSourceFilter` | `groupedNav` per PRN and content, `currentTime` | `validate`, `finalize` | yes |
| `LNavEphMaker` | `ephemerides` per channel, `completeEphs` | `validate`, `finalize` | yes |
| parity, empty, TLM/HOW, TOW, almanac and sanity filters | none but `rejected` | `validate` | as a check that fails or not |
| `LNav-`, `CNavCookFilter` | none | change bits in place | no |
| `NavDataFactoryWithStore` | User, Nearest and offset maps; first/last and initial/final times; duplicate filter | `addNavData`, `edit`, `clear`, `find`, `getOffset`, counting | all but `findAll`, `getAvailableMsgs`, counting, `getIndexSet`, `dump` |
| `NavLibrary`, `MultiFormatNavDataFactory` | lists of factories | searches over several factories, delegation | no: they keep nothing between calls |
| PNB decoders (GPS LNAV, CNAV, CNAV-2, BeiDou D1, D2, Galileo I/NAV, F/NAV, GLONASS FDMA, CDMA) and `PNBMultiGNSSNavDataFactory` | accumulators of pages per transmitter, pages that wait for others | `addData`, `resetState`, the type and validity filters | what is kept between pages, but for `timeAcc` and `ltdmpAcc` of GLONASS CDMA |
| `SP3NavDataFactory` | the messages being put together, the clock source, the time system, the store | `addDataSource`, `useRinexClockData`, the record filters | loading; not the interpolation |
| RINEX, SEM, Yuma factories | the store | file loading | only RINEX clocks as loaded by the SP3 factory |
| File streams | state of the stream, header | records in and out | reading text records with stream exceptions off |
| File formats | per format | parsing, formatting | records of SP3; the others no |
| `FileDirProc`, clock models, position solution | file lists, data per epoch, residuals | real-time frames, outliers, RAIM | no |
| Time, reference frames, ephemerides, geomatics, math, ORD | values | arithmetic | no |
| Command line, application framework, utilities, bindings, examples, deprecated | - | - | no |

How they interact. An application owns its messages and gives pointers to
`NavFilterMgr::validate`, one at a time; the manager hands the list each filter
accepts to the next one. It gets back what passed, and finds what was rejected
on the lists of the filters named in `NavFilterMgr::rejected`; anything else is
still held by a filter. `finalize` flushes each filter in turn into those after
it. Accepted messages go to the decoders: `PNBMultiGNSSNavDataFactory` gives
each to the decoder of its message, which keeps it until the pages it belongs
with are there, and then puts data objects out for `addNavData`. Files are
another source: `SP3NavDataFactory::process` reads records from an `SP3Stream`
until the state of the stream says that there are no more, puts position,
velocity and clock of a satellite together and adds them to its store.
Applications and `NavLibrary` search the stores. There are no threads:
everything is a call on shared objects. What is hard is the *order* of calls and
of the data (late, duplicated and lost messages; flushes in the middle of a
cascade; pages of two uploads mixed; damaged files; edits between additions) and
the number of places that hold a copy of a fact (three maps and four summaries of
one set of messages).

What makes each component correct:

* filters: no message is returned twice or both accepted and rejected, and none but
  ephemeris subframes replaced in `LNavEphMaker` is lost; the order filter emits in
  time order and rejects only what is too late; a vote is taken once over a whole
  epoch and its winner was not outvoted; exactly the consistent ephemerides are
  offered;
* manager: the same for a cascade of filters, through any mix of calls, and the
  filters hold no more epochs than `processingDepth()` says;
* decoders: a data set is of one upload, whatever is lost or left over; every
  upload heard in full is reported; an almanac is dated by a reference with its own
  time of week; what waits for another page is finished by it, once;
* SP3 loading: no record is lost, repeated or reordered; a message is of one
  satellite and epoch; a load ends, and tells whether it got everything; clocks
  of two kinds of file do not mix;
* store: every time offset on offer is also in the map of messages, after any
  sequence of additions, refused additions and edits; the summaries never promise less than is stored; a search returns the
  best acceptable message; a search for the past does not see the future.

## The modules

`NavFilters` defines what each filter keeps, accepts and rejects as operators on
sets of messages, and `LNavEphGroups` does this for `LNavEphMaker`. One module
per filter turns them into a state machine that is handed *lists*, as a filter in
the middle of a cascade is; `NavFilterMgr` composes all of them. The store is
split the same way: `NavDataSearch` holds the searches as functions of the maps,
`NavDataStore` the operations that change these.

The decoders are split by what waits for what. `PNBDecoders` says which pages
belong together in each of the ten accumulators, `PNBPages` is what all
accumulators do with them, and implements `PageSets`, an abstract specification
of page assembly that knows no accumulators: a set of pages heard, and data sets
made of them. `PNBAlmanacs`, `PNBGLOFAlmanacs` and `PNBCNav2` are about pages that
wait for a page of another kind. `PNBMultiGNSS` composes the four: every page
goes to all of them, and the one it is not for does nothing, which is how
`PNBMultiGNSSNavDataFactory` finds the factory for a page. `SP3NavDataFactory`
extends `SP3Stream`: a load is a loop of reading and taking records.

| Module | Models | State and actions |
|---|---|---|
| `NavOrderFilter` | `NavOrderFilter.cpp` | `orderedNav`; `Validate(batch)` with its release of old messages, `Finalize` |
| `NavCrossSourceFilter` | `LNavCrossSourceFilter.cpp`, `CNavCrossSourceFilter.cpp` | `groupedNav` (`currentTime` is the time of its members); the two differ in `minIdentical`, `minTotal` |
| `LNavEphMaker` | `LNavEphMaker.cpp` | `ephemerides` as the set of the subframes stored, `completeEphs` as the set of channels it points to |
| `NavFilterMgr` | `NavFilterMgr.cpp` | a program counter (`call`, `next`, `flushing`), the list in transit, and per filter its store and rejected list; one action per iteration of each loop |
| `NavDataSearch` | `findUser`, `findNearest`, `validityCheck`, `matchHealth`, `getOffset` | none: operators |
| `NavDataStore` | `addNavData`, `updateInitialFinal`, `edit`, `clear` | the three maps as sets; `AddNavData`, `AddRefused`, `Edit`, `Clear` |
| `PNBDecoders` | the checks of `processEph` and `processAlm` in nine decoders, and what they yield | none: operators |
| `PageSets` | nothing of the code: what assembling pages promises | `heard`, `made`; `Ignore`, `Hear`, `Make`, `Forget` |
| `PNBPages` | `ephAcc`, `almAcc` of all decoders | `acc`, a set of pages, one per key and slot; `Discard`, `Pass`, `Store`, `Assemble`, `ResetState` |
| `PNBAlmanacs` | almanac pages of LNAV, D1, D2 and the NMCT | the maps `fullWNaMap`, `almAcc`, `heaAcc`, `amEpIDMap`, `nmctAcc`; one operator per kind of page |
| `PNBGLOFAlmanacs` | almanac strings and UT1 offset of GLONASS FDMA | `almS` (with the keys `opened`), `almDOY`, `pendingAlms`, `timeAcc`; one operator per string |
| `PNBCNav2` | `PNBGPSCNav2DataFactory` | `sf2Acc`, `sf3Acc`: what the ISC objects were filled from; `ProcessISC` |
| `PNBMultiGNSS` | `PNBMultiGNSSNavDataFactory` | the variables of the four; `MultiAddData`, `MultiResetState` |
| `SP3Stream` | `SP3Data::reallyGetRecord`, `FFTextStream::formattedGetLine`, `FFStream::tryFFStreamGet` | the state of the `std::fstream` (`pos`, `bits`), `lastLine`, `currentEpoch`, the record `rec`, and `pc` in the loop; one action per kind of line |
| `SP3NavDataFactory` | `process`, `store`, `addRinexClock`, `useRinexClockData` | `eph`, `clk` and `last`, `useSP3clock`, `storeTimeSystem`, `data`; `AddDataSource`, `Read`, `TakeRecord`, `Finish`, `GiveUp`, `UseRinexClockData` |

Variables marked *history* in the modules record what went in and out; no guard
looks at them except that a message is handed over once.

Abstractions, and why they are sound for what is checked:

* A message is a number with attributes given by constants (time stamp, PRN,
  the rank of its bits, subframe ID, TOW, issue). Filters look at nothing else.
  Numbers stand for addresses: ties in the order filter are broken by address.
* The list passed between filters is a set. The manager starts with one message,
  and every filter appends in time order, so the list is the set in time order;
  within one time stamp no filter depends on the order, except `LNavEphMaker`,
  where a channel never delivers two subframes at one time
  (`ChannelAssumption`).
* The filters without state are one `"check"` filter with a set of messages that
  fail; which bit patterns these are does not matter to the cascade.
* The maps of the store are sets of records whose keys are fields of the record.
  `nearestData` keeps a list per key: the searches return the first acceptable
  entry of the list, the model the set of the acceptable ones. Where a search may
  return any of several equal candidates, the operators return all of them.
* A loop over iterators in `findUser` is replaced by the pass in which each
  iterator reaches each message, because all of them move one step per pass.
* A time offset that the filter has seen changes nothing, so it is not an action.
* Times are instants. Time systems matter only to whether two times can be
  compared (`Incomparable`); the code itself ignores the seconds between time
  systems in `firstLastMap`.
* `edit` with no satellite, with a satellite and with a signal is one action,
  parameterised by the set of signals that match.
* A page is a record of what the decoders look at: where it goes, its issue of
  data, its time, whether it has the right length and passes the check. One
  attribute is not in the bits and no guard looks at it: `upload`, the data set the
  transmitter had. `OneUpload` and `CompleteFrameReported` are about it, and
  `UploadAssumption` says what of it the bits tell.
* An almanac orbit heard twice is twice in the code's list and once in
  `almAcc`; both are treated alike, so that one stands for both.
* A data object put out is its type and the pages it was made from.
* A file is a sequence of lines with their kind and fault. The number of an epoch
  line stands for its time, so all epochs are distinct, as they are in SP3. What
  a message is made of is the set of lines it was merged from.
* A RINEX clock file is read in one step: its records are independent, and no
  call can come between them.

## The runs

| Run | Instance | Shows |
|---|---|---|
| `order` | 6 messages on and off the epoch grid, two at one time, a jump longer than the window; depth 2 | lists in any grouping and order, `finalize` at any point |
| `cross` | 5 copies of a subframe with contents 1,1,2,2,2, another PRN, the next epoch; 2 identical of at least 3 | every majority, tie and too small vote |
| `eph_single` | 2 channels, 2 frames each, losses and a change of issue in mid-frame; lists of any subframes | no ephemeris missed or offered twice; what is offered was broadcast as one |
| `eph_live` | as `eph_single` | *violated*: documentation of `LNavEphMaker::completeEphs` |
| `mgr` | check, order, cross source filter and ephemeris maker; 9 messages of 7 epochs in any order, one of a second channel of the ephemeris maker; `finalize` repeated | conservation, draining, order, one content, depth |
| `mgr_produced` | as `mgr` | *violated*: comment in `LNavEphMaker::finalize` |
| `store` | 9 messages: almanacs of two satellites and two time systems (invalid, unhealthy, of a short fit), two of health, an SP3 orbit of unconvertible time, two offsets with equal parameters; two spans to remove; filter by SV; all search times, exact and wildcard | offsets and summaries stay consistent; searches for one signal are exact in every store; no foresight |
| `search_user` | as `store` | *violated*: a wildcard User search |
| `pnb` | per decoder two uploads, a damaged page, a second transmitter or signal; every mix of types and validity that changes anything | nothing is mixed, missed or forgotten; `PNBPages` implements `PageSets` |
| `cnav2_isc` | as `pnb` | *violated*: comment in `processISC` |
| `sp3` | 22 files in good order (with, without and with a cut-off end), 14 damaged ones, files for the record filters, sequences of up to three SP3 and RINEX clock files | records in order, messages whole, loads complete, clocks apart, loads end |
| `sp3_last` | as `sp3` | *violated*: comment in `SP3Data::reallyGetRecord` |

Bounds. The sets of messages are chosen so that each comparison in the code is
met below, at and above its limit: in `order` there are messages exactly one
window apart, closer and further; in `cross` the second and third vote and both
thresholds decide; in `mgr` a message overtakes the window, one fails the check,
the flush of one filter triggers both acceptance and rejection in the next, and
there is one epoch more than the filters may hold (`ManagerDepth`), so that filters
that keep too much are found out. After `finalize` the application makes no further `validate` call,
as the documentation of `finalize` has it, but it may call `finalize` again.
`mgr` lets a single copy win (`minIdentical = 1`) so that few messages suffice;
`cross` covers the real thresholds. `eph_single` hands over lists of any length.
Because the code pushes a pointer to a live group, a later subframe of a list may
change the group that an earlier one completed. `OfferedWasComplete` therefore
says what a list offers *when it is put in* `completeEphs`, by the history of what
was received: three subframes of one ephemeris, each the latest of its kind, the
last of them in this list. That the group is still so when the call returns is
what the documentation says and `eph_live` refutes.
In `store` everything comes to the same few times, so that fit intervals, edits and
searches begin and end at, before and after each other; the searches are asked in
every store that additions, edits and `clear` lead to.
In `pnb` any page on the air may come at any time, any number of times, or not
at all, so that loss, repetition and reordering are in every run; two uploads
are enough for leftovers of one to meet the next, and the second starts a new
`Week` where decoders go by the time of week. The transmitter of an almanac may
change from one time of week to another and back any number of times. Few decoders share an air, since
they share nothing but the filters; `BothAir` has two of them at once. In `sp3`
each kind of line, each fault, each way for a file to end (newline or not,
blank, cut off in a line, text EOF or not) and each option of the factory
occurs, alone and where it matters together with another file. A load in `sp3`
is deterministic up to the reading of uninitialised coordinates; the states are
those of the calls.
`END_OF_TIME` and `MaxTime` are the latest times there are. No counter is
bounded artificially, and no run turns off deadlock checking: a call to
`finalize`, `clear` or `resetState` is always possible, and an application that
has loaded all its files may stop there (`Terminated`).

Fairness. Only `SP3NavDataFactory` has any: weak fairness of `Read`,
`TakeRecord`, `Finish` and `GiveUp`, the steps of one load. The loop of a load is
plain sequential code, so once called it runs; nothing obliges the application to
make another call: adding messages, pages or files has no fairness anywhere. The
other modules state no liveness; the loops of `NavFilterMgr` go over a fixed chain
of filters, see `CallsDescend` below. `LoadEnds` says that a load of any file that is not
`Hopeless` ends; on a hopeless one it does not, see below.

Passing properties each have a mutant in `PROJECT.json`: the definition named
there, replaced by a plausible bug kept beside it (`...Mutant`), violates it.

## What disagrees with the documentation

Five statements of comments and documentation are violated by what the code
does; a run shows each.

* `mgr_produced`: `LNavEphMaker::finalize` clears ephemerides completed in the
  same `NavFilterMgr::finalize`.
* `eph_live`: after a list that ends with the first subframe of the next frame,
  `completeEphs` (`LNavEphMaker.hpp:119-123`) points to a group of two frames. Such a
  list spans 18 seconds. In a cascade the order filter releases one after an outage
  if its depth, "configurable, but defaults to 3 epochs" (`NavOrderFilter.hpp:69-70`),
  is 4 or more; or the application hands over longer lists itself.
* `search_user`: `findUser` takes the last iterator's word for all of them, so a
  wildcard search may miss the latest message.
* `cnav2_isc`: `PNBGPSCNav2DataFactory.cpp:605` reads a page number of a complete
  message at an offset that is for subframe 3 alone; corrections are put out with
  an older page than the one just received.
* `sp3_last`: the branch of `SP3Data.cpp:289` that is to deliver the last record
  of a file without the text EOF is never taken; a load that reports success
  lacks that record. `LoadComplete` therefore allows for it.

More was met while modelling. The models have the behaviour of the code in all
of these cases; no run is spent on them.

* `NavFilterMgr::finalize` never fills `NavFilterMgr::rejected`
  (`NavFilterMgr.hpp:227-228`), and clears a filter's rejected list after
  cascading messages into that filter. An application that follows the
  documentation loses those messages. This is why `NothingLost` speaks of
  `validate` only.
* `LNavEphMaker` does not pass its messages on, though "All messages will pass this
  "filter"" (`LNavEphMaker.hpp:87`) and "all subframes are passed"
  (`LNavEphMaker.cpp:107`): an ephemeris subframe whose place another takes is
  never given back, to an application that is to delete what it gets back.
  `NothingLost` excepts these by name (`Replaced`). An application that deletes
  completed subframes, as `LNavEphMaker.hpp:75-77` tells it to, leaves `ephemerides`
  with pointers to them.
* `NavFilterMgr::validate` ends its loop when no message is left, and does not call
  the filters after that: `completeEphs` then still has what an earlier call
  completed, though "There is no carry-over of contents between calls to
  validate()" (`LNavEphMaker.hpp:121-123`).
* `findNearest` does not compare distances across signals in a wildcard search.
* `edit` removes by user time from one map and by time stamp from the others.
  Neither `edit` nor `clear` touches the duplicate filter, so that a time offset
  once removed cannot be added again. `firstLastMap` is not touched either:
  `getFirstTime` may report a record that is gone.
* `resetState` of a decoder is for discontinuous data
  (`PNBNavDataFactory.hpp:101-107`), but the NMCT subframes of LNAV, the health
  bits and `AmEpID` of D1 and D2, and the day and `pendingAlms` of GLONASS
  survive it. So does `ltdmpAcc` of GLONASS CDMA (`PNBGLOCNavDataFactory.cpp:553-560`,
  not modelled), whose strings are merged into ephemerides with the same tb.
* A page 51 of another time of week leaves LNAV almanac orbits in `almAcc`
  (`PNBGPSLNavDataFactory.cpp:527-543`), though they "are stored in almAcc until such
  time as a page 51 is processed" (`PNBGPSLNavDataFactory.hpp:97-100`). If a later
  week has that time of week again, its page 51 dates them with that week. The
  BeiDou decoders give such orbits up, and `DatedByOwnToa` says so of them only.
* A complete CNAV-2 message whose page 2 of subframe 3 names a GNSS other than 0 to
  3 is an error if time offsets are wanted, and `addData` does not get to
  `processISC` (`PNBGPSCNav2DataFactory.cpp:92-94, 485-487`): its subframe 2 yields no
  inter-signal corrections. `EverySF2Published` names this case.
* GLONASS CDMA keeps N4 in `timeAcc` by satellite (286-289) and looks it up for
  almanacs under a key whose satellite is 0 (`processAlm`), so that the year comes
  from the time of transmission. Not modelled.
* The first page of a Galileo I/NAV accumulator is stored without being looked
  at for what it yields by itself. Word type 5 has no issue of data and is not
  held to the upload of the others.
* A record of an unknown satellite system, or a correlation line without the
  position or velocity it belongs to, raises an exception that `FFTextStream`
  drops without setting failbit, and the caller gets the same record for ever,
  though "the stream sets ios::fail and will not read any more" is what
  `FFStream.hpp:82-83` says of a failed read. A last line of one or two
  characters without newline is also read for ever, inside `reallyGetRecord`.
  `Hopeless` names these files.
* The options that reject predicted positions and clocks
  (`SP3NavDataFactory.hpp:282-291`) keep the predictions and reject the rest
  (`SP3NavDataFactory.cpp:668, 679`). The option to reject bad positions governs
  the x coordinate only: y and z of zero reject a record without it (650-653).
* The last clock of an SP3 file is stored whatever `useSP3clock` says (692,
  compare 642), though after RINEX clocks "any subsequent attempts to load SP3 data
  will not include the clock data from those SP3 files"
  (`SP3NavDataFactory.hpp:117-120`) and "the SP3 clock data will not be loaded"
  (185-186). `ClocksApart` allows for this one clock per load, and so does not
  catch that bug; it catches any other. A RINEX clock file of
  unknown time system sets that of the store to GPS (765-766).
* A velocity record accepted after its position record was rejected makes a
  message of no satellite. What was stored before a load failed stays in the
  store. An epoch line right before the text EOF, a line after it, or a lone EOF
  as the first record spoil the load of the file or give an empty message.

## What is proved

TLAPS proves the following for every value of the constants that satisfies the
named assumptions of the modules: any messages, time stamps, depths, epoch
lengths, thresholds, chains of filters, time systems.

* `NavFilterLemmas`: what the filter operators return and preserve; among
  others that a finite nonempty set has a latest message.
* `NavOrderFilterProofs`: all properties of its run, and `Conservation`,
  `AcceptedBehindHeld` and `HeldNotBeforeAccepted`, which no run lists. The
  inductive invariant is their conjunction. The pivotal one is
  `AcceptedBehindHeld`: everything accepted is a window behind some message
  still held, so that whatever is not too old for what is held cannot be older
  than anything accepted; time order (`AcceptedInTimeOrder`) follows from it.
* `NavCrossSourceFilterProofs`: all properties of its run. The invariant is the
  partition (`Conservation`) and `OneEpochHeld`; the theorems on votes are action
  properties that follow from it because every collection is part of one epoch.
* `NavFilterMgrProofs`: all safety properties of its run. `TypeOK`, `NothingLost` and
  `DrainedWhenDone` hold whatever the chain; that a place in `LNavEphMaker`, once
  taken, stays taken (`PlaceStaysTaken`) is what `Replaced` needs. The invariant adds where messages can be during a call (`CallOK`: only filters
  before `next` are named in `rejectedFilters`, what is in transit is in no
  filter, what is pending has not been reported) and what each kind of filter
  holds (`StoredAsKind`). The lemma `FilterPartition` says that every kind of
  filter partitions what it is handed; one lemma per action uses it.
  With an order filter at any place `k` of the chain, `ReturnedInTimeOrder`: from
  `k` on what a filter holds is not newer than what those before it hold, and all
  that filter `k` has let pass is a window behind something it still holds, or
  else nothing will reach it any more (`InOrder`, `Closed`). With a cross source
  filter at any place after `k`, also `OneContentPerEpoch`: it holds one epoch,
  later than all it has let pass (`OneVote`). These are inductive only with
  `FlushOK`: filters before the one being flushed are empty.
  `EpochsWithinDepth`, again whatever the chain: each kind of filter holds no more
  epochs of a channel than its own depth (`Shape`; for the order filter that is
  `OrderKeepsWindow`), so that together they hold no more than the sum of the
  depths, which is shown by descent on the set of filters summed over. The
  message a call starts with is the one epoch more, and no other step brings a
  message into use.
  The property is about each channel, as the example at `NavFilterMgr.hpp:222`
  allocates a buffer for each: over all channels together it would be false,
  because `LNavEphMaker` keeps a group for every channel it ever saw. It needs the
  time stamps to be on the grid of `epochInSeconds` (`Aligned`), which the user is
  to set to the period of the messages (`NavOrderFilter.hpp:91`; 6 s for the
  subframes of LNAV). And it bounds how many epochs there are, not how old they
  are.
  `FinalizeOffersNothing` turns the counterexample of `mgr_produced` into a
  statement about every cascade: `finalize` returns with no completed ephemeris.
* `NavDataStoreProofs`: all properties of the run `store`. The invariant is
  `TypeOK`, `OffsetsInStore`, `SpanCovered`, `TimeStampsCovered` and
  `OffsetsUnique`. To be inductive, `OffsetsUnique` needs
  that every filtered message in the store is in the duplicate filter
  (`TouComplete`): the filter may know too much, never too
  little.
  `ExactUserLatest` is about the loop of `findUser` over its iterators: a lemma on
  cardinalities (`PassReached`) says that no pass of an iterator skips a message,
  so that the loop cannot end before the pass that finds the latest one.
  `NoForesight` holds because all that the search looks at is determined by what
  its iterators can reach (`SameIterators`), and health by what was known when the
  message was transmitted (`SameAcceptable`).
  `ExactNearestClosest` is about the two iterators of `findNearest`, which walk away from the
  search time on either side: together they come to every message of a signal,
  from the nearest to the farthest (`SignalVisits`, by descent on the set of times
  still to visit), so that the first acceptable one is the closest.
  Searches with wildcards promise less, and two theorems say how much is left.
  `ClosestOfOneFound`: the result is the closest acceptable message of its own
  signal, and nothing is found only if some signal with messages has no
  acceptable one. `LatestOfLastFound`: the result is acceptable and no older than
  what the last signal listed has, which is what remains of the `UserLatest`
  that `search_user` refutes.
* `LNavEphMakerProofs`: all properties of `eph_single`. The invariant is that
  `ephemerides` holds the latest subframe received for each place
  (`LatestStored`), which is where it is needed that the subframes of a channel
  come in time order. The last three subframes, if they are an ephemeris, are
  therefore in their places when the third of them has been stored; and what is
  in the places when a group is found complete is an ephemeris that was broadcast
  (`OfferedWasComplete`).
* `PNBMultiGNSSProofs`: all properties of its run, as theorems of the
  composition; its pages part implements `PageSets` (`MakesPageSets`). A data set
  is of one upload because its pages agree pairwise (`UploadAssumption`). That none
  is missed needs more: the pages heard since the last page of another upload, or
  others of them in their slots, are still in the accumulator, of one upload and
  fewer than needed, until the key is reported (`RunHeld`, `RunOneUpload`); pages
  left over from before only occupy slots that the run has yet to fill. For
  `DatedByOwnToa`, `NoneOverdue`, `WaitsUntilUsed`, `NoPairWaits` and
  `EverySF2Published` the invariants are the maps' types (`AlmTypeOK`, and for
  GLONASS that strings are held only for keys that were opened) and the
  properties themselves, for `DatedByOwnToa` also that the references in use and the
  BeiDou orbits that wait are from after the last change of toa heard
  (`NothingOutdated`); one lemma per kind of page.
* `SP3NavDataFactoryProofs`: `TypeOK`, `RecordsInOrder`, `MessagesWhole`,
  `LoadComplete`, `ClocksApart`, for every file and every sequence of loads. The
  stream is one line ahead of its caller: `AheadByOne` says which records the
  caller has or is about to get at each point of the loop. `ReadCases` sums up
  what a step of the reading does, and one lemma for each of the other invariants
  goes through its nine cases. For `MessagesWhole`, `EpochOK` says that
  `currentEpoch` is the last epoch line read, and `WholeInv` that the record and
  the messages belong to one satellite and epoch, *unless* the stream is stuck at
  a record of an unknown system: then the record is half replaced, but is never
  taken with a change of satellite, so that nothing of it is stored. For
  `LoadComplete`, `EndInv` says what has been read when end and failure are set
  together, which is how `process` tells the end from an error, and `KeptTaken`
  that every record got is in the store or in the message being put together.

Only model-checked: the liveness property `LoadEnds`, since fairness and ENABLED
are beyond the prover. Proved is the rest of the argument, for every file, and for
the calls of every cascade, of which no run states liveness. `CallsDescend` and
`LoadsDescend`: a natural number, bounded by the size of the cascade or the file,
falls with every step of a call (`LeftToDo`) or load (`LinesLeft`; of a file that is
not `Hopeless`). `CallsAdvance` and `LoadsAdvance`: while a call or load is in
progress the conditions of a step of it hold (`CanStep`, `CanGoOn`, which spell out
the guards). A call or load that goes on as long as it can, as sequential code
does, therefore ends.

Assumptions worth knowing: `DepthAssumption` (a depth of zero keeps nothing),
`FiniteAssumption`, `NavAssumption` (a message is available to a user no earlier
than it is transmitted, `NavData::getUserTime`), `ChannelAssumption`;
`PageAssumption` (pages have a slot of their accumulator), `UploadAssumption`
(the issues of data and the times by which a decoder tells uploads apart do tell
them apart: BeiDou's, for instance, do not if an upload lasts a week),
`HeadAssumption` (weeks 256 to 511 of CNAV-2,
whose upper bits look like page 1, are over); `SourceAssumption` (a file has a
line after its header) and the two `SetupAssumption`s.

## Not modelled, and why

The models cover the code that keeps state between calls and decides by it. By
far the most of this library is something else: field by field parsing and
formatting (RINEX, SINEX, BINEX, IONEX, SEM, Yuma, RTCM, the bit layouts of the
navigation messages), arithmetic on floating point (orbits, reference frames,
tides, atmosphere, statistics, matrices, position solutions), tables of
coefficients, and the frame of command line applications. A model of a parser at
the level of its text would be the parser again, and floating point is out of
reach of TLC and TLAPS, so the share of the lines that is modelled is small.

Of the stateful parts these are left out: the counting functions, `findAll`,
`getAvailableMsgs` and `getIndexSet` of the store, and `NavLibrary`, because they
read what is modelled and keep nothing; the stateless messages of the decoders;
stream exceptions, roll-back and writing of the streams; the interpolation of SP3
tables; `FileDirProc`; outlier stripping in `ObsClockModel` and the RAIM subset
search, whose decisions are on floating point.

## Plan

Done, in this order: (1) the filters, the manager, their proofs; (2) the searches,
the store, its proofs; (3) the decoders of packed navigation bits, their abstract
specification, refinement and proofs; (4) reading SP3 files and loading them, with
proofs.

Candidates for more, none of them begun: `LNavEphMaker` with the time of week
modulo a week; `RTFileFrame`; normalisation in `CommonTime`; the counting
functions of the store.

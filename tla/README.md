# SPRITS in TLA+

SPRITS watches a table with a camera, finds fiducial tags in the image and
publishes where they are, as TUIO (OSC over UDP and over a WebSocket) and as
JSON over another WebSocket. This directory holds its specifications, the TLC
runs that check them and the TLAPS proofs about them.

## Inventory

| Part | State | Operations | Talks to |
|---|---|---|---|
| `Camera` (`Camera.hpp`), `VideoStream`, `OpenNI` | crop window, drag, offset; device crop; frame signals | mouse handler, `update`, `notify`, `setCropping` | calls the trackers, on main (VideoStream) or on a device thread (OpenNI) |
| `ChiliTracker` | `alive` | `fire` per colour frame | calls `Plane::setElement` once per tag that came, stayed or left |
| `Plane`, `Space` | `points_`, `seen_`, subscribers | `setElement` (two), `getElement`, `notify` | calls both publishers back before it returns |
| `TUIOPublisher` | `objects[1024]` | `fire` | drives `TuioServer` |
| `TuioManager`, `TuioServer` | object, cursor and blob lists, session id, frame number | add/update/remove, `initFrame`, `commitFrame`, bundles | `UdpSender`, `WebSockSender` |
| `TcpSender`, `WebSockSender` | `tcp_client_list`, `connected`, one accept thread, one thread per client | `sendOscPacket`, `newClient`, accept loop, recv loop | TUIO receivers |
| `WebSocketPublisher`, `websocketpp` | `connections_`, mutex, asio thread; a state machine per connection | `fire`, open/close handlers, `send` | WebSocket clients |
| `main`, docopt | options, `stop` | read the command line, build, loop, delete | owns all of the above |
| `FingerTracker`, `feature_extractor` | - | not built by `main` | - |
| jsoncpp, OSC, spdlog | vendored | formatting, logging | - |

What makes them correct, and is hard:

* **Tracking.** Three places remember whether a tag is there: the tracker's
  `alive`, the Plane's `seen_` (ids whose last word was REMOVE) and every
  subscriber. No two consult each other. They must agree, for the order of
  notifications, for `points_.erase(points_.find(id))` to be defined and for
  the TUIO object table not to leak or to delete twice. Reads insert, messages
  carry the pose stored *before*, and an exception can leave a notification
  half done.
* **TcpSender.** An accept thread, client threads and the publisher share a
  `std::list` and a flag with no lock; a client thread guesses its client by
  `back()`.
* **Camera.** Crops are drawn on crops, in coordinates of what was last shown, which
  before the first frame is a blank image of a size of its own.
* **WebSocketPublisher.** A connection set filled by one thread and used by
  another, and a `send` that throws on a connection that is closing.
* **Start and shutdown.** Observers subscribed before they are constructed and
  unsubscribed after they are destroyed; threads that outlive what they use; a
  map of signals that camera threads extend while `main` subscribes; a flag set by
  a signal handler and looked at between two updates.
* **Options.** docopt matches with the usage text: abbreviations, options that
  take the next token, a default that stands where it is not looked for.
* **Cursor numbers.** Manager and receiver number contacts on their own, reuse
  numbers, and dereference the head of a free list after a test of the length of
  another list. A frame may be split over bundles with one frame number.
* **TUIO over UDP.** Bundles are lost, late or repeated, and the program may be
  restarted under a receiver that runs on.

## Modules

| Module | Models | State and actions |
|---|---|---|
| `Plane` | `spaces/Plane.cc` | `points`, `seen`; `SetElement`, `ClearElement`, both with the reads the observers make |
| `TuioPublisher` | `publishers/TUIO.cc`, object half of `TuioManager.cpp` | `objects`, `objectList`, `sessionID`; `TuioFire` |
| `Tracking` | `trackers/ChiliTracker.cc` with the two modules above and the messages of `WebSocketPublisher::fire` | one action per turn of the two loops of `fire`: `Mark`, `Sweep`; `*Throws` where a publisher throws, `MarkUndefined` where a wild pointer is followed |
| `TagLife` | what a subscriber may rely on | abstract; `Tracking` implements it |
| `MCTracking` | - | history of the last two frames |
| `TcpSender` | `TcpSender.cpp`, `WebSockSender.cpp` (listening sender) | one program counter for the accept thread, one per client thread, an iterator for the publisher |
| `TuioWire` | `TuioServer.cpp` (object bundles), the lists of `TuioManager.cpp`, `TuioClient.cpp` | server: `Fire` (add, update or remove, then `Commit`), `Exit`, `Crash`, `Restart`; transport and receiver: `Deliver` of any bundle, in order with losses, or a recent one late or again |
| `MCTuioWire` | - | history: which bundles of this run the receiver took, and which sessions it has dropped |
| `WsPublisher` | `publishers/WebSocket.cc` on `websocketpp/impl/connection_impl.hpp` | publisher: `Fire`, `Send`, `Push`, `Post`, `Return`; asio thread: one action per handler (handshake, reading, writing, timers) and `OpenHandler`, `CloseHandler`, which wait for the mutex |
| `MCWsPublisher` | - | symmetry of the connections |
| `Cropping` | `Camera::croppingEvent`, `Camera::update`, `VideoStream` | one action per mouse event, `ShowFrame` |
| `MCCropping` | - | history: was the selection drawn on the crop in force |
| `TuioPool` | the numbering in `addTuioCursor`, `removeTuioCursor` and their like for blobs and for the receiver | operators on a pool (highest number, numbers left behind) |
| `TuioContacts` | cursor and blob profile: `TuioManager.cpp`, `TuioServer.cpp`, `TuioClient.cpp` | server: `InitFrame`, `AddContact`, `UpdateContact`, `RemoveContact`, `StopUntouchedMoving`, sweeps and reset, `CommitFrame` with full and periodic updates, `Destroy`; `Lose`, `Receive`, and the receiver's two loops `ProcessSet`, `ProcessGone` |
| `MCTuioContacts` | - | history: what was lost |
| `Docopt` | `docopt.cpp` from `parse_argv` to `match` | operators; a token, or a letter of a token of short options, is read per turn (`ParseNext`); each kind of pattern is an operator on outcomes |
| `Lifecycle` | `SPRITS.cc`, constructors and destructors of camera, observers and publishers, `Camera::notify`, `OpenNI`'s threads | a program counter for `main` and the phases it takes each object through; the chain of calls of one colour frame; a depth frame |
| `Sprits` | `main` with `docopt` | composes `Docopt` and `Lifecycle`: `ReadToken`, `PrintUsage`, `TakeArguments`, then `Lifecycle!Next` |
| `MCSprits` | - | the tokens of command lines |
| `TrackingProofs`, `TcpSenderProofs`, `WsPublisherProofs`, `CroppingProofs`, `TuioWireProofs`, `TuioContactsProofs`, `LifecycleProofs`, `SpritsProofs` | - | theorems |

Abstractions. A pose is a model value: nothing depends on its coordinates. A
tag found by chilitags is any set of tags in any pose: the library is external.
A `TuioObject` is known by its session id. Clients are numbered in order of
arrival, which is the order of the list, so that the list is a set of numbers
and `back()` its largest. `Start` has no case for an empty list: `BackDefined`
shows there is none. Undefined behaviour is a phase of its own: in `Tracking`
the use of an array entry that nothing set, if that entry is not null; in
`TcpSender` (`Corrupt`, `Remove`) a list operation that overlaps a write by
another thread, or the freeing of the node under the publisher's iterator. Where
list operations overlap without harm they take effect one after the other.
`VideoStream::cropped` starts with any value. The window of `Cropping` starts with the
blank image (`Blank`, 800 x 800 in `Camera.hpp:38`), which is what it shows, and what the
mouse selects on, until a frame comes: when the camera gives none, `update` shows the
image it showed before, and no variable changes.

In `TuioWire` a bundle is one datagram: it carries every live session and at most
one object message, since `TUIOPublisher::fire` makes a frame of each notification,
and it fits into a packet (4096 bytes hold several hundred tags). A frame in the
same microsecond as the one before, whose object message would be sent again, is
left out. Frame 0 is never sent: the first notification is an UPDATE of a tag that
has no object (taken as null; `Tracking` has the case where it is not). Late
bundles are considered while their server runs; the empty bundles, which carry no
number, are never late. Without that a late empty bundle would hide every object.

In `WsPublisher` a message is the number of its notification; the state before
*open* is merged with the internal state. `set_timer` objects are one per
connection: an older timer that still runs can only call `terminate` on a
connection that is closed or closing, as the newer one does. `dispatch` posts, as in
`transport/asio/connection.hpp`. Data frames change nothing, since the program
sets no message handler. After `fire` has thrown the publisher stops (`thrown`): with
a `VideoStream` the exception ends `main`.

In `TuioContacts` a contact has a session id, a number, a place and a speed, which is 0
exactly when an update leaves it where it was; a blob's shape is left out. Which free
contact is closest depends on distances and is any of them (`Reused`). The receiver
takes a contact that it did not know to rest, whatever the message says
(`TuioClient.cpp:279`), and reckons the speed itself of one that has moved along a way
of which the message says 0 (`SpeedsAfter`). It handles a bundle contact by contact, in
an order that its lists determine and the model leaves open. `MaxWire` says how many
bundles may be under way when the next frame begins; the theorems hold for any number.

In `Lifecycle` an object goes through phases: `base` (base class constructed, hence
subscribed), `body`, `live`, `closing` (destructor running), `stripped` (only the base
is left), `gone`. A virtual call that meets another phase than those in which the
derived class answers is undefined, and so is the use of `signals_` by one thread
while another inserts; nothing is modelled after such a step (`Defined`). What the
observers do is left to the other modules, except that a WebSocket send may throw.
Frames of a `VideoStream` are delivered inside `update`, those of OpenNI on a thread
for each stream. `update` of a `VideoStream` may also throw (`UpdateThrows`): which region
does is the subject of `Cropping`. The number of a port is any integer, which
`lexical_cast<int>` takes negative as well (`--websocket=-1` listens on 65535).

In `Docopt` a token carries the option names it holds, and `Abbreviates` which name
is a prefix of which. The pattern and the option list are those docopt makes of the
usage text of `SPRITS.cc`: `MatchUsage` composes the operators for its nodes the way the
tree composes them, so that no operator is recursive. Each child of an `[options]`
is an option of its own name, and the order in which docopt's hash table has them is
therefore immaterial. The loop over the letters of a short token is taken apart into
turns; nothing else can happen between them.

Definitions marked *Mutation* are slips that the properties must notice; no
specification uses them.

## Runs

| Run | Question | Bounds | States |
|---|---|---|---|
| `tracking` | do subscribers see what the camera sees? | 2 tags, 3 poses, session ids up to 3 (about four returns of a tag) | 88 371 |
| `tracking_wild` | is `updateTuioObject` given an object? **no** | same | stops early |
| `sender` | what survives the unlocked list, and do client threads end? (liveness) | 3 clients, descriptors for 2, 1 packet | 169 743 |
| `sender_state` | does `connected` tell the truth? **no** | 2 clients | stops early |
| `sender_order` | is the handshake answered before frames? **no** | 2 clients, 1 packet | stops early |
| `sender_new` | is `newClient` called for each client? **no** (liveness) | 2 clients | 4 022 |
| `cropping` | is the crop the one drawn? | image of 5 x 3, blank image of 2 x 5, area above 1 | 632 279 |
| `ws_publisher` | is a handle held exactly from open to close, does the peer get everything in order before the close frame, and does closing end? (liveness) | 1 connection, 3 notifications | 69 942 |
| `tuio_wire` | what does a receiver show after losses, delays, repetitions and a restart? | 2 tags, 2 poses, 2 runs of 4 frames, delays of 1 frame, window 1 | 2.2 million |
| `cursors` | are numbers handed out safely, and does the receiver list the contacts of the manager, where they are? | cursors and blobs, session ids up to 2, 2 places (symmetric), 2 frames before the destructor's, 1 message per bundle, any bundle lost | 3.2 million |
| `main` | are options read as the usage text says, what do frames meet during construction and destruction, does an interrupt end the program? (liveness) | every command line of up to 3 of 17 tokens | 45 429 |
| `main_port` | is the documented default port used? **no** | up to 2 tokens | stops early |

Why the bounds are enough. Tags interact only through the order of the two loops and the
shared session counter: two tags give every order; three poses tell the default, a
stored and a new one apart; three session ids let a slot be filled, emptied and filled
again while another tag does the same. Two accepted clients let a thread watch the
client of the other and take it first, and the third meets an exhausted set of
descriptors; the proofs cover any number of clients and descriptors. An image of 5 x 3
with the threshold scaled from 10 to 1 is the smallest that leaves room for a crop
within a crop (4 x 3 does not: no mutation of the offset shows there); the proofs cover
images of any size. The blank image of 2 x 5 is narrower and higher than that, so that a
selection on it may lie inside the image or outside, as one on 800 x 800 may with 1280 x
720. Connections share only the mutex, the publisher's loop and the asio thread, and the
proofs cover any number of them; the stream of one connection needs three messages for
one to be written, one pushed and one lost between the two. There is at most one pong
for each connection (`ReadPing`) and one close frame in a queue besides one that is
being written (`ReadInvalidClose`). Four frames let a session begin, end and be followed
by another while a bundle of the first is late; the window of 100 frames is scaled to 1,
so that a restarted server can be both inside and outside it. Two places tell a contact
that moved from one that did not. Three contacts fill the numbers 0 to 2, so that a
number can be left behind, be taken again and be dropped as the highest goes; two frames
let one be lost and the next be received, and a full update that is split into bundles
makes the receiver give up a number and take it again within one frame; a receiver is done with the bundles of a frame
before the next begins. Of the command lines, three tokens hold an option, its argument
and a camera; the tokens have every form that `parse_long` and `parse_short` tell apart,
and ports below, within and above 16 bits. Of `main`'s objects there is one each, as in
the program; one colour frame and one depth frame are under way at a time, since each
stream has one thread. `MaxSession`, `MaxClients`, `MaxFrames`, `MaxMessages`,
`MaxFrame`, `MaxRuns`, `MaxWire`, `MaxTokens` and `OffsetBound` are the other bounds;
deadlock is not checked, since all of these systems stop at them or by an exception, and
the mouse may rest.

Fairness. `TcpSender!FairSpec` assumes that the operating system runs each thread that
can go on: the constructor, the accept thread, each client thread and a send that has
begun. Nothing is assumed of receivers, nor that a camera frame comes.
`WsPublisher!FairSpec` assumes that the publisher goes on, that the asio thread runs
queued handlers and that timers expire. A timeout handler needs strong fairness, because
it becomes runnable and not runnable again as the thread waits for the mutex; asio's
queue is first in, first out. Nothing is assumed of peers. `Lifecycle!Fairness` assumes
that `main` goes on and that a frame whose delivery has begun comes to its end, except
in a send to a TUIO client. `WebSockSender.cpp:82` sends without a time limit, on the
thread that delivers the frame, or on `main` when the destructor of the `TuioServer`
says that nothing is left (`DeliverySends`, `MainSends`): a client that does not read
can hold up either for ever, and fairness says nothing of these steps. `StopEnds`
therefore has the premise that the program is not for ever in such a send; a
`WebSocketPublisher` only queues its message. Fairness includes strong fairness of
`ObserverReturns`: the tracker may notify again and again, but chilitags finds finitely
many tags in a frame. That frames arrive, or that somebody closes the crop window, is
not assumed: with a `VideoStream` an update without a frame is a step like any other.

## What the runs show

* **Notifications.** A subscriber hears UPDATE first (not ADD), then UPDATE or
  REMOVE, ADD after REMOVE. After each finished frame it shows exactly that
  frame's tags. A pose is published one frame late: right for a tag that rests,
  the default (0, 0, 0) for one just found.
* **TUIO objects** correspond to the table's entries one to one, also when an
  exception leaves `fire` half done. A first sighting, however, updates a
  pointer that was never set (`tracking_wild`); where the memory happens to be
  zero the tag has no TUIO object until it leaves and returns.
* **The sender's list** never loses a client that is there and is never empty
  when a thread looks for its client, whoever took whose; and the sender does not
  stay connected without clients. The opposite happens: a client can be left
  with `connected` false (`sender_state`). Frames can precede the handshake
  (`sender_order`), and a client that leaves early blocks the accept thread
  (`sender_new`).
* **WebSocket connections.** The open handler and the close handler of a
  connection are each called once, `connections_` holds its handle in between,
  and nothing queued is forgotten although two threads push. A peer gets every
  notification from its first to its last, in order; when the publisher has tested the
  state just before the close frame is queued, its message comes after that frame and
  is never written (`CloseIsLast`). Between the close frame and the close handler
  `send` throws; that ends within the close timeout (`ClosingEnds`).
* **TUIO receivers.** The alive list repairs every loss, no delayed bundle
  brings an object back, and an object is right if the last message about it
  arrived. After a restart a receiver skips frames while their numbers are below
  the old one, at most 100, and then takes all (`HearsAgain`).
* **Cursors and blobs.** Every number up to the highest is in use once or left
  behind, at the manager and at the receiver, so that neither looks at the end of an
  empty list. Between frames the receiver lists each contact whose last message it
  got, where it is, and none that has gone unless the last bundle was lost
  (`ReceiverMirrors`). Its speed need not agree: a contact first heard of while it moves
  is taken to rest.
* **Command lines.** docopt accepts exactly what the usage text describes, with the
  meaning it describes (`ParserAgrees`), save for the default port: it stands in a
  bracket that docopt does not take for a default, and without `--websocket` the
  program ends with an error (`main_port`).
* **Start and shutdown.** With a `VideoStream`, with the crop window open, and
  whenever `main` is in its loop, frames meet whole objects only; with an OpenNI camera
  and no crop they can meet an object whose base alone exists, while it is built or
  destroyed, and the table of signals can be used by two threads. After an ordinary end
  nothing runs and nothing is subscribed when the loggers are dropped; after an
  exception nothing is deleted, and a frame may then find the logger gone. An interrupt
  ends the program unless a send to a TUIO client blocks for ever or undefined behaviour
  comes first.
* **Cropping.** Handler and camera agree on where the crop begins. A selection
  drawn while the window shows the crop in force is usable and narrows the crop. One drawn
  before the new crop is shown, or on the blank image before the first frame, may lie
  outside the camera's image, which ends the program with an exception (phase `thrown`):
  the two properties are therefore about selections drawn on the crop in force
  (`faithful` in `MCCropping`).

## Proofs

`tlapm` checks, for every value of the constants:

* `TrackingProofs`. Assumptions: `PoseAssumption` (the default pose is a pose, a missing
  entry is not), `TagAssumption` (tags are integers), `TuioAssumption`,
  `MaxSessionAssumption`. `TypeOK` and `EraseDefined` are not inductive: that a removed
  tag has an entry needs `alive` to be what subscribers show and `seen` the tags last
  removed (`Tied`), and `Tied` needs to know where `fire` is (`Progress`). `IInv` is
  their conjunction; from it follow `TypeCorrect`, `EraseIsDefined`, `BoardIsRight` and,
  as a step-by-step refinement, `ImplementsTagLife`. For the objects, `ObjInv` adds that
  session ids are distinct and not ahead of the counter: `ObjectsAreOwned`,
  `NoObjectOutlivesItsTag`, `PublishersNeverDisagree`. `RestingTagsAreRight` is about
  `MCTracking`, where two frames are remembered. Its invariant `Told` says what the
  Plane holds and subscribers were told in the middle of a frame: for a tag already
  marked the new frame and the one before, for one that waits the frame before, and the
  default for what is not on the plane.
* `TcpSenderProofs`. Assumptions: `ClientsAssumption`, `FramesAssumption` (the bounds
  are naturals). `IInv` says that what is missing from the list was removed by a thread
  that watched it (`Listed`), that threads past `recv` watch clients that left
  (`Watching`), and which threads exist (`Spawned`). `NotDry` is the pigeonhole
  argument: fewer threads have removed than clients were accepted, while one has yet to
  run. From it `BackIsDefined`, `OpenClientsStay` and `IdleConnectionIsTold`.
* `WsPublisherProofs`. Assumption: `WsAssumption` (`None` is no connection). Five
  properties follow from one invariant: `TypeCorrect`, `HandlesStayLive`,
  `QueueGetsServed`, `CloseComesLast` and `NothingIsSkipped`. The last three are not
  inductive as they stand. A queue is served because the flag tells of an outstanding
  write until the connection is closed (`WriteOutstanding`); a close frame comes last
  because it ends its batch and, once written, the connection (`CloseEnds`). For the
  messages, `Serving` says what the loop of `fire` holds on to under the mutex, and
  `Streams` that each living connection has all messages from its first to the last that
  the loop has got round to (`Newest`); what has been written is a prefix of the stream.
  `FirstPosition`, that a set of positions has a least element, is drawn from the
  well-foundedness of strict inclusion, since the induction theorems are out of reach.
* `CroppingProofs`. Assumptions: `SizeAssumption`, `AreaAssumption` (the image and the
  blank image have positive sides, in no order of size; the threshold is a natural).
  `IInv` adds to the properties that when the window has shown a frame, and nothing has
  been drawn since, it is true (`WindowIsTrue`), that the points of a drag lie in the
  crop it was begun on (`DrawnInside`), and that the crop does not change while a drag
  is under way. The points of a drag are bounded by what the window shows, which is the
  blank image or part of the camera's (`PointsOfWindow`). `MovedArea` is the arithmetic:
  a rectangle moved by an offset keeps its area. Theorems `TypeCorrect`,
  `OffsetNeverDrifts`, `SelectionsAreUsable` and, for the action property,
  `SelectionsNarrow`.
* `TuioWireProofs`. Assumption: `WireAssumption`, of which it matters that a delay is no
  longer than the window. The invariant has a half for each side. `ServerInv` speaks of
  the bundles of the present run: their frame numbers grow (`Numbered`), a session that
  two of them list is listed by all in between (`Lasting`), ids are not used twice
  (`Sessions`, `OneSymbol`), and each object has a bundle with the last word about it
  (`Listed`). Add, update and remove are shown to be one kind of step (`Change`), so
  that each conjunct is proved once. `ReceiverInv` rests on `InOrder`: the receiver
  takes bundles of a run only in the order they were sent, since a repeated one is no
  further back than the window and therefore recognised as late. Then what is shown is
  what the newest bundle taken lists, and what was dropped is listed by none after it
  (`Follows`). Theorems `TypeCorrect`, `NoGhostEver`, `LossIsRepaired`,
  `NoLastingDeafness`, `OnlyTheLastMessageCounts`.
* `TuioContactsProofs`. Assumption: `ContactsAssumption`. `Whole` (of a pool: all
  numbers up to the highest are in use or left behind, not both, and the highest is in
  use) is kept by `Give` and by both ways to take a number, because the list of contacts
  is as long as there are numbers in use (`WholeCounts`). At the receiver this has to
  hold in the middle of a bundle, with a contact still to be added or removed. That a
  set of numbers has a greatest element follows from the well-foundedness of `<`. From
  it `ManagerNumbersAreWhole`, `ReceiverNumbersAreWhole` and `FreeContactIsThere`: the
  free list is not empty when an element is taken from it.

  The second half of the module is about `ReceiverMirrors`, which speaks of a quiet
  moment; the invariant `MirrorInv` says of every state what the receiver will show once
  it is quiet. `Said` is about a contact: the last bundle on the wire that tells of it
  has it right, a bundle that does not list it is followed by one that tells of it, and
  if none tells of it the receiver has it right when its work is done, or missed the
  last word. `Listed` is the same about who is alive. While a frame is under way both
  hold of what it has not touched, and `ManagerInv` says that what it touched is marked
  for `commitFrame`: the steps of the manager that send nothing keep the invariant for
  this one reason (`QuietMirrors`, `FrameMirrors`). That `commitFrame` then sends a
  message about each touched contact depends on how it counts contacts off into bundles:
  it sends as many bundles as there are distinct part numbers, so a gap in the numbers
  would leave the last one unsent. `NoGap` shows that there is none, for any `Room`, and
  `SelectedIsSent` that each message is in a bundle that is sent. Bundles are not late
  (`Punctual`), since none is overtaken. Theorem `ReceiverMirrorsManager`, of `MCSpec`,
  which extends `Spec` by what was lost.
* `LifecycleProofs`. Assumption: `PortAssumption` (a conversion yields an integer,
  negative or not; that `port` fits 16 bits is what `Complete` makes of it). None of the
  four properties is inductive: that nothing is left when `main` drops the loggers
  depends on everything that `main` planned since the camera was opened. The first half
  of `IInv` is about that plan. `Covers` says that a plan takes every object of a set
  through all its phases, and the lemmas up to `DestructionCovers` show it of what
  `main` builds and deletes for every choice of options, piece by piece, with the
  decorator's destructor around that of the observer it deletes. `Planned` and `Stages`
  carry it along: a construction or destruction that has begun will be done (`Towards`),
  no object is begun twice (`Begins`), and where `main` is tells how far the plan has
  got. The second half is about threads: slots belong to objects that have begun
  (`Slots`), a frame's chain of calls to slots (`Called`), no frame comes on another
  thread while the camera is a `VideoStream` or the crop window is open, and `main` is
  in `signals_` only before an observer's base (`Apart`), and streams end before the
  camera does (`Stopped`). Theorems `TypeCorrect`, `CallsMeetOnlyWholeObjects`,
  `TableStaysSafe`, `NothingIsLeftAfterClose`. They are about `Lifecycle!Spec`, which
  starts with any options that `main` may look at.
* `SpritsProofs`. Assumptions: `TokenAssumption` (what a token is: a long one has one
  name, a short one at least one letter, none of which is the name of a documented
  option, since those are long; the name of a camera is a word), `MaxTokensAssumption`
  and `PortAssumption`; nothing is assumed of `Abbreviates`. `ParserAgrees` compares the
  end of two ways to read a command line. docopt reads from left to right, takes the
  next token when an option wants one, makes up options it does not know, and leaves it
  to the matching to refuse them; the usage text as `WellFormed` states it speaks of all
  positions at once, with a set of those that are arguments. The invariant `PInv` says
  of a reading under way that it is `Good` or `Rejected`. It is good when the first `d`
  tokens can be split into options and their arguments in one way only (`Splitting`) and
  what was found is, one to one, what the tokens say that are no arguments (`Places`).
  It is rejected when no split of the whole line is well formed and docopt cannot accept
  any more (`Bad`): it has failed, or found something that the pattern does not take, or
  has yet to read a letter of a short option, which will be such a thing. That a letter
  is still to come has to be among these, because between a token and its first letter
  nothing wrong has been found yet. `GoodStep` takes a turn of the loop apart by what
  the token may be; `BadStays` says that no turn undoes a mistake. The lemmas about
  matching lead to `UsageMatched`: of what was found, the pattern takes one item per
  documented option, wherever it stands, and a camera if that alone is left. The loop of
  `Optional::match` over the documented options is a recursive function; in `RunExists`
  and `OptionsTaken` the argument is that there is no first turn at which it would go
  wrong, since `<` is well-founded. `AcceptedWell`, `WellAccepted` and `SaysMeaning`
  join both sides at the end. Theorem `DocoptAgreesWithUsage`.

  `WInv` adds to `PInv` and to the invariant of `LifecycleProofs` that nothing is built
  before `main` has its options. `Quiet` shows that nothing but docopt can move then, and
  `TakesInit` that the step which takes the options leads to an initial state of
  `Lifecycle`: this is where the types of the options come from the command line
  (`MeaningIsArguments`). So what `LifecycleProofs` shows for all options holds of the
  program for every command line: `ProgramTypeCorrect`, `ProgramCallsWholeObjects`,
  `ProgramTableIsSafe`, `ProgramLeavesNothing`, and `ProgramRunsLifecycle`, that after
  docopt the steps of the program are those of `Lifecycle`.

Every safety property of a passing run is a theorem. Only model-checked are the liveness
properties `ThreadsEnd`, `ClosingEnds` and `StopEnds`, since liveness is out of the
prover's reach, and the runs that find a violation.

## Not modelled, and why

* **OpenNI's rounding of a crop.** The device rounds and refuses small selections
  (`OpenNI.cc:94`) while `Camera` adds exact corners, so that the two drift apart
  without bound. The documentation promises nothing about it.
* **The destructor of `TcpSender`** against its client threads: it frees the list while
  they wait in `recv`, which is undefined whatever follows. `Lifecycle` deletes a
  publisher as one object; the same holds of what `stop()` of the WebSocket server does
  to open connections.
* **`sendOscPacket` returns true** for packets that some client did not get; `missed`
  records it, and no text says otherwise.
* **Session ids after a restart.** A receiver that missed the empty bundles between two
  runs takes a new tag for an old one with the same id. The model has these behaviours,
  and `begun` excludes them from the properties.
* **Several sources at one receiver** (the removal of another source's contacts,
  `TuioClient.cpp:402`), source names and `sendFullMessages`: SPRITS is one source.
* **`addExternalTuioCursor`** and its like, listeners, and the sweeps over objects: nothing
  in the program calls them. Mixing external cursors with numbered ones would break the
  numbering.
* **A contact at constant speed** counts as stopped (`TuioContainer.cpp:106`); the model
  of a contact's state has no more than the code's test.
* **How the usage text is parsed** into a pattern: `Sprits` has its result for this
  program's text. Counted options, option lists and `options_first` do not occur in it.
* **`FingerTracker` and `feature_extractor`**: `main` never builds them; image arithmetic.
* **`Debug::fire`** (a log and a video file), jsoncpp, the OSC encoder, fmt and spdlog:
  formatting and I/O, no protocol of this program; SHA-1 and base64: the content of one
  response; the client side and the extensions of websocketpp; the Windows branches.

The vendored libraries make up most of the lines of the repository, and most of them are
of this kind.

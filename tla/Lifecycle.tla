----------------------------- MODULE Lifecycle ------------------------------
(***************************************************************************)
(* Starting and stopping SPRITS: main (src/SPRITS.cc) builds a camera,     *)
(* observers of the camera and publishers, runs until it is interrupted    *)
(* and takes everything down again, while frames are delivered.            *)
(*                                                                         *)
(* A VideoStream reads frames on main, inside update(); an OpenNI camera   *)
(* has a thread per stream that starts in its constructor.  Delivering a   *)
(* colour frame is a chain of calls: the signal of the camera calls the    *)
(* tracker and the debug observer, and the tracker, through the Plane, the *)
(* publishers.  An object is called correctly only while it is whole:      *)
(* observers are subscribed by the constructor of their base class and     *)
(* unsubscribed by its destructor.  A signal calls the slots it had when   *)
(* the call began, except those disconnected since (boost::signals2).      *)
(***************************************************************************)
EXTENDS Integers, SequencesExt

CONSTANTS
  Texts,  \* texts that may follow --websocket
  PortOf  \* the number that boost::lexical_cast makes of a text, for those that are numbers

ASSUME PortAssumption == DOMAIN PortOf \subseteq Texts /\ \A t \in DOMAIN PortOf : PortOf[t] \in Int

VARIABLES
  pc,         \* where main is
  args,       \* the options that main looks at
  error,      \* which exception main caught
  todo,       \* the phases that main has yet to take objects through
  phase,      \* of each observer's life
  observers,  \* slots of signals_[COLOR], in order
  publishers, \* slots of the Plane's signal, in order
  keys,       \* entries of signals_
  access,     \* what each thread does in signals_: "none", "find" or "insert"
  cropping,   \* crop_: the crop window is still open
  streams,    \* OpenNI: the streams that deliver frames
  frame,      \* the colour frame that is being delivered
  port,       \* the port that the WebSocket server listens to, or 0
  stop,       \* main's flag, set by the signal handler
  logger      \* the console logger is registered

mainVars == <<pc, args, error, todo, port>>

objectVars == <<phase, observers, publishers>>

tableVars == <<keys, access>>

vars == <<mainVars, objectVars, tableVars, cropping, streams, frame, stop, logger>>

Cameras == {"OpenNI", "VideoStream"}

CameraObservers == {"debug", "tracker"}

Publishers == {"tuio", "websocket"}

Objects == CameraObservers \cup Publishers

Threads == {"main", "color", "depth"}

Phases == {"none", "base", "body", "live", "closing", "stripped", "gone"}

\* The port argument is a sequence of at most one text: absent without --websocket.
Arguments ==
  [camera : Cameras, crop : BOOLEAN, tuio : BOOLEAN, websocket : {<<>>} \cup {<<t>> : t \in Texts}]

NoFrame == [at |-> "idle", slots |-> <<>>, inner |-> <<>>, in |-> {}]

\* Before anything is built.
NothingBuilt ==
  /\ error = "none"
  /\ todo = <<>>
  /\ phase = [o \in Objects |-> "none"]
  /\ observers = <<>> /\ publishers = <<>>
  /\ keys = {} /\ access = [t \in Threads |-> "none"]
  /\ cropping = args.crop
  /\ streams = {}
  /\ frame = NoFrame
  /\ port = 0
  /\ stop = FALSE
  /\ logger = TRUE

Init == pc = "camera" /\ args \in Arguments /\ NothingBuilt

-----------------------------------------------------------------------------
(***************************************************************************)
(* What the language leaves undefined, after which nothing is modelled     *)
(***************************************************************************)
\* A virtual call reaches the derived class from the body of its constructor
\* to the end of its destructor.  In the bodies only the WebSocketPublisher,
\* whose members are all initialised before, works already or still.
Whole(o) == \/ phase[o] = "live"
            \/ phase[o] \in {"body", "closing"} /\ o = "websocket"

\* A call that is being executed meets an object that is not whole.
WildCall == \E o \in frame.in : ~Whole(o)

\* A publisher looks up the logger that main has dropped.
NullLogger == ~logger /\ frame.in \cap Publishers # {}

\* One thread inserts into signals_ while another one searches it.
Race == \E t, u \in Threads : t # u /\ access[t] = "insert" /\ access[u] # "none"

Defined == ~WildCall /\ ~NullLogger /\ ~Race

\* std::map::operator[]: a thread enters and leaves it.
EnterTable(t, key) == access' = [access EXCEPT ![t] = IF key \in keys THEN "find" ELSE "insert"]

LeaveTable(t, key) == access' = [access EXCEPT ![t] = "none"] /\ keys' = keys \cup {key}

-----------------------------------------------------------------------------
(***************************************************************************)
(* main: construction                                                      *)
(***************************************************************************)
Constructed(o) == << <<o, "base">>, <<o, "body">>, <<o, "live">> >>

Deleted(o) == << <<o, "closing">>, <<o, "stripped">>, <<o, "gone">> >>

Construction ==
  Constructed("debug") \o Constructed("tracker")
    \o (IF args.tuio THEN Constructed("tuio") ELSE <<>>) \o Constructed("websocket")

\* Mutation: the decorator does not delete what it decorates.
DestructionOfTrackerOnly ==
  (IF args.tuio THEN Deleted("tuio") ELSE <<>>) \o Deleted("websocket") \o Deleted("tracker")

\* The tracker's destructor deletes the observer that it decorates before it unsubscribes.
DeletedDecorator ==
  << <<"tracker", "closing">>, <<"tracker", "stripped">> >> \o Deleted("debug")
    \o << <<"tracker", "gone">> >>

Destruction ==
  (IF args.tuio THEN Deleted("tuio") ELSE <<>>) \o Deleted("websocket") \o DeletedDecorator

\* Bound: no step follows one whose behaviour is undefined.
At(place) == Defined /\ pc = place

CameraFails ==
  /\ At("camera")
  /\ pc' = "catch" /\ error' = "camera"
  /\ UNCHANGED <<args, todo, port, objectVars, tableVars, cropping, streams, frame, stop, logger>>

OpenVideoStream ==
  /\ At("camera") /\ args.camera = "VideoStream"
  /\ pc' = "build" /\ todo' = Construction
  /\ UNCHANGED <<args, error, port, objectVars, tableVars, cropping, streams, frame, stop, logger>>

\* colorStream.start() and depthStream.start() of OpenNI's constructor.
StartColor ==
  /\ At("camera") /\ args.camera = "OpenNI"
  /\ pc' = "depth" /\ streams' = {"color"}
  /\ UNCHANGED <<args, error, todo, port, objectVars, tableVars, cropping, frame, stop, logger>>

StartDepth ==
  /\ At("depth")
  /\ pc' = "build" /\ todo' = Construction /\ streams' = streams \cup {"depth"}
  /\ UNCHANGED <<args, error, port, objectVars, tableVars, cropping, frame, stop, logger>>

NextIs(o, ph) == todo # <<>> /\ Head(todo) = <<o, ph>>

\* The change that every phase has in common.
Enter(o, ph) == phase' = [phase EXCEPT ![o] = ph] /\ todo' = Tail(todo)

\* Camera::subscribe looks up the signal of the event ...
BeginSubscribe(o) ==
  /\ At("build") /\ NextIs(o, "base") /\ access["main"] = "none"
  /\ EnterTable("main", "COLOR")
  /\ UNCHANGED <<mainVars, objectVars, keys, cropping, streams, frame, stop, logger>>

\* ... and connects: the decorator in front of what it decorates.
Subscribe(o) ==
  /\ At("build") /\ NextIs(o, "base") /\ access["main"] # "none"
  /\ LeaveTable("main", "COLOR")
  /\ observers' = <<o>> \o observers
  /\ Enter(o, "base")
  /\ UNCHANGED <<pc, args, error, port, publishers, cropping, streams, frame, stop, logger>>

\* The base constructor of a publisher; main has converted the port before.
SubscribePublisher(o) ==
  /\ At("build") /\ NextIs(o, "base")
  /\ o = "websocket" => args.websocket # <<>> /\ args.websocket[1] \in DOMAIN PortOf
  /\ publishers' = Append(publishers, o)
  /\ Enter(o, "base")
  /\ UNCHANGED <<pc, args, error, port, observers, tableVars, cropping, streams, frame, stop,
                 logger>>

\* asString() of a value that is empty, or lexical_cast of a text that is no number.
PortIsNoNumber ==
  /\ At("build") /\ NextIs("websocket", "base")
  /\ args.websocket = <<>> \/ (args.websocket # <<>> /\ args.websocket[1] \notin DOMAIN PortOf)
  /\ pc' = "catch" /\ error' = "port" /\ todo' = <<>>
  /\ UNCHANGED <<args, port, objectVars, tableVars, cropping, streams, frame, stop, logger>>

RunBody(o) ==
  /\ At("build") /\ NextIs(o, "body")
  /\ Enter(o, "body")
  /\ UNCHANGED <<pc, args, error, port, observers, publishers, tableVars, cropping, streams, frame,
                 stop, logger>>

\* The values that 16 bits have.
UInt16 == 256 * 256

\* Mutation: the port keeps its width.
CompleteWide(o) ==
  /\ At("build") /\ NextIs(o, "live")
  /\ port' = IF o = "websocket" THEN PortOf[args.websocket[1]] ELSE port
  /\ Enter(o, "live")
  /\ UNCHANGED <<pc, args, error, observers, publishers, tableVars, cropping, streams, frame, stop,
                 logger>>

\* The body of the constructor is done.  listen() takes the port as a uint16_t.
Complete(o) ==
  /\ At("build") /\ NextIs(o, "live")
  /\ port' = IF o = "websocket" THEN PortOf[args.websocket[1]] % UInt16 ELSE port
  /\ Enter(o, "live")
  /\ UNCHANGED <<pc, args, error, observers, publishers, tableVars, cropping, streams, frame, stop,
                 logger>>

\* listen() throws, and the members and the base of the publisher are destroyed.
ListenFails ==
  /\ At("build") /\ NextIs("websocket", "live")
  /\ pc' = "unwind" /\ error' = "listen"
  /\ todo' = << <<"websocket", "stripped">>, <<"websocket", "gone">> >>
  /\ UNCHANGED <<args, port, objectVars, tableVars, cropping, streams, frame, stop, logger>>

EnterLoop ==
  /\ At("build") /\ todo = <<>>
  /\ pc' = "loop"
  /\ UNCHANGED <<args, error, todo, port, objectVars, tableVars, cropping, streams, frame, stop,
                 logger>>

-----------------------------------------------------------------------------
(***************************************************************************)
(* main: the loop                                                          *)
(***************************************************************************)
\* The handler is installed before the camera is built.
Interrupt ==
  /\ Defined /\ ~stop
  /\ pc \notin {"parse", "usage", "exited", "aborted"}
  /\ stop' = TRUE
  /\ UNCHANGED <<mainVars, objectVars, tableVars, cropping, streams, frame, logger>>

\* Mutation: the flag is looked at only when the crop window has been closed.
LeaveLoopAfterCrop ==
  /\ At("loop") /\ stop /\ ~cropping
  /\ pc' = "delete" /\ todo' = Destruction
  /\ UNCHANGED <<args, error, port, objectVars, tableVars, cropping, streams, frame, stop, logger>>

LeaveLoop ==
  /\ At("loop") /\ stop
  /\ pc' = "delete" /\ todo' = Destruction
  /\ UNCHANGED <<args, error, port, objectVars, tableVars, cropping, streams, frame, stop, logger>>

\* update(): a VideoStream delivers a frame first, if it gets one.
Update(deliver) ==
  /\ At("loop") /\ ~stop
  /\ deliver => args.camera = "VideoStream" /\ ~cropping
  /\ pc' = "update"
  /\ IF deliver THEN EnterTable("color", "COLOR") /\ frame' = [frame EXCEPT !.at = "table"]
                ELSE UNCHANGED <<access, frame>>
  /\ UNCHANGED <<args, error, todo, port, objectVars, keys, cropping, streams, stop, logger>>

\* A region that is not inside the image, or an empty frame that is shown: what
\* OpenCV throws ends the program by main's handler.
UpdateThrows ==
  /\ (At("loop") /\ ~stop) \/ At("update")
  /\ args.camera = "VideoStream" /\ frame = NoFrame
  /\ pc' = "catch" /\ error' = "frame"
  /\ UNCHANGED <<args, todo, port, objectVars, tableVars, cropping, streams, frame, stop, logger>>

\* Camera::update, in which ENTER closes the crop window.
ShowWindow ==
  /\ At("update") /\ (args.camera = "VideoStream" => frame = NoFrame)
  /\ pc' = "loop" /\ cropping' \in {cropping, FALSE}
  /\ UNCHANGED <<args, error, todo, port, objectVars, tableVars, streams, frame, stop, logger>>

-----------------------------------------------------------------------------
(***************************************************************************)
(* main: destruction                                                       *)
(***************************************************************************)
\* A phase of a destructor; the base class unsubscribes in the last one.
Destroy(o, ph) ==
  /\ At("delete") \/ At("unwind")
  /\ NextIs(o, ph)
  /\ Enter(o, ph)
  /\ observers' = IF ph = "gone" THEN RemoveFirst(observers, o) ELSE observers
  /\ publishers' = IF ph = "gone" THEN RemoveFirst(publishers, o) ELSE publishers
  /\ UNCHANGED <<pc, args, error, port, tableVars, cropping, streams, frame, stop, logger>>

Unwound ==
  /\ At("unwind") /\ todo = <<>>
  /\ pc' = "catch"
  /\ UNCHANGED <<args, error, todo, port, objectVars, tableVars, cropping, streams, frame, stop,
                 logger>>

\* OpenNI's destructor removes the listener of colour frames ...
RemoveColorListener ==
  /\ At("delete") /\ todo = <<>>
  /\ pc' = "close" /\ streams' = streams \ {"color"}
  /\ UNCHANGED <<args, error, todo, port, objectVars, tableVars, cropping, frame, stop, logger>>

\* ... stops the stream, which waits for its callback, and does the same for depth frames ...
RemoveDepthListener ==
  /\ At("close") /\ frame = NoFrame
  /\ pc' = "closed" /\ streams' = {}
  /\ UNCHANGED <<args, error, todo, port, objectVars, tableVars, cropping, frame, stop, logger>>

\* ... and Camera's destructor disconnects all.
CloseCamera ==
  /\ At("closed") /\ access["depth"] = "none"
  /\ pc' = "drop" /\ observers' = <<>>
  /\ UNCHANGED <<args, error, todo, port, phase, publishers, tableVars, cropping, streams, frame,
                 stop, logger>>

\* After an exception nothing is deleted.
DropLoggers ==
  /\ At("drop") \/ At("catch")
  /\ pc' = "exit" /\ logger' = FALSE
  /\ UNCHANGED <<args, error, todo, port, objectVars, tableVars, cropping, streams, frame, stop>>

Exit ==
  /\ At("exit")
  /\ pc' = "exited"
  /\ UNCHANGED <<args, error, todo, port, objectVars, tableVars, cropping, streams, frame, stop,
                 logger>>

-----------------------------------------------------------------------------
(***************************************************************************)
(* Delivering frames: on main for a VideoStream, on threads for OpenNI     *)
(***************************************************************************)
Running == Defined /\ pc \notin {"exited", "aborted"}

\* Mutation: the crop window holds frames back only until someone has subscribed.
ColorFrameOnceSubscribed ==
  /\ Running /\ "color" \in streams /\ frame = NoFrame /\ (~cropping \/ "COLOR" \in keys)
  /\ EnterTable("color", "COLOR") /\ frame' = [frame EXCEPT !.at = "table"]
  /\ UNCHANGED <<mainVars, objectVars, keys, cropping, streams, stop, logger>>

\* Camera::notify on the threads of OpenNI
ColorFrame ==
  /\ Running /\ "color" \in streams /\ frame = NoFrame /\ ~cropping
  /\ EnterTable("color", "COLOR") /\ frame' = [frame EXCEPT !.at = "table"]
  /\ UNCHANGED <<mainVars, objectVars, keys, cropping, streams, stop, logger>>

\* Mutation: depth frames do not wait for the crop either.
BeginDepthFrameAlways ==
  /\ Running /\ "depth" \in streams /\ access["depth"] = "none"
  /\ EnterTable("depth", "DEPTH")
  /\ UNCHANGED <<mainVars, objectVars, keys, cropping, streams, frame, stop, logger>>

BeginDepthFrame ==
  /\ Running /\ "depth" \in streams /\ access["depth"] = "none" /\ ~cropping
  /\ EnterTable("depth", "DEPTH")
  /\ UNCHANGED <<mainVars, objectVars, keys, cropping, streams, frame, stop, logger>>

\* Nobody subscribes to depth frames.
EndDepthFrame ==
  /\ Running /\ access["depth"] # "none"
  /\ LeaveTable("depth", "DEPTH")
  /\ UNCHANGED <<mainVars, objectVars, cropping, streams, frame, stop, logger>>

BeginCalls ==
  /\ Running /\ frame.at = "table"
  /\ LeaveTable("color", "COLOR")
  /\ frame' = [frame EXCEPT !.at = "calls", !.slots = observers]
  /\ UNCHANGED <<mainVars, objectVars, cropping, streams, stop, logger>>

\* What the two levels of calls leave alone.
Calls == UNCHANGED <<mainVars, objectVars, tableVars, cropping, streams, stop, logger>>

CallObserver ==
  /\ Running /\ frame.at = "calls" /\ frame.in = {} /\ frame.slots # <<>>
  /\ frame' = [frame EXCEPT !.slots = Tail(@), !.in = {Head(frame.slots)} \cap ToSet(observers)]
  /\ Calls

\* The tracker has found a tag or lost one, any number of times for a frame.
NotifySpace ==
  /\ Running /\ frame.in = {"tracker"} /\ frame.inner = <<>> /\ publishers # <<>>
  /\ frame' = [frame EXCEPT !.inner = publishers]
  /\ Calls

CallPublisher ==
  /\ Running /\ frame.in = {"tracker"} /\ frame.inner # <<>>
  /\ frame' = [frame EXCEPT !.inner = Tail(@),
                            !.in = {"tracker"} \cup ({Head(frame.inner)} \cap ToSet(publishers))]
  /\ Calls

PublisherReturns ==
  /\ Running /\ frame.in \cap Publishers # {}
  /\ frame' = [frame EXCEPT !.in = {"tracker"}]
  /\ Calls

ObserverReturns ==
  /\ Running /\ frame.in \cap CameraObservers = frame.in /\ frame.in # {} /\ frame.inner = <<>>
  /\ frame' = [frame EXCEPT !.in = {}]
  /\ Calls

EndFrame ==
  /\ Running /\ frame.at = "calls" /\ frame.in = {} /\ frame.slots = <<>>
  /\ frame' = NoFrame
  /\ Calls

\* A send throws: on main the program ends by its handler, on a thread at once.
PublisherThrows ==
  /\ Running /\ "websocket" \in frame.in
  /\ frame' = NoFrame
  /\ IF args.camera = "VideoStream" THEN pc' = "catch" /\ error' = "fire"
                                    ELSE pc' = "aborted" /\ UNCHANGED error
  /\ UNCHANGED <<args, todo, port, objectVars, tableVars, cropping, streams, stop, logger>>

-----------------------------------------------------------------------------
Build ==
  \/ CameraFails \/ OpenVideoStream \/ StartColor \/ StartDepth
  \/ \E o \in CameraObservers : BeginSubscribe(o) \/ Subscribe(o)
  \/ \E o \in Publishers : SubscribePublisher(o)
  \/ \E o \in Objects : RunBody(o) \/ Complete(o)
  \/ PortIsNoNumber
  \/ ListenFails
  \/ EnterLoop

Loop == LeaveLoop \/ (\E deliver \in BOOLEAN : Update(deliver)) \/ UpdateThrows \/ ShowWindow

TakeDown ==
  \/ \E o \in Objects, ph \in Phases : Destroy(o, ph)
  \/ Unwound \/ RemoveColorListener \/ RemoveDepthListener \/ CloseCamera \/ DropLoggers \/ Exit

Main == Build \/ Loop \/ TakeDown

NewFrame == ColorFrame \/ BeginDepthFrame

Delivery ==
  \/ BeginCalls \/ CallObserver \/ CallPublisher
  \/ PublisherReturns \/ ObserverReturns \/ EndFrame \/ PublisherThrows

Next == Main \/ Interrupt \/ NewFrame \/ NotifySpace \/ Delivery \/ EndDepthFrame

Spec == Init /\ [][Next]_vars

\* The send() to a TUIO client has no time limit, and a client that does not read
\* may block it for ever: in a delivery, or on main when the publisher's
\* destructor says that there are no tags any more.
DeliverySends == "tuio" \in frame.in

MainSends == phase["tuio"] = "closing"

\* Each thread goes on, except in a send: main, and a delivery that has begun.  An
\* observer that can return does, since chilitags finds finitely many tags in a
\* frame; a WebSocketPublisher only queues.  Frames need not come.
Fairness ==
  /\ WF_vars(Main /\ ~MainSends) /\ WF_vars(Delivery /\ ~DeliverySends)
  /\ WF_vars(EndDepthFrame) /\ SF_vars(ObserverReturns)

FairSpec == Spec /\ Fairness

-----------------------------------------------------------------------------
(***************************************************************************)
(* Properties                                                              *)
(***************************************************************************)
TypeOK ==
  /\ pc \in {"parse", "usage", "camera", "depth", "build", "loop", "update", "delete", "unwind",
             "close", "closed", "catch", "drop", "exit", "exited", "aborted"}
  /\ args \in Arguments
  /\ error \in {"none", "camera", "port", "listen", "fire", "frame"}
  /\ todo \in Seq(Objects \X Phases)
  /\ phase \in [Objects -> Phases]
  /\ observers \in Seq(CameraObservers) /\ publishers \in Seq(Publishers)
  /\ keys \subseteq {"COLOR", "DEPTH"}
  /\ access \in [Threads -> {"none", "find", "insert"}]
  /\ cropping \in BOOLEAN /\ stop \in BOOLEAN /\ logger \in BOOLEAN
  /\ streams \subseteq {"color", "depth"}
  /\ frame \in [at : {"idle", "table", "calls"}, slots : Seq(CameraObservers),
                inner : Seq(Publishers), in : SUBSET Objects]
  /\ port \in 0 .. UInt16 - 1

\* A frame never meets an object under construction or destruction if the
\* camera is a VideoStream, which delivers on main, while the crop window is
\* open, since notify() holds frames back, or, whatever the camera, while main loops.
CallsMeetWholeObjects ==
  args.camera = "VideoStream" \/ cropping \/ pc \in {"loop", "update"} => ~WildCall

\* The table of signals, which no lock protects, is used by one thread at a
\* time as long as frames come on main or the crop window is open.
TableIsSafe == args.camera = "VideoStream" \/ cropping => ~Race

\* Once the camera is closed nothing runs and nothing is subscribed any more,
\* so that neither a slot nor the logger can be used when main drops the loggers.
NothingRunsAfterClose ==
  error = "none" /\ pc \in {"drop", "exit", "exited"} =>
    /\ frame = NoFrame /\ streams = {} /\ \A t \in Threads : access[t] = "none"
    /\ observers = <<>> /\ publishers = <<>>
    /\ \A o \in Objects : phase[o] \in {"none", "gone"}

\* An interrupt ends the program, wherever main is when it comes, unless a
\* send to a TUIO client blocks for ever or a step whose behaviour is undefined
\* comes first.
StopEnds ==
  []<>(~DeliverySends /\ ~MainSends) => (stop ~> pc \in {"exited", "aborted"} \/ ~Defined)

=============================================================================

------------------------- MODULE ScreenStreamProofs -------------------------
(***************************************************************************)
(* Proofs about ScreenStream, for any modes of the screen, any views and   *)
(* any bounds.                                                             *)
(*                                                                         *)
(* Two facts are carried from the capture to the view.  A frame travels    *)
(* right behind its metadata, or is the next packet and its metadata is    *)
(* pending, so that what the display is called with belongs together.  And *)
(* the numbers never decrease along the way: whatever is nearer to the     *)
(* view is no newer.                                                       *)
(***************************************************************************)
EXTENDS ScreenStream, TLAPS

\* Each frame in flight has its metadata in front of it.
Paired ==
    \A i \in DOMAIN queue :
        queue[i].kind = "frame" =>
            IF i = 1 THEN pending = queue[i].frame
            ELSE queue[i - 1].kind = "metadata" /\ queue[i - 1].frame = queue[i].frame

\* What waits for the main thread belongs together.
Together == /\ \A i \in DOMAIN calls : calls[i].metadata = calls[i].pixels
            /\ \A i \in DOMAIN posted : posted[i].metadata = posted[i].pixels

\* n is no newer than what is in flight; than the calls; than the bitmaps.
BeforeQueue(n) == n <= captured /\ \A i \in DOMAIN queue : n <= queue[i].frame.id
BeforeCalls(n) == BeforeQueue(n) /\ \A i \in DOMAIN calls : n <= calls[i].pixels.id
BeforePosted(n) == BeforeCalls(n) /\ \A i \in DOMAIN posted : n <= posted[i].pixels.id

QueueSorted == /\ \A i \in DOMAIN queue : queue[i].frame.id <= captured
               /\ \A i, j \in DOMAIN queue : i <= j => queue[i].frame.id <= queue[j].frame.id
CallsSorted == /\ \A i \in DOMAIN calls : BeforeQueue(calls[i].pixels.id)
               /\ \A i, j \in DOMAIN calls : i <= j => calls[i].pixels.id <= calls[j].pixels.id
PostedSorted == /\ \A i \in DOMAIN posted : BeforeCalls(posted[i].pixels.id)
                /\ \A i, j \in DOMAIN posted : i <= j => posted[i].pixels.id <= posted[j].pixels.id
ShownSorted == \A v \in Views : BeforePosted(shown[v].pixels.id)

\* The frame the worker has is the next one, or the last one captured.
WorkerInv == /\ worker \in {"stage", "map"} => frame.id = NextFrame
             /\ worker \in {"encode", "send"} => frame.id = captured

Sorted == QueueSorted /\ CallsSorted /\ PostedSorted /\ ShownSorted
IInv == TypeOK /\ Paired /\ Together /\ Sorted /\ WorkerInv

-----------------------------------------------------------------------------
(* Types.                                                                  *)

Packets == [kind : {"metadata", "frame"}, frame : Frames]

\* What the sequences are made of.
LEMMA FrameFacts ==
    /\ \A f \in Frames : f.id \in 0..MaxFrames /\ f.id \in Nat
    /\ NoMetadata \in Frames
    /\ \A p \in Packets : p.frame \in Frames /\ p.kind \in {"metadata", "frame"}
    /\ \A b \in Bitmaps : b.pixels \in Frames /\ b.metadata \in Frames
  <1>1. \A f \in Frames : f.id \in 0..MaxFrames /\ f.id \in Nat
    BY BoundAssumption DEF Frames
  <1>2. NoMetadata \in Frames
    <2>1. 0 \in 0..MaxFrames
      BY BoundAssumption
    <2>2. QED
      BY <2>1 DEF NoMetadata, Frames
  <1>3. \A p \in Packets : p.frame \in Frames /\ p.kind \in {"metadata", "frame"}
    BY DEF Packets
  <1>4. \A b \in Bitmaps : b.pixels \in Frames /\ b.metadata \in Frames
    BY DEF Bitmaps
  <1>5. QED
    BY <1>1, <1>2, <1>3, <1>4

\* The numbers of frames go up by one, to the bound.
LEMMA NextFrameFacts ==
    ASSUME TypeOK
    PROVE  NextFrame \in 0..MaxFrames /\ captured <= NextFrame /\ captured \in Nat
  BY BoundAssumption DEF TypeOK, NextFrame

\* A frame captured has the geometry of the screen's mode.
LEMMA CaptureType == ASSUME TypeOK PROVE CaptureFrame \in Frames /\ CaptureFrame.id = NextFrame
  <1>1. mode.width \in Nat /\ mode.height \in Nat /\ mode.stride \in Nat
    BY ModeAssumption DEF TypeOK
  <1>2. NextFrame \in 0..MaxFrames
    BY NextFrameFacts
  <1>3. QED
    BY <1>1, <1>2 DEF CaptureFrame, Frames

\* The queue's types, and its elements.
LEMMA QueueFacts ==
    ASSUME TypeOK
    PROVE  /\ queue \in Seq(Packets) /\ calls \in Seq(Bitmaps) /\ posted \in Seq(Bitmaps)
           /\ \A i \in DOMAIN queue : queue[i].frame \in Frames /\ queue[i].frame.id \in Nat
           /\ \A i \in DOMAIN calls : calls[i].pixels \in Frames /\ calls[i].pixels.id \in Nat
           /\ \A i \in DOMAIN posted : posted[i].pixels \in Frames /\ posted[i].pixels.id \in Nat
           /\ \A v \in Views : shown[v].pixels \in Frames /\ shown[v].pixels.id \in Nat
  <1>1. queue \in Seq(Packets) /\ calls \in Seq(Bitmaps) /\ posted \in Seq(Bitmaps) /\ shown \in [Views -> Bitmaps]
    BY DEF TypeOK, Packets
  <1>2. /\ \A i \in DOMAIN queue : queue[i] \in Packets
        /\ \A i \in DOMAIN calls : calls[i] \in Bitmaps
        /\ \A i \in DOMAIN posted : posted[i] \in Bitmaps
        /\ \A v \in Views : shown[v] \in Bitmaps
    BY <1>1
  <1>3. QED
    BY <1>1, <1>2, FrameFacts

\* A sequence without its first element.
LEMMA TailFacts ==
    ASSUME NEW S, NEW q \in Seq(S), q # << >>
    PROVE  /\ Head(q) \in S /\ Head(q) = q[1] /\ 1 \in DOMAIN q
           /\ Tail(q) \in Seq(S) /\ Len(Tail(q)) = Len(q) - 1 /\ Len(q) \in Nat
           /\ \A i \in DOMAIN Tail(q) : i \in Nat \ {0} /\ i + 1 \in DOMAIN q /\ Tail(q)[i] = q[i + 1]
  OBVIOUS

\* A sequence with one more element.
LEMMA AppendFacts ==
    ASSUME NEW S, NEW q \in Seq(S), NEW e \in S
    PROVE  /\ Append(q, e) \in Seq(S) /\ Len(Append(q, e)) = Len(q) + 1 /\ Len(q) \in Nat
           /\ \A i \in DOMAIN Append(q, e) : \/ i \in DOMAIN q /\ Append(q, e)[i] = q[i] /\ i <= Len(q)
                                             \/ i = Len(q) + 1 /\ Append(q, e)[i] = e
  OBVIOUS

\* A sequence with two more elements.
LEMMA AppendTwoFacts ==
    ASSUME NEW S, NEW q \in Seq(S), NEW a \in S, NEW b \in S
    PROVE  /\ q \o << a, b >> \in Seq(S) /\ Len(q \o << a, b >>) = Len(q) + 2 /\ Len(q) \in Nat
           /\ \A i \in DOMAIN (q \o << a, b >>) :
                \/ i \in DOMAIN q /\ (q \o << a, b >>)[i] = q[i] /\ i <= Len(q)
                \/ i = Len(q) + 1 /\ (q \o << a, b >>)[i] = a
                \/ i = Len(q) + 2 /\ (q \o << a, b >>)[i] = b
  OBVIOUS

\* The packets and the calls that the steps make.
LEMMA RecordFacts ==
    ASSUME NEW f \in Frames, NEW g \in Frames
    PROVE  /\ [kind |-> "metadata", frame |-> f] \in Packets /\ [kind |-> "frame", frame |-> f] \in Packets
           /\ [pixels |-> f, metadata |-> g] \in Bitmaps
  BY DEF Packets, Bitmaps

\* The types of the frame loop's state.
HostType == /\ mode \in Modes /\ duplication \in {"none", "valid", "lost"} /\ acquired \in BOOLEAN
            /\ worker \in {"off", "capture", "stage", "map", "encode", "send", "read", "gone"}
            /\ frame \in Frames /\ captured \in 0..MaxFrames /\ inbox \in 0..MaxInbox

\* The types of what is in flight.
FlightType == /\ queue \in Seq(Packets) /\ Len(queue) <= MaxQueue
              /\ pending \in Frames /\ calls \in Seq(Bitmaps) /\ posted \in Seq(Bitmaps)

\* The types of the views.
ViewType == /\ attached \in living \cup {NoView} /\ living \subseteq made /\ made \subseteq Views
            /\ shown \in [Views -> Bitmaps]

LEMMA Types == TypeOK <=> HostType /\ FlightType /\ ViewType
  BY DEF TypeOK, HostType, FlightType, ViewType, Packets

\* The steps of the host keep its types.
LEMMA HostTypeStep == ASSUME TypeOK, [Next]_vars PROVE HostType'
  <1>0. HostType
    BY Types
  <1>1. ASSUME ScreenChanges PROVE HostType'
    BY <1>0, <1>1 DEF HostType, ScreenChanges
  <1>2. ASSUME StartHost PROVE HostType'
    BY <1>0, <1>2 DEF HostType, StartHost
  <1>3. ASSUME EndSession PROVE HostType'
    <2>1. 0 \in 0..MaxInbox
      BY BoundAssumption
    <2>2. QED
      BY <1>0, <1>3, <2>1 DEF HostType, EndSession
  <1>4. ASSUME Acquire PROVE HostType'
    BY <1>0, <1>4, CaptureType DEF HostType, Acquire
  <1>5. ASSUME Stage PROVE HostType'
    BY <1>0, <1>5 DEF HostType, Stage, LeaveCapture
  <1>6. ASSUME MapAndCopy PROVE HostType'
    BY <1>0, <1>6, NextFrameFacts DEF HostType, MapAndCopy, LeaveCapture
  <1>7. ASSUME Encode PROVE HostType'
    BY <1>0, <1>7 DEF HostType, Encode
  <1>8. ASSUME SendFrame PROVE HostType'
    BY <1>0, <1>8 DEF HostType, SendFrame
  <1>9. ASSUME Read PROVE HostType'
    BY <1>0, <1>9, BoundAssumption DEF HostType, Read
  <1>10. ASSUME ClientSends PROVE HostType'
    BY <1>0, <1>10, BoundAssumption DEF HostType, ClientSends
  <1>11. ASSUME UNCHANGED hostVars PROVE HostType'
    BY <1>0, <1>11 DEF HostType, hostVars
  <1>12. QED
    BY <1>1, <1>2, <1>3, <1>4, <1>5, <1>6, <1>7, <1>8, <1>9, <1>10, <1>11
       DEF Next, Host, Client, vars, HandleMetadata, HandleFrame, RenderFrame, Draw, CreateView, DisposeView, hostVars

\* The steps keep the types of what is in flight.
LEMMA FlightTypeStep == ASSUME TypeOK, [Next]_vars PROVE FlightType'
  <1>0. FlightType /\ frame \in Frames /\ NoMetadata \in Frames
    BY Types, FrameFacts DEF HostType
  <1>1. ASSUME UNCHANGED << queue, pending, calls, posted >> PROVE FlightType'
    BY <1>0, <1>1 DEF FlightType
  <1>2. ASSUME EndSession PROVE FlightType'
    BY <1>0, <1>2, BoundAssumption DEF FlightType, EndSession, viewVars
  <1>3. ASSUME SendFrame PROVE FlightType'
    <2>1. /\ [kind |-> "metadata", frame |-> frame] \in Packets
          /\ [kind |-> "frame", frame |-> frame] \in Packets
      BY <1>0, RecordFacts
    <2>2. queue' \in Seq(Packets) /\ Len(queue') = Len(queue) + 2
      BY <1>0, <1>3, <2>1, AppendTwoFacts DEF FlightType, SendFrame
    <2>3. UNCHANGED << pending, calls, posted >> /\ Len(queue) + 2 <= MaxQueue
      BY <1>3 DEF SendFrame, clientVars, viewVars
    <2>4. QED
      BY <1>0, <2>2, <2>3 DEF FlightType
  <1>4. ASSUME HandleMetadata PROVE FlightType'
    <2>1. Head(queue) \in Packets /\ Tail(queue) \in Seq(Packets) /\ Len(Tail(queue)) = Len(queue) - 1 /\ Len(queue) \in Nat
      BY <1>0, <1>4, TailFacts DEF FlightType, HandleMetadata
    <2>2. Len(Tail(queue)) <= MaxQueue
      BY <2>1, <1>0, BoundAssumption DEF FlightType
    <2>3. Head(queue).frame \in Frames
      BY <2>1, FrameFacts
    <2>4. QED
      BY <1>0, <1>4, <2>1, <2>2, <2>3 DEF FlightType, HandleMetadata, viewVars
  <1>5. ASSUME HandleFrame PROVE FlightType'
    <2>1. Head(queue) \in Packets /\ Tail(queue) \in Seq(Packets) /\ Len(Tail(queue)) = Len(queue) - 1 /\ Len(queue) \in Nat
      BY <1>0, <1>5, TailFacts DEF FlightType, HandleFrame
    <2>2. Len(Tail(queue)) <= MaxQueue
      BY <2>1, <1>0, BoundAssumption DEF FlightType
    <2>3. [pixels |-> Head(queue).frame, metadata |-> pending] \in Bitmaps
      BY <2>1, <1>0, FrameFacts, RecordFacts DEF FlightType
    <2>4. calls' \in Seq(Bitmaps)
      BY <1>0, <1>5, <2>3, AppendFacts DEF FlightType, HandleFrame
    <2>5. QED
      BY <1>0, <1>5, <2>1, <2>2, <2>4 DEF FlightType, HandleFrame, viewVars
  <1>6. ASSUME RenderFrame PROVE FlightType'
    <2>1. Head(calls) \in Bitmaps /\ Tail(calls) \in Seq(Bitmaps)
      BY <1>0, <1>6, TailFacts DEF FlightType, RenderFrame
    <2>2. posted' \in {posted, Append(posted, Head(calls))} /\ calls' = Tail(calls) /\ UNCHANGED << queue, pending >>
      BY <1>6 DEF RenderFrame
    <2>3. posted \in Seq(Bitmaps) /\ Append(posted, Head(calls)) \in Seq(Bitmaps)
      BY <1>0, <2>1, AppendFacts DEF FlightType
    <2>4. posted' \in Seq(Bitmaps)
      BY <2>2, <2>3
    <2>5. QED
      BY <1>0, <2>1, <2>2, <2>4 DEF FlightType
  <1>7. ASSUME Draw PROVE FlightType'
    <2>1. Tail(posted) \in Seq(Bitmaps)
      BY <1>0, <1>7, TailFacts DEF FlightType, Draw
    <2>2. QED
      BY <1>0, <1>7, <2>1 DEF FlightType, Draw, clientVars
  <1>8. QED
    BY <1>1, <1>2, <1>3, <1>4, <1>5, <1>6, <1>7
       DEF Next, Host, Client, vars, ScreenChanges, StartHost, Acquire, Stage, MapAndCopy, Encode, Read, ClientSends,
           CreateView, DisposeView, clientVars, viewVars

\* The steps keep the types of the views: the controller's is alive.
LEMMA ViewTypeStep == ASSUME TypeOK, [Next]_vars PROVE ViewType'
  <1>0. ViewType /\ posted \in Seq(Bitmaps)
    BY Types DEF FlightType
  <1>1. ASSUME UNCHANGED << attached, living, made, shown >> PROVE ViewType'
    BY <1>0, <1>1 DEF ViewType
  <1>2. ASSUME Draw PROVE ViewType'
    <2>1. Head(posted) \in Bitmaps
      BY <1>0, <1>2, TailFacts DEF Draw
    <2>2. shown' \in [Views -> Bitmaps]
      BY <1>0, <1>2, <2>1 DEF ViewType, Draw
    <2>3. QED
      BY <1>0, <1>2, <2>2 DEF ViewType, Draw
  <1>3. ASSUME NEW v \in Views, CreateView(v) PROVE ViewType'
    BY <1>0, <1>3 DEF ViewType, CreateView
  <1>4. ASSUME NEW v \in Views, DisposeView(v) PROVE ViewType'
    BY <1>0, <1>4 DEF ViewType, DisposeView
  <1>5. QED
    BY <1>1, <1>2, <1>3, <1>4
       DEF Next, Host, Client, vars, ScreenChanges, StartHost, Acquire, Stage, MapAndCopy, Encode, Read, ClientSends,
           EndSession, SendFrame, HandleMetadata, HandleFrame, RenderFrame, clientVars, viewVars

LEMMA TypeStep == ASSUME TypeOK, [Next]_vars PROVE TypeOK'
  BY HostTypeStep, FlightTypeStep, ViewTypeStep, Types, PTL

-----------------------------------------------------------------------------
(* What each step does to the order of the numbers.                        *)

\* n is no newer than the queue, before and after: what no step of the queue ends.
QueueKept == \A n \in Nat : BeforeQueue(n) => BeforeQueue(n)'

\* ... nor than the calls.
CallsKept == \A n \in Nat : BeforeCalls(n) => BeforeCalls(n)'

\* ... nor than the bitmaps.
PostedKept == \A n \in Nat : BeforePosted(n) => BeforePosted(n)'

\* A step that keeps these, and the sequences behind, keeps their order.
LEMMA ShownStep == ASSUME TypeOK, ShownSorted, PostedKept, UNCHANGED shown PROVE ShownSorted'
  <1>1. \A v \in Views : shown[v].pixels.id \in Nat
    BY QueueFacts
  <1>2. QED
    BY <1>1 DEF ShownSorted, PostedKept

LEMMA PostedStep ==
    ASSUME TypeOK, PostedSorted, CallsKept, UNCHANGED posted
    PROVE  PostedSorted' /\ PostedKept
  <1>1. \A i \in DOMAIN posted : posted[i].pixels.id \in Nat
    BY QueueFacts
  <1>2. QED
    BY <1>1 DEF PostedSorted, PostedKept, CallsKept, BeforePosted

LEMMA CallsStep ==
    ASSUME TypeOK, CallsSorted, QueueKept, UNCHANGED calls
    PROVE  CallsSorted' /\ CallsKept
  <1>1. \A i \in DOMAIN calls : calls[i].pixels.id \in Nat
    BY QueueFacts
  <1>2. QED
    BY <1>1 DEF CallsSorted, CallsKept, QueueKept, BeforeCalls

LEMMA BehindQueue ==
    ASSUME TypeOK, Sorted, QueueSorted', QueueKept, UNCHANGED << calls, posted, shown >>
    PROVE  Sorted'
  BY CallsStep, PostedStep, ShownStep DEF Sorted

\* Steps that move nothing on its way.
LEMMA Unmoved ==
    ASSUME Paired, Together, Sorted, UNCHANGED << queue, pending, calls, posted, shown, captured >>
    PROVE  Paired' /\ Together' /\ Sorted'
  <1>1. Paired' /\ Together'
    BY DEF Paired, Together
  <1>2. Sorted'
    BY DEF Sorted, QueueSorted, CallsSorted, PostedSorted, ShownSorted, BeforeQueue, BeforeCalls, BeforePosted
  <1>3. QED
    BY <1>1, <1>2

\* A frame captured is newer than all there is.
LEMMA MapAndCopyStep == ASSUME IInv, MapAndCopy PROVE Paired' /\ Together' /\ Sorted'
  <1>1. TypeOK /\ Paired /\ Together /\ Sorted
    BY DEF IInv
  <1>2. UNCHANGED << queue, pending, calls, posted, shown >> /\ captured' \in {captured, NextFrame}
    BY DEF MapAndCopy, clientVars, viewVars
  <1>3. captured \in Nat /\ captured' \in Nat /\ captured <= captured'
    BY <1>1, <1>2, NextFrameFacts
  <1>4. Paired' /\ Together'
    BY <1>1, <1>2 DEF Paired, Together
  <1>5. \A i \in DOMAIN queue : queue[i].frame.id \in Nat
    BY <1>1, QueueFacts
  <1>6. QueueSorted'
    BY <1>1, <1>2, <1>3, <1>5 DEF Sorted, QueueSorted
  <1>7. QueueKept
    BY <1>2, <1>3 DEF QueueKept, BeforeQueue
  <1>8. QED
    BY <1>1, <1>2, <1>4, <1>6, <1>7, BehindQueue

\* A frame is sent right behind its metadata, and is the newest there is.
LEMMA SendFrameStep == ASSUME IInv, SendFrame PROVE Paired' /\ Together' /\ Sorted'
  <1> DEFINE m == [kind |-> "metadata", frame |-> frame]
             f == [kind |-> "frame", frame |-> frame]
             n == Len(queue)
  <1>1. TypeOK /\ Paired /\ Together /\ Sorted /\ WorkerInv
    BY DEF IInv
  <1>2. UNCHANGED << pending, calls, posted, shown, captured >> /\ queue' = queue \o << m, f >>
    BY DEF SendFrame, clientVars, viewVars
  <1>3. frame.id = captured /\ captured \in Nat
    BY <1>1, NextFrameFacts DEF WorkerInv, SendFrame
  <1>4. queue \in Seq(Packets) /\ m \in Packets /\ f \in Packets
    BY <1>1, QueueFacts, RecordFacts DEF TypeOK
  <1>5. m.kind = "metadata" /\ m.frame = frame /\ f.kind = "frame" /\ f.frame = frame
    OBVIOUS
  <1> HIDE DEF m, f
  <1>6. /\ n \in Nat /\ Len(queue') = n + 2
        /\ \A i \in DOMAIN queue' : \/ i \in DOMAIN queue /\ queue'[i] = queue[i] /\ i <= n
                                    \/ i = n + 1 /\ queue'[i] = m
                                    \/ i = n + 2 /\ queue'[i] = f
    BY <1>2, <1>4, AppendTwoFacts
  <1>7. DOMAIN queue = 1..n /\ DOMAIN queue' = 1..(n + 2)
    BY <1>2, <1>4, <1>6, AppendTwoFacts
  <1>8. \A i \in DOMAIN queue : queue'[i] = queue[i]
    BY <1>6, <1>7
  <1>9. Together'
    BY <1>1, <1>2 DEF Together
  <1>10. Paired'
    <2>1. SUFFICES ASSUME NEW i \in DOMAIN queue', queue'[i].kind = "frame"
                   PROVE  IF i = 1 THEN pending = queue'[i].frame
                          ELSE queue'[i - 1].kind = "metadata" /\ queue'[i - 1].frame = queue'[i].frame
      BY <1>2 DEF Paired
    <2>2. CASE i \in DOMAIN queue
      <3>1. IF i = 1 THEN pending = queue[i].frame
            ELSE queue[i - 1].kind = "metadata" /\ queue[i - 1].frame = queue[i].frame
        BY <1>1, <1>8, <2>1, <2>2 DEF Paired
      <3>2. i # 1 => i - 1 \in DOMAIN queue
        BY <1>6, <1>7, <2>2
      <3>3. QED
        BY <1>8, <2>2, <3>1, <3>2
    <2>3. CASE i = n + 2 /\ queue'[i] = f
      <3>1. i # 1 /\ i - 1 = n + 1 /\ i - 1 \in DOMAIN queue' /\ ~(i - 1 <= n) /\ i - 1 # n + 2
        BY <1>6, <1>7, <2>3
      <3>2. queue'[i - 1] = m
        BY <1>6, <3>1
      <3>3. QED
        BY <1>5, <2>3, <3>1, <3>2
    <2>4. QED
      BY <1>5, <1>6, <2>1, <2>2, <2>3
  <1>11. \A i \in DOMAIN queue : queue[i].frame.id \in Nat
    BY <1>1, QueueFacts
  <1>12. \A i \in DOMAIN queue' : \/ i \in DOMAIN queue /\ queue'[i] = queue[i] /\ i <= n
                                  \/ ~(i <= n) /\ queue'[i].frame.id = captured
    BY <1>3, <1>5, <1>6
  <1>13. QueueSorted'
    <2>1. \A i \in DOMAIN queue' : queue'[i].frame.id <= captured
      BY <1>1, <1>3, <1>12 DEF Sorted, QueueSorted
    <2>2. ASSUME NEW i \in DOMAIN queue', NEW j \in DOMAIN queue', i <= j
          PROVE  queue'[i].frame.id <= queue'[j].frame.id
      <3>1. CASE j <= n
        <4>1. i <= n
          BY <1>6, <1>7, <2>2, <3>1
        <4>2. QED
          BY <1>1, <1>12, <2>2, <3>1, <4>1 DEF Sorted, QueueSorted
      <3>2. CASE ~(j <= n)
        BY <1>12, <2>1, <3>2
      <3>3. QED
        BY <3>1, <3>2
    <2>3. QED
      BY <1>2, <2>1, <2>2 DEF QueueSorted
  <1>14. QueueKept
    BY <1>2, <1>12 DEF QueueKept, BeforeQueue
  <1>15. QED
    BY <1>1, <1>2, <1>9, <1>10, <1>13, <1>14, BehindQueue

\* The session ends: nothing is in flight to the client.
LEMMA EndSessionStep == ASSUME IInv, EndSession PROVE Paired' /\ Together' /\ Sorted'
  <1>1. TypeOK /\ Together /\ Sorted
    BY DEF IInv
  <1>2. queue' = << >> /\ DOMAIN queue' = {} /\ UNCHANGED << calls, posted, shown, captured >>
    BY DEF EndSession, viewVars
  <1>3. Paired' /\ Together'
    BY <1>1, <1>2 DEF Paired, Together
  <1>4. QueueSorted' /\ QueueKept
    BY <1>2 DEF QueueSorted, QueueKept, BeforeQueue
  <1>5. QED
    BY <1>1, <1>2, <1>3, <1>4, BehindQueue

\* A packet leaves the queue from its front.
LEMMA QueueTail ==
    ASSUME TypeOK, QueueSorted, queue # << >>, queue' = Tail(queue), UNCHANGED captured
    PROVE  QueueSorted' /\ QueueKept
  <1> DEFINE t == Tail(queue)
  <1>1. \A i \in DOMAIN t : i \in Nat \ {0} /\ i + 1 \in DOMAIN queue /\ t[i] = queue[i + 1]
    BY QueueFacts, TailFacts
  <1> HIDE DEF t
  <1>2. \A i \in DOMAIN t : t[i].frame.id <= captured
    BY <1>1 DEF QueueSorted
  <1>3. \A i, j \in DOMAIN t : i <= j => t[i].frame.id <= t[j].frame.id
    <2>1. SUFFICES ASSUME NEW i \in DOMAIN t, NEW j \in DOMAIN t, i <= j PROVE t[i].frame.id <= t[j].frame.id
      OBVIOUS
    <2>2. i + 1 <= j + 1
      BY <1>1, <2>1
    <2>3. QED
      BY <1>1, <2>1, <2>2 DEF QueueSorted
  <1>4. queue' = t
    BY DEF t
  <1>5. QED
    BY <1>1, <1>2, <1>3, <1>4 DEF QueueSorted, QueueKept, BeforeQueue

\* The metadata is pending when its frame is next.
LEMMA HandleMetadataStep == ASSUME IInv, HandleMetadata PROVE Paired' /\ Together' /\ Sorted'
  <1>1. TypeOK /\ Paired /\ Together /\ Sorted
    BY DEF IInv
  <1>2. /\ queue # << >> /\ Head(queue).kind = "metadata" /\ pending' = Head(queue).frame /\ queue' = Tail(queue)
        /\ UNCHANGED << calls, posted, shown, captured >>
    BY DEF HandleMetadata, hostVars, viewVars
  <1> DEFINE t == Tail(queue)
  <1>3. /\ Head(queue) = queue[1]
        /\ \A i \in DOMAIN t : i \in Nat \ {0} /\ i + 1 \in DOMAIN queue /\ t[i] = queue[i + 1]
    BY <1>1, <1>2, QueueFacts, TailFacts
  <1>4. queue' = t /\ DOMAIN t = 1..Len(t) /\ Len(t) \in Nat
    BY <1>1, <1>2, QueueFacts, TailFacts
  <1> HIDE DEF t
  <1>5. Paired'
    <2>1. SUFFICES ASSUME NEW i \in DOMAIN t, t[i].kind = "frame"
                   PROVE  IF i = 1 THEN pending' = t[i].frame
                          ELSE t[i - 1].kind = "metadata" /\ t[i - 1].frame = t[i].frame
      BY <1>4 DEF Paired
    <2>2. i \in Nat \ {0} /\ i + 1 \in DOMAIN queue /\ t[i] = queue[i + 1] /\ i + 1 # 1 /\ (i + 1) - 1 = i
      BY <1>3, <2>1
    <2>3. queue[i].kind = "metadata" /\ queue[i].frame = t[i].frame
      BY <1>1, <2>1, <2>2 DEF Paired
    <2>4. CASE i = 1
      BY <1>2, <1>3, <2>3, <2>4
    <2>5. CASE i # 1
      <3>1. i - 1 \in DOMAIN t /\ (i - 1) + 1 = i
        BY <1>4, <2>1, <2>5
      <3>2. t[i - 1] = queue[i]
        BY <1>3, <3>1
      <3>3. QED
        BY <2>3, <2>5, <3>2
    <2>6. QED
      BY <2>4, <2>5
  <1>6. Together'
    BY <1>1, <1>2 DEF Together
  <1>7. QueueSorted' /\ QueueKept
    BY <1>1, <1>2, QueueTail DEF Sorted
  <1>8. QED
    BY <1>1, <1>2, <1>5, <1>6, <1>7, BehindQueue

\* The frame goes to the display with its metadata, ahead of all that is in flight.
LEMMA HandleFrameStep == ASSUME IInv, HandleFrame PROVE Paired' /\ Together' /\ Sorted'
  <1> DEFINE t == Tail(queue)
             h == Head(queue).frame
             c == [pixels |-> h, metadata |-> pending]
  <1>1. TypeOK /\ Paired /\ Together /\ QueueSorted /\ CallsSorted /\ PostedSorted /\ ShownSorted
    BY DEF IInv, Sorted
  <1>2. /\ queue # << >> /\ Head(queue).kind = "frame" /\ queue' = t
        /\ calls' = calls \/ calls' = Append(calls, c)
        /\ UNCHANGED << pending, posted, shown, captured >>
    BY DEF HandleFrame, hostVars, viewVars
  <1>3. /\ Head(queue) \in Packets /\ Head(queue) = queue[1] /\ 1 \in DOMAIN queue
        /\ \A i \in DOMAIN t : i \in Nat \ {0} /\ i + 1 \in DOMAIN queue /\ t[i] = queue[i + 1]
    BY <1>1, <1>2, QueueFacts, TailFacts
  <1>4. h = queue[1].frame /\ h.id \in Nat /\ c.pixels = h /\ c.metadata = pending /\ pending = h
    <2>1. h = queue[1].frame
      BY <1>3
    <2>2. h \in Frames
      BY <1>3, FrameFacts
    <2>3. h.id \in Nat
      BY <2>2, FrameFacts
    <2>4. queue[1].kind = "frame"
      BY <1>2, <1>3
    <2>5. pending = queue[1].frame
      BY <1>1, <1>3, <2>4 DEF Paired
    <2>6. QED
      BY <2>1, <2>3, <2>5
  <1>5. c \in Bitmaps /\ calls \in Seq(Bitmaps)
    <2>1. h \in Frames /\ pending \in Frames
      BY <1>1, <1>3, FrameFacts DEF TypeOK
    <2>2. QED
      BY <1>1, <2>1, RecordFacts, QueueFacts
  <1>6. QueueSorted' /\ QueueKept
    BY <1>1, <1>2, QueueTail
  <1> HIDE DEF t, c, h
  <1>7. \A i \in DOMAIN calls' : \/ i \in DOMAIN calls /\ calls'[i] = calls[i] /\ i <= Len(calls)
                                 \/ i = Len(calls) + 1 /\ calls'[i] = c
    <2>1. CASE calls' = Append(calls, c)
      BY <1>5, <2>1, AppendFacts
    <2>2. CASE calls' = calls
      BY <1>5, <2>2
    <2>3. QED
      BY <1>2, <2>1, <2>2
  <1>8. Paired'
    <2>1. SUFFICES ASSUME NEW i \in DOMAIN t, t[i].kind = "frame"
                   PROVE  IF i = 1 THEN pending = t[i].frame
                          ELSE t[i - 1].kind = "metadata" /\ t[i - 1].frame = t[i].frame
      BY <1>2 DEF Paired
    <2>2. i \in Nat \ {0} /\ i + 1 \in DOMAIN queue /\ t[i] = queue[i + 1] /\ i + 1 # 1 /\ (i + 1) - 1 = i
      BY <1>3, <2>1
    <2>3. queue[i].kind = "metadata" /\ queue[i].frame = t[i].frame
      BY <1>1, <2>1, <2>2 DEF Paired
    <2>4. i # 1
      BY <1>2, <1>3, <2>3
    <2>5. i - 1 \in DOMAIN t /\ (i - 1) + 1 = i
      BY <1>1, <1>2, <2>1, <2>2, <2>4, QueueFacts, TailFacts DEF t
    <2>6. t[i - 1] = queue[i]
      BY <1>3, <2>5
    <2>7. QED
      BY <2>3, <2>4, <2>6
  <1>9. Together'
    <2>1. \A i \in DOMAIN calls' : calls'[i].metadata = calls'[i].pixels
      BY <1>1, <1>4, <1>7 DEF Together
    <2>2. QED
      BY <1>1, <1>2, <2>1 DEF Together
  <1>10. PICK n \in Nat : n = h.id
    BY <1>4
  <1>11. BeforeQueue(n) /\ BeforeQueue(n)'
    <2>1. n <= captured
      BY <1>1, <1>3, <1>4, <1>10 DEF QueueSorted
    <2>2. \A i \in DOMAIN queue : i \in Nat /\ 1 <= i
      BY <1>1, QueueFacts
    <2>3. \A i \in DOMAIN queue : n <= queue[i].frame.id
      BY <1>1, <1>3, <1>4, <1>10, <2>2 DEF QueueSorted
    <2>4. BeforeQueue(n)
      BY <2>1, <2>3 DEF BeforeQueue
    <2>5. QED
      BY <1>6, <2>4 DEF QueueKept
  <1>12. \A k \in Nat : BeforeCalls(k) => k <= n
    BY <1>3, <1>4, <1>10 DEF BeforeCalls, BeforeQueue
  <1>13. \A i \in DOMAIN calls' : calls'[i] = c => calls'[i].pixels.id = n
    BY <1>4, <1>10
  <1>14. \A i \in DOMAIN calls : calls[i].pixels.id \in Nat /\ calls[i].pixels.id <= n
    BY <1>1, <1>3, <1>4, <1>10, QueueFacts DEF CallsSorted, BeforeQueue
  <1>15. CallsKept
    <2>1. SUFFICES ASSUME NEW k \in Nat, BeforeCalls(k) PROVE BeforeCalls(k)'
      BY DEF CallsKept
    <2>2. BeforeQueue(k)' /\ k <= n /\ \A i \in DOMAIN calls : k <= calls[i].pixels.id
      BY <1>6, <1>12, <2>1 DEF QueueKept, BeforeCalls
    <2>3. \A i \in DOMAIN calls' : k <= calls'[i].pixels.id
      BY <1>7, <1>13, <2>2
    <2>4. QED
      BY <2>2, <2>3 DEF BeforeCalls
  <1>16. CallsSorted'
    <2>1. \A i \in DOMAIN calls' : /\ calls'[i].pixels.id <= captured'
                                   /\ \A j \in DOMAIN queue' : calls'[i].pixels.id <= queue'[j].frame.id
      <3>1. SUFFICES ASSUME NEW i \in DOMAIN calls'
                     PROVE  \E k \in Nat : k = calls'[i].pixels.id /\ BeforeQueue(k)'
        BY DEF BeforeQueue
      <3>2. CASE i \in DOMAIN calls /\ calls'[i] = calls[i]
        <4>1. PICK k \in Nat : k = calls[i].pixels.id
          BY <1>14, <3>2
        <4>2. BeforeQueue(k)'
          BY <1>1, <1>6, <3>2, <4>1 DEF CallsSorted, QueueKept
        <4>3. QED
          BY <3>2, <4>1, <4>2
      <3>3. CASE calls'[i] = c
        BY <1>11, <1>13, <3>1, <3>3
      <3>4. QED
        BY <1>7, <3>2, <3>3
    <2>2. ASSUME NEW i \in DOMAIN calls', NEW j \in DOMAIN calls', i <= j
          PROVE  calls'[i].pixels.id <= calls'[j].pixels.id
      <3>1. CASE calls'[j] = c
        BY <1>7, <1>13, <1>14, <3>1
      <3>2. CASE j \in DOMAIN calls /\ calls'[j] = calls[j] /\ j <= Len(calls)
        <4>1. i # Len(calls) + 1
          BY <1>5, <2>2, <3>2
        <4>2. i \in DOMAIN calls /\ calls'[i] = calls[i]
          BY <1>7, <4>1
        <4>3. QED
          BY <1>1, <2>2, <3>2, <4>2 DEF CallsSorted
      <3>3. QED
        BY <1>7, <3>1, <3>2
    <2>3. QED
      BY <2>1, <2>2 DEF CallsSorted, BeforeQueue
  <1>17. PostedSorted' /\ PostedKept
    BY <1>1, <1>2, <1>15, PostedStep
  <1>18. ShownSorted'
    BY <1>1, <1>2, <1>17, ShownStep
  <1>19. QED
    BY <1>6, <1>8, <1>9, <1>16, <1>17, <1>18 DEF Sorted

\* The display is called: the bitmap is behind those posted before.
LEMMA RenderFrameStep == ASSUME IInv, RenderFrame PROVE Paired' /\ Together' /\ Sorted'
  <1> DEFINE t == Tail(calls)
             c == Head(calls)
  <1>1. TypeOK /\ Paired /\ Together /\ QueueSorted /\ CallsSorted /\ PostedSorted /\ ShownSorted
    BY DEF IInv, Sorted
  <1>2. /\ calls # << >> /\ calls' = t /\ (posted' = posted \/ posted' = Append(posted, c))
        /\ UNCHANGED << queue, pending, shown, captured >>
    BY DEF RenderFrame, hostVars
  <1>3. /\ c \in Bitmaps /\ c = calls[1] /\ 1 \in DOMAIN calls
        /\ \A i \in DOMAIN t : i \in Nat \ {0} /\ i + 1 \in DOMAIN calls /\ t[i] = calls[i + 1]
    BY <1>1, <1>2, QueueFacts, TailFacts
  <1>4. posted \in Seq(Bitmaps)
    BY <1>1, QueueFacts
  <1> HIDE DEF t, c
  <1>5. \A i \in DOMAIN posted' : \/ i \in DOMAIN posted /\ posted'[i] = posted[i] /\ i <= Len(posted)
                                  \/ i = Len(posted) + 1 /\ posted'[i] = c
    <2>1. CASE posted' = Append(posted, c)
      BY <1>3, <1>4, <2>1, AppendFacts
    <2>2. CASE posted' = posted
      BY <1>4, <2>2
    <2>3. QED
      BY <1>2, <2>1, <2>2
  <1>6. PICK n \in Nat : n = c.pixels.id
    BY <1>1, <1>3, QueueFacts
  <1>7. c.metadata = c.pixels
    BY <1>1, <1>3 DEF Together
  <1>8. Paired'
    BY <1>1, <1>2 DEF Paired
  <1>9. Together'
    <2>1. \A i \in DOMAIN calls' : calls'[i].metadata = calls'[i].pixels
      BY <1>1, <1>2, <1>3 DEF Together
    <2>2. \A i \in DOMAIN posted' : posted'[i].metadata = posted'[i].pixels
      BY <1>1, <1>5, <1>7 DEF Together
    <2>3. QED
      BY <2>1, <2>2 DEF Together
  <1>10. QueueSorted'
    BY <1>1, <1>2 DEF QueueSorted
  <1>11. \A i \in DOMAIN calls : i \in Nat /\ 1 <= i /\ calls[i].pixels.id \in Nat
    BY <1>1, QueueFacts
  <1>12. BeforeQueue(n) /\ (\A i \in DOMAIN calls : n <= calls[i].pixels.id)
    <2>1. BeforeQueue(n)
      BY <1>1, <1>3, <1>6 DEF CallsSorted
    <2>2. \A i \in DOMAIN calls : n <= calls[i].pixels.id
      BY <1>1, <1>3, <1>6, <1>11 DEF CallsSorted
    <2>3. QED
      BY <2>1, <2>2
  <1>13. CallsSorted'
    <2>1. \A i \in DOMAIN calls' : /\ calls'[i].pixels.id <= captured'
                                   /\ \A j \in DOMAIN queue' : calls'[i].pixels.id <= queue'[j].frame.id
      BY <1>1, <1>2, <1>3 DEF CallsSorted, BeforeQueue
    <2>2. ASSUME NEW i \in DOMAIN t, NEW j \in DOMAIN t, i <= j
          PROVE  t[i].pixels.id <= t[j].pixels.id
      <3>1. i + 1 <= j + 1
        BY <1>3, <2>2
      <3>2. QED
        BY <1>1, <1>3, <3>1 DEF CallsSorted
    <2>3. QED
      BY <1>2, <2>1, <2>2 DEF CallsSorted, BeforeQueue
  <1>14. CallsKept
    BY <1>2, <1>3 DEF CallsKept, BeforeCalls, BeforeQueue
  <1>15. BeforeCalls(n)'
    BY <1>12, <1>14 DEF CallsKept, BeforeCalls
  <1>16. \A k \in Nat : BeforeCalls(k) => k <= n
    BY <1>3, <1>6 DEF BeforeCalls
  <1>17. \A i \in DOMAIN posted : posted[i].pixels.id \in Nat /\ BeforeCalls(posted[i].pixels.id)
    BY <1>1, QueueFacts DEF PostedSorted
  <1>18. PostedKept
    <2>1. SUFFICES ASSUME NEW k \in Nat, BeforePosted(k) PROVE BeforePosted(k)'
      BY DEF PostedKept
    <2>2. BeforeCalls(k)' /\ k <= n /\ \A i \in DOMAIN posted : k <= posted[i].pixels.id
      BY <1>14, <1>16, <2>1 DEF CallsKept, BeforePosted
    <2>3. \A i \in DOMAIN posted' : k <= posted'[i].pixels.id
      BY <1>5, <1>6, <2>2
    <2>4. QED
      BY <2>2, <2>3 DEF BeforePosted
  <1>19. PostedSorted'
    <2>1. \A i \in DOMAIN posted' : \E k \in Nat : k = posted'[i].pixels.id /\ BeforeCalls(k)'
      <3>1. SUFFICES ASSUME NEW i \in DOMAIN posted'
                     PROVE  \E k \in Nat : k = posted'[i].pixels.id /\ BeforeCalls(k)'
        OBVIOUS
      <3>2. CASE i \in DOMAIN posted /\ posted'[i] = posted[i]
        <4>1. PICK k \in Nat : k = posted[i].pixels.id
          BY <1>17, <3>2
        <4>2. BeforeCalls(k)'
          BY <1>14, <1>17, <3>2, <4>1 DEF CallsKept
        <4>3. QED
          BY <3>2, <4>1, <4>2
      <3>3. CASE posted'[i] = c
        BY <1>6, <1>15, <3>3
      <3>4. QED
        BY <1>5, <3>2, <3>3
    <2>2. ASSUME NEW i \in DOMAIN posted', NEW j \in DOMAIN posted', i <= j
          PROVE  posted'[i].pixels.id <= posted'[j].pixels.id
      <3>1. CASE posted'[j] = c
        BY <1>5, <1>6, <1>16, <1>17, <3>1
      <3>2. CASE j \in DOMAIN posted /\ posted'[j] = posted[j] /\ j <= Len(posted)
        <4>1. i # Len(posted) + 1
          BY <1>4, <2>2, <3>2
        <4>2. i \in DOMAIN posted /\ posted'[i] = posted[i]
          BY <1>5, <4>1
        <4>3. QED
          BY <1>1, <2>2, <3>2, <4>2 DEF PostedSorted
      <3>3. QED
        BY <1>5, <3>1, <3>2
    <2>3. QED
      BY <2>1, <2>2 DEF PostedSorted, BeforeCalls, BeforeQueue
  <1>20. ShownSorted'
    BY <1>1, <1>2, <1>18, ShownStep
  <1>21. QED
    BY <1>8, <1>9, <1>10, <1>13, <1>19, <1>20 DEF Sorted

\* A bitmap that is drawn is the oldest on its way, and no older than what is shown.
LEMMA DrawStep ==
    ASSUME IInv, Draw
    PROVE  /\ Paired' /\ Together' /\ Sorted'
           /\ \A v \in Views : shown'[v] # shown[v] =>
                  /\ shown'[v].metadata = shown'[v].pixels
                  /\ shown'[v].pixels.id >= shown[v].pixels.id
                  /\ v \in living
  <1> DEFINE t == Tail(posted)
             b == Head(posted)
  <1>1. TypeOK /\ Paired /\ Together /\ QueueSorted /\ CallsSorted /\ PostedSorted /\ ShownSorted
    BY DEF IInv, Sorted
  <1>2. /\ posted # << >> /\ posted' = t
        /\ shown' = IF attached = NoView THEN shown ELSE [shown EXCEPT ![attached] = b]
        /\ UNCHANGED << queue, pending, calls, captured >>
    BY DEF Draw, hostVars, clientVars
  <1>3. /\ b \in Bitmaps /\ b = posted[1] /\ 1 \in DOMAIN posted
        /\ \A i \in DOMAIN t : i \in Nat \ {0} /\ i + 1 \in DOMAIN posted /\ t[i] = posted[i + 1]
    BY <1>1, <1>2, QueueFacts, TailFacts
  <1>4. shown \in [Views -> Bitmaps] /\ attached \in living \cup {NoView}
    BY <1>1 DEF TypeOK
  <1> HIDE DEF t, b
  <1>5. PICK n \in Nat : n = b.pixels.id
    BY <1>1, <1>3, QueueFacts
  <1>6. b.metadata = b.pixels
    BY <1>1, <1>3 DEF Together
  <1>7. \A v \in Views : \/ shown'[v] = shown[v]
                         \/ shown'[v] = b /\ v \in living
    BY <1>2, <1>4
  <1>8. Paired' /\ Together'
    BY <1>1, <1>2, <1>3 DEF Paired, Together
  <1>9. QueueSorted' /\ CallsSorted'
    BY <1>1, <1>2 DEF QueueSorted, CallsSorted, BeforeQueue
  <1>10. \A i \in DOMAIN posted : i \in Nat /\ 1 <= i /\ posted[i].pixels.id \in Nat
    BY <1>1, QueueFacts
  <1>11. BeforeCalls(n) /\ \A i \in DOMAIN posted : n <= posted[i].pixels.id
    <2>1. BeforeCalls(n)
      BY <1>1, <1>3, <1>5 DEF PostedSorted
    <2>2. \A i \in DOMAIN posted : n <= posted[i].pixels.id
      BY <1>1, <1>3, <1>5, <1>10 DEF PostedSorted
    <2>3. QED
      BY <2>1, <2>2
  <1>12. PostedKept
    BY <1>2, <1>3 DEF PostedKept, BeforePosted, BeforeCalls, BeforeQueue
  <1>13. BeforePosted(n)'
    BY <1>11, <1>12 DEF PostedKept, BeforePosted
  <1>14. PostedSorted'
    <2>1. \A i \in DOMAIN t : BeforeCalls(t[i].pixels.id)
      BY <1>1, <1>3 DEF PostedSorted
    <2>2. ASSUME NEW i \in DOMAIN t, NEW j \in DOMAIN t, i <= j
          PROVE  t[i].pixels.id <= t[j].pixels.id
      <3>1. i + 1 <= j + 1
        BY <1>3, <2>2
      <3>2. QED
        BY <1>1, <1>3, <3>1 DEF PostedSorted
    <2>3. QED
      BY <1>2, <2>1, <2>2 DEF PostedSorted, BeforeCalls, BeforeQueue
  <1>15. \A v \in Views : shown[v].pixels.id \in Nat /\ BeforePosted(shown[v].pixels.id)
    BY <1>1, QueueFacts DEF ShownSorted
  <1>16. ShownSorted'
    <2>1. \A v \in Views : \E k \in Nat : k = shown'[v].pixels.id /\ BeforePosted(k)'
      <3>1. SUFFICES ASSUME NEW v \in Views PROVE \E k \in Nat : k = shown'[v].pixels.id /\ BeforePosted(k)'
        OBVIOUS
      <3>2. CASE shown'[v] = shown[v]
        <4>1. PICK k \in Nat : k = shown[v].pixels.id
          BY <1>15
        <4>2. BeforePosted(k)'
          BY <1>12, <1>15, <4>1 DEF PostedKept
        <4>3. QED
          BY <3>2, <4>1, <4>2
      <3>3. CASE shown'[v] = b
        BY <1>5, <1>13, <3>3
      <3>4. QED
        BY <1>7, <3>2, <3>3
    <2>2. QED
      BY <2>1 DEF ShownSorted, BeforePosted, BeforeCalls, BeforeQueue
  <1>17. \A v \in Views : shown[v].pixels.id <= n
    BY <1>3, <1>5, <1>15 DEF BeforePosted
  <1>18. ASSUME NEW v \in Views, shown'[v] # shown[v]
         PROVE  shown'[v].metadata = shown'[v].pixels /\ shown'[v].pixels.id >= shown[v].pixels.id /\ v \in living
    <2>1. shown'[v] = b /\ v \in living
      BY <1>7, <1>18
    <2>2. shown'[v].pixels.id = n /\ n >= shown[v].pixels.id
      BY <1>5, <1>15, <1>17, <2>1
    <2>3. QED
      BY <1>6, <2>1, <2>2
  <1>19. QED
    BY <1>8, <1>9, <1>14, <1>16, <1>18 DEF Sorted

\* The frame that the worker has keeps its place among the numbers.
LEMMA WorkerStep == ASSUME IInv, [Next]_vars PROVE WorkerInv'
  <1>0. TypeOK /\ WorkerInv
    BY DEF IInv
  <1>1. ASSUME UNCHANGED << frame, captured >>, worker' = worker \/ worker' \in {"off", "gone", "capture", "read"}
        PROVE  WorkerInv'
    BY <1>0, <1>1 DEF WorkerInv, NextFrame
  <1>2. ASSUME Acquire PROVE WorkerInv'
    <2>1. CASE UNCHANGED << worker, frame, captured >>
      BY <1>1, <2>1
    <2>2. CASE worker' = "stage" /\ frame' = CaptureFrame /\ captured' = captured
      <3>1. frame'.id = NextFrame /\ NextFrame' = NextFrame
        BY <1>0, <2>2, CaptureType DEF NextFrame
      <3>2. QED
        BY <2>2, <3>1 DEF WorkerInv
    <2>3. QED
      BY <1>2, <2>1, <2>2 DEF Acquire
  <1>3. ASSUME Stage PROVE WorkerInv'
    BY <1>0, <1>3 DEF WorkerInv, Stage, LeaveCapture, NextFrame
  <1>4. ASSUME MapAndCopy PROVE WorkerInv'
    BY <1>0, <1>4 DEF WorkerInv, MapAndCopy, LeaveCapture
  <1>5. ASSUME Encode PROVE WorkerInv'
    BY <1>0, <1>5 DEF WorkerInv, Encode
  <1>6. QED
    BY <1>1, <1>2, <1>3, <1>4, <1>5
       DEF Next, Host, Client, vars, hostVars, ScreenChanges, StartHost, SendFrame, Read, ClientSends,
           EndSession, HandleMetadata, HandleFrame, RenderFrame, Draw, CreateView, DisposeView

-----------------------------------------------------------------------------

LEMMA InitInv == Init => IInv
  <1> SUFFICES ASSUME Init PROVE IInv
    OBVIOUS
  <1>1. NoMetadata \in Frames /\ NoMetadata.id = 0 /\ Blank \in Bitmaps
    BY FrameFacts, RecordFacts DEF NoMetadata, Blank
  <1>2. queue = << >> /\ calls = << >> /\ posted = << >> /\ shown = [v \in Views |-> Blank]
    BY DEF Init
  <1>3. DOMAIN queue = {} /\ DOMAIN calls = {} /\ DOMAIN posted = {} /\ \A v \in Views : shown[v].pixels.id = 0
    BY <1>1, <1>2 DEF Blank
  <1>4. HostType
    <2>1. 0 \in 0..MaxInbox /\ 0 \in 0..MaxFrames
      BY BoundAssumption
    <2>2. QED
      BY <1>1, <2>1 DEF Init, HostType
  <1>5. FlightType
    BY <1>1, BoundAssumption DEF Init, FlightType
  <1>6. ViewType
    BY <1>1 DEF Init, ViewType
  <1>7. Paired /\ Together /\ WorkerInv
    BY <1>3 DEF Init, Paired, Together, WorkerInv
  <1>8. captured = 0
    BY DEF Init
  <1>9. Sorted
    BY <1>3, <1>8
       DEF Sorted, QueueSorted, CallsSorted, PostedSorted, ShownSorted, BeforeQueue, BeforeCalls, BeforePosted
  <1>10. QED
    BY <1>4, <1>5, <1>6, <1>7, <1>9, Types DEF IInv

LEMMA StepInv == ASSUME IInv, [Next]_vars PROVE IInv'
  <1>0. TypeOK /\ Paired /\ Together /\ Sorted
    BY DEF IInv
  <1>1. TypeOK' /\ WorkerInv'
    BY <1>0, TypeStep, WorkerStep
  <1>2. ASSUME UNCHANGED << queue, pending, calls, posted, shown, captured >> PROVE Paired' /\ Together' /\ Sorted'
    BY <1>0, <1>2, Unmoved
  <1>3. Paired' /\ Together' /\ Sorted'
    BY <1>2, MapAndCopyStep, SendFrameStep, EndSessionStep, HandleMetadataStep, HandleFrameStep, RenderFrameStep,
       DrawStep
       DEF Next, Host, Client, vars, hostVars, clientVars, viewVars, ScreenChanges, StartHost, Acquire, Stage,
           Encode, Read, ClientSends, CreateView, DisposeView
  <1>4. QED
    BY <1>1, <1>3 DEF IInv

\* Frames and their metadata stay paired, and the numbers sorted, from the capture to the view.
THEOREM Inductive == Spec => []IInv
  <1>1. Init => IInv
    BY InitInv
  <1>2. IInv /\ [Next]_vars => IInv'
    BY StepInv
  <1>3. QED
    BY <1>1, <1>2, PTL DEF Spec

\* The variables keep their types: the controller's view, in particular, is none or one that lives.
THEOREM TypeCorrect == Spec => []TypeOK
  <1>1. IInv => TypeOK
    BY DEF IInv
  <1>2. QED
    BY <1>1, Inductive, PTL

\* RemoteDisplayController draws pixels with their own metadata, never an older frame over a newer one, and
\* never into a view that was disposed.
THEOREM DrawIsAlwaysRight == Spec => DrawIsRight
  <1> DEFINE Right == \A v \in Views :
                          shown'[v] # shown[v] =>
                              /\ shown'[v].metadata = shown'[v].pixels
                              /\ shown'[v].pixels.id >= shown[v].pixels.id
                              /\ v \in living
  <1>1. IInv /\ [Next]_vars => [Right]_vars
    <2>1. SUFFICES ASSUME IInv, [Next]_vars PROVE Right
      OBVIOUS
    <2>2. ASSUME UNCHANGED shown PROVE Right
      BY <2>2
    <2>3. ASSUME Draw PROVE Right
      BY <2>1, <2>3, DrawStep
    <2>4. QED
      BY <2>1, <2>2, <2>3
         DEF Next, Host, Client, vars, hostVars, clientVars, viewVars, ScreenChanges, StartHost, Acquire, Stage,
             MapAndCopy, Encode, SendFrame, Read, ClientSends, EndSession, HandleMetadata, HandleFrame, RenderFrame,
             CreateView, DisposeView
  <1>2. Spec => [][Right]_vars
    BY <1>1, Inductive, PTL DEF Spec
  <1>3. QED
    BY <1>2 DEF DrawIsRight
=============================================================================

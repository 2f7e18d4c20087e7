----------------------------- MODULE AsciiVideo -----------------------------
(***************************************************************************)
(* ASCII video from one side of a call to the other: the encoder and       *)
(* decoder of asciivideo/codec.go, the two one-frame queues and the send   *)
(* loop of peer/peer.go, the unordered channel without retransmissions,    *)
(* and the keyframe requests of runSession (app/app.go), which travel over *)
(* the reliable control channel.                                           *)
(*                                                                         *)
(* A frame carries, beside what is sent, the picture it was made from      *)
(* (truth), which the receiver never reads.  The camera delivers one       *)
(* picture per unit of time.                                               *)
(*                                                                         *)
(* Sequence numbers are only compared with each other, so a frame carries  *)
(* how far its number is behind the encoder's.  Frames that fall MaxLate   *)
(* behind are lost or handled before the next one is made; a number that   *)
(* no frame under way can follow any more is kept as Forgotten.  That the  *)
(* numbers wrap after 2^32 frames, years of video, is left out.            *)
(***************************************************************************)
EXTENDS AsciiCodec

CONSTANTS
    CellCount,    \* columns * rows
    MaxSize,      \* bound: RoundTrip tries pictures of up to so many cells
    KeyInterval,  \* time between periodic keyframes
    MaxInFlight,  \* bound: frames in the network
    MaxLate,      \* bound: how far a frame under way may be behind
    MaxRequests,  \* bound: keyframe requests in the control channel
    NoFrame       \* an empty queue

ASSUME VideoAssumption ==
    /\ CellCount \in Nat \ {0} /\ MaxSize \in Nat /\ KeyInterval \in Nat \ {0}
    /\ {MaxInFlight, MaxLate, MaxRequests} \subseteq Nat \ {0}

Picture == [1..CellCount -> Cell]
NoPicture == <<>>

\* Frame.  A keyframe carries its cells, a delta the runs that changed.
Payload ==
    {<<[start |-> 1, cells |-> picture]>> : picture \in Picture}
      \union {encodeDelta(previous, picture) : previous, picture \in Picture}

Frame == [type : {"KEY", "DELTA"}, behind : 0..MaxLate, payload : Payload, truth : Picture]

ASSUME NoFrameAssumption == NoFrame \notin Frame

VARIABLES
    encoder,    \* Encoder: previous, time since lastKeyframe, forceKey
    videoReady, \* the sender's video channel is open
    outbound,   \* Peer.videoOutbound
    network,    \* frames sent and neither received nor lost
    inbound,    \* Peer.videoFrames of the receiver
    decoder,    \* Decoder: cells, and how far its sequence is behind
    shown,      \* history: the truth of the last frame the decoder took
    requested,  \* keyframeRequested
    requests    \* video.keyframe_request messages on their way

vars == <<encoder, videoReady, outbound, network, inbound, decoder, shown, requested, requests>>

Forgotten == MaxLate + 2
Behind(n) == IF n = Forgotten THEN n ELSE n + 1

Init ==
    /\ encoder = [previous |-> NoPicture, age |-> 0, forceKey |-> TRUE]
    /\ videoReady = FALSE
    /\ outbound = NoFrame /\ network = {} /\ inbound = NoFrame
    /\ decoder = [cells |-> NoPicture, behind |-> Forgotten] /\ shown = NoPicture
    /\ requested = FALSE /\ requests = 0

----------------------------------------------------------------------------
\* The sender.

\* Encoder.Encode decides for a keyframe.
NeedsKey(picture) ==
    \/ encoder.forceKey
    \/ encoder.previous = NoPicture
    \/ encoder.age + 1 >= KeyInterval
    \/ EncodedSize(encodeDelta(encoder.previous, picture)) >= CellCount

\* Mutant: lastKeyframe moves with every frame.
EncodeAged(picture) ==
    LET key == NeedsKey(picture)
    IN  [frame |-> [type    |-> IF key THEN "KEY" ELSE "DELTA",
                    behind  |-> 0,
                    payload |-> IF key THEN <<[start |-> 1, cells |-> picture]>>
                                ELSE encodeDelta(encoder.previous, picture),
                    truth   |-> picture],
         state |-> [previous |-> picture, age |-> 0,
                    forceKey |-> IF key THEN FALSE ELSE encoder.forceKey]]

\* A frame with a keyframe's cells or the runs of a delta.
Encode(picture) ==
    LET key == NeedsKey(picture)
    IN  [frame |-> [type    |-> IF key THEN "KEY" ELSE "DELTA",
                    behind  |-> 0,
                    payload |-> IF key THEN <<[start |-> 1, cells |-> picture]>>
                                ELSE encodeDelta(encoder.previous, picture),
                    truth   |-> picture],
         state |-> [previous |-> picture,
                    age      |-> IF key THEN 0 ELSE encoder.age + 1,
                    forceKey |-> IF key THEN FALSE ELSE encoder.forceKey]]

\* One more frame has been made.
Aged(frame) == IF frame = NoFrame THEN frame ELSE [frame EXCEPT !.behind = @ + 1]

\* runSession encodes the camera's picture and SendVideo queues it, replacing
\* a frame that waits; when the channel is not open or congested the frame is
\* gone, and the encoder goes on as if it had been sent.
Capture(picture, congested) ==
    /\ \A frame \in {outbound, inbound} \ {NoFrame} : frame.behind < MaxLate
    /\ encoder' = Encode(picture).state
    /\ outbound' = IF videoReady /\ ~congested THEN Encode(picture).frame ELSE Aged(outbound)
    /\ network' = {Aged(frame) : frame \in {f \in network : f.behind < MaxLate}}
    /\ inbound' = Aged(inbound)
    /\ decoder' = [decoder EXCEPT !.behind = Behind(@)]
    /\ UNCHANGED <<videoReady, shown, requested, requests>>

OpenVideo ==
    /\ ~videoReady /\ videoReady' = TRUE
    /\ UNCHANGED <<encoder, outbound, network, inbound, decoder, shown, requested, requests>>

\* videoSendLoop hands the frame to the channel, or drops it when the buffer
\* is full or the send fails.  A full network loses another frame for it.
SendFrame(congested) ==
    /\ videoReady /\ outbound # NoFrame
    /\ outbound' = NoFrame
    /\ \/ congested /\ UNCHANGED network
       \/ /\ ~congested /\ Cardinality(network) < MaxInFlight
          /\ network' = network \union {outbound}
       \/ /\ ~congested /\ Cardinality(network) >= MaxInFlight
          /\ \E frame \in network : network' = (network \ {frame}) \union {outbound}
    /\ UNCHANGED <<encoder, videoReady, inbound, decoder, shown, requested, requests>>

\* The control message asks for a keyframe: ForceKeyframe.
ForceKeyframe ==
    /\ requests > 0
    /\ requests' = requests - 1
    /\ encoder' = [encoder EXCEPT !.forceKey = TRUE]
    /\ UNCHANGED <<videoReady, outbound, network, inbound, decoder, shown, requested>>

----------------------------------------------------------------------------
\* The network, unordered and without retransmissions.

Lose(frame) ==
    /\ network' = network \ {frame}
    /\ UNCHANGED <<encoder, videoReady, outbound, inbound, decoder, shown, requested, requests>>

\* OnMessage queues the frame, replacing one that waits.
Receive(frame) ==
    /\ network' = network \ {frame}
    /\ inbound' = frame
    /\ UNCHANGED <<encoder, videoReady, outbound, decoder, shown, requested, requests>>

----------------------------------------------------------------------------
\* The receiver.

\* Mutant: any later delta is applied.
DecodesLater(frame) ==
    \/ frame.type = "KEY"
    \/ decoder.cells # NoPicture /\ frame.behind < decoder.behind

\* Decoder.Decode accepts a keyframe always and a delta only as the successor
\* of the picture it has.
Decodes(frame) ==
    \/ frame.type = "KEY"
    \/ decoder.cells # NoPicture /\ decoder.behind = frame.behind + 1

\* The cells after the frame.
Decoded(frame) ==
    IF frame.type = "KEY" THEN frame.payload[1].cells
    ELSE applyDelta(decoder.cells, frame.payload)

Render ==
    /\ inbound # NoFrame /\ Decodes(inbound)
    /\ decoder' = [cells |-> Decoded(inbound), behind |-> inbound.behind]
    /\ shown' = inbound.truth
    /\ requested' = (requested /\ inbound.type # "KEY")
    /\ inbound' = NoFrame
    /\ UNCHANGED <<encoder, videoReady, outbound, network, requests>>

\* ErrNeedsKeyframe: one request until a keyframe has been shown.
Reject ==
    /\ inbound # NoFrame /\ ~Decodes(inbound)
    /\ inbound' = NoFrame
    /\ IF requested THEN UNCHANGED <<requested, requests>>
       ELSE /\ requests < MaxRequests
            /\ requested' = TRUE /\ requests' = requests + 1
    /\ UNCHANGED <<encoder, videoReady, outbound, network, decoder, shown>>

Next ==
    \/ \E picture \in Picture, congested \in BOOLEAN : Capture(picture, congested)
    \/ OpenVideo
    \/ \E congested \in BOOLEAN : SendFrame(congested)
    \/ ForceKeyframe
    \/ \E frame \in network : Lose(frame)
    \/ \E frame \in network : Receive(frame)
    \/ Render
    \/ Reject

Spec == Init /\ [][Next]_vars

\* A keyframe is made, and is queued.
IsKey(frame) == frame # NoFrame /\ frame.type = "KEY"
KeyMade(congested) == \E picture \in Picture : NeedsKey(picture) /\ Capture(picture, congested)

\* The camera and the loops run.  A keyframe that is offered again and again
\* is not dropped every time: not by congestion, by a newer frame in a queue,
\* or by the network.
Fairness ==
    /\ WF_vars(OpenVideo) /\ WF_vars(ForceKeyframe)
    /\ WF_vars(\E picture \in Picture, congested \in BOOLEAN : Capture(picture, congested))
    /\ ([]<><<\E congested \in BOOLEAN : KeyMade(congested)>>_vars => []<><<KeyMade(FALSE)>>_vars)
    /\ WF_vars(\E congested \in BOOLEAN : SendFrame(congested)) /\ WF_vars(Render \/ Reject)
    /\ SF_vars(IsKey(outbound) /\ SendFrame(FALSE))
    /\ SF_vars(\E frame \in network : IsKey(frame) /\ Receive(frame))
    /\ SF_vars(IsKey(inbound) /\ Render)

FairSpec == Spec /\ Fairness

----------------------------------------------------------------------------
\* applyDelta undoes encodeDelta for any two pictures of the same size, also of
\* other sizes than this instance sends.  It depends on no frame under way, so
\* it is tried before the encoder has its first picture.
RoundTrip ==
    encoder.previous = NoPicture =>
        \A size \in 1..MaxSize : \A previous, current \in [1..size -> Cell] :
            Restores(previous, current)

\* The receiver's picture is always exactly one the sender encoded, whatever
\* frames were dropped, lost or reordered: no delta is applied to a picture
\* other than the one it was computed from.
PictureFaithful == decoder.cells = shown

\* Every freeze ends.  A requested keyframe may be dropped like any other frame
\* and the receiver does not ask a second time; the periodic keyframes still
\* reach it, so a request that is in force is always settled by a keyframe.
FreezeEnds == requested ~> ~requested
=============================================================================

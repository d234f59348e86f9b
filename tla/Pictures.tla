------------------------------ MODULE Pictures ------------------------------
(***************************************************************************)
(* The pictures of a V1 or Connect 2 media session, from the packets read  *)
(* by the media worker to its decoder and transport stream (hub.py,        *)
(* v1_video.py, media.py).  All of it is one thread.                       *)
(*                                                                         *)
(* A picture is whether it is an IDR, another intra picture that the       *)
(* device flags as key (TLV 100), or one that depends on the picture       *)
(* before it (TLV 101); whether it brings SPS and PPS along; and whether   *)
(* its size, framing and NAL units are those of one complete picture.      *)
(* Audio, timestamps and JPEG images are left out.                         *)
(***************************************************************************)
EXTENDS Integers

CONSTANTS MaxPictures   \* bound: how far a device counts its pictures

ASSUME PicturesAssumption == MaxPictures \in Nat

VARIABLES
  login,     \* the media session is logged in
  receiver,  \* v1_receiver: metadata, last_sequence, awaiting_keyframe
  pipeline,  \* the MediaPipeline
  number,    \* what the device counts its next picture as
  counted,   \* it puts that number in the metadata, and 0 otherwise
  newest,    \* what became of the device's last picture
  shown      \* the last picture given to the decoder and muxed

pictureVars == <<login, receiver, pipeline, number, counted, newest, shown>>

NoNumber == -1
Metadata == {"none", "short", "full"}   \* none, of 12 bytes, of 16 bytes
Picture == [type: {"idr", "intra", "p"}, sets: BOOLEAN, sound: BOOLEAN]

\* told: the receiver could tell from the numbers that pictures are missing.
NoPicture == [type |-> "none", after |-> "missed", told |-> FALSE]

NoReceiver == [on |-> FALSE, meta |-> "none", last |-> NoNumber, awaiting |-> TRUE]
NewReceiver == [NoReceiver EXCEPT !.on = TRUE]

\* sets: _parameter_sets; primed: the decoder has been given SPS and PPS.
NoPipeline ==
  [on |-> FALSE, started |-> FALSE, waiting |-> FALSE, sets |-> FALSE, primed |-> FALSE]
NewPipeline == [NoPipeline EXCEPT !.on = TRUE]

PicturesTypeOK ==
  /\ login \in BOOLEAN /\ counted \in BOOLEAN
  /\ receiver \in [on: BOOLEAN, meta: Metadata, last: {NoNumber} \cup 0..MaxPictures,
                   awaiting: BOOLEAN]
  /\ pipeline \in [on: BOOLEAN, started: BOOLEAN, waiting: BOOLEAN, sets: BOOLEAN,
                   primed: BOOLEAN]
  /\ number \in 0..MaxPictures + 1
  /\ newest \in {"missed", "skipped", "rejected", "muxed"}
  /\ shown \in [type: {"none", "idr", "intra", "p"}, told: BOOLEAN,
                after: {"missed", "skipped", "rejected", "muxed"}]

NoSession ==
  /\ login = FALSE /\ receiver = NoReceiver /\ pipeline = NoPipeline
  /\ number = 0 /\ counted = FALSE /\ newest = "missed" /\ shown = NoPicture

-----------------------------------------------------------------------------
(* The session *)

\* A V1 has its receiver from the login on.
LogsIn ==
  /\ ~login
  /\ login' = TRUE
  /\ receiver' \in {NoReceiver, NewReceiver}
  /\ number' \in {0, 1} /\ counted' \in BOOLEAN
  /\ UNCHANGED <<pipeline, newest, shown>>

\* TLV 203: a new pipeline; a format of 352x288 means a V1, and a new receiver.
FormatArrives ==
  /\ login
  /\ receiver' \in {receiver, NewReceiver}
  /\ pipeline' = NewPipeline
  /\ newest' = "missed" /\ shown' = NoPicture
  /\ UNCHANGED <<login, number, counted>>

\* The session ends: the device, an error, nobody watches any more.
SessionOver ==
  /\ login
  /\ login' = FALSE /\ receiver' = NoReceiver /\ pipeline' = NoPipeline
  /\ number' = 0 /\ counted' = FALSE /\ newest' = "missed" /\ shown' = NoPicture

-----------------------------------------------------------------------------
(* V1VideoReceiver *)

Rejected(r) == [r EXCEPT !.meta = "none", !.awaiting = TRUE]

\* Metadata of a length other than 12 and 16, or of an impossible size, is bad.
Noted(r, form) ==
  CASE form = "none" -> r
    [] form = "bad" -> Rejected(r)
    [] OTHER -> [r EXCEPT !.meta = form]

Sequence == IF counted THEN number ELSE 0

Numbered(r) == r.meta = "full" /\ r.last \notin {NoNumber, 0}

\* A picture needs metadata of its own, and a dependent one the picture before.
Accepts(r, pic) ==
  /\ r.meta # "none" /\ pic.sound
  /\ pic.type = "p" => ~r.awaiting /\ (Numbered(r) => Sequence = r.last + 1)

Accepted(r) ==
  [r EXCEPT !.meta = "none", !.awaiting = FALSE,
            !.last = IF r.meta = "full" THEN Sequence ELSE @]

Received(r, pic) == IF Accepts(r, pic) THEN Accepted(r) ELSE Rejected(r)

\* parse_video_tlvs: a picture may declare a length that is not its own only
\* behind metadata in the same packet.  The parser of a Connect 2 is strict.
Parses(form, exact) == exact \/ (receiver.on /\ form \in {"short", "full"})

-----------------------------------------------------------------------------
(* MediaPipeline.feed_video *)

\* After a decoding error only an IDR is decoded, whatever its flag says.
Usable(p, pic) ==
  IF p.waiting THEN pic.type = "idr" ELSE p.started \/ pic.type # "p"

\* SPS and PPS kept from earlier pictures are put in front of that IDR.
Prepared(p, pic) == p.primed \/ pic.sets \/ (p.waiting /\ p.sets)

Decoded(p, pic) ==
  [p EXCEPT !.started = TRUE, !.primed = TRUE, !.sets = @ \/ pic.sets,
            !.waiting = @ /\ pic.type = "p"]

\* _reset_video_decoder: a new decoder, which knows no SPS and PPS.
ResetDecoder(p) == [p EXCEPT !.waiting = TRUE, !.primed = FALSE]

\* The decoder may find any picture invalid, and one without SPS and PPS always.
Fed(r, pic) ==
  \/ /\ Usable(pipeline, pic) /\ Prepared(pipeline, pic)
     /\ pipeline' = Decoded(pipeline, pic)
     /\ shown' = [type |-> pic.type, after |-> newest, told |-> receiver.on /\ Numbered(r)]
     /\ newest' = "muxed"
  \/ /\ Usable(pipeline, pic)
     /\ pipeline' = ResetDecoder(pipeline)
     /\ newest' = "rejected" /\ UNCHANGED shown
  \/ /\ ~Usable(pipeline, pic)
     /\ newest' = "rejected" /\ UNCHANGED <<pipeline, shown>>

-----------------------------------------------------------------------------
(* Packets *)

MetadataArrives(form) ==
  /\ login /\ pipeline.on /\ receiver.on
  /\ receiver' = Noted(receiver, form)
  /\ UNCHANGED <<login, pipeline, number, counted, newest, shown>>

\* METADATA_LIFETIME has passed: the picture that comes is refused.
MetadataExpires ==
  /\ receiver.meta # "none"
  /\ receiver' = [receiver EXCEPT !.meta = "none"]
  /\ UNCHANGED <<login, pipeline, number, counted, newest, shown>>

Counts ==
  /\ login /\ number <= MaxPictures
  /\ number' = number + 1
  /\ UNCHANGED <<login, counted>>

\* The device leaves a picture out.
Skips ==
  /\ Counts /\ receiver.meta = "none"
  /\ newest' = "skipped"
  /\ UNCHANGED <<receiver, pipeline, shown>>

\* A fragment of a picture: a V1 receiver joins nothing.
FragmentArrives ==
  /\ Counts /\ pipeline.on /\ receiver.on
  /\ receiver' = Rejected(receiver)
  /\ newest' = "rejected"
  /\ UNCHANGED <<pipeline, shown>>

\* A packet with a picture, and perhaps its metadata in front of it.
PictureArrives(form, exact, pic) ==
  /\ Counts /\ Parses(form, exact)
  /\ LET r == Noted(receiver, form)
     IN \/ /\ ~pipeline.on
           /\ newest' = "missed" /\ UNCHANGED <<receiver, pipeline, shown>>
        \/ /\ pipeline.on /\ receiver.on /\ receiver' = Received(r, pic)
           /\ IF Accepts(r, pic) THEN Fed(r, pic)
              ELSE newest' = "rejected" /\ UNCHANGED <<pipeline, shown>>
        \/ /\ pipeline.on /\ ~receiver.on /\ UNCHANGED receiver
           /\ Fed(r, pic)

PicturesNext ==
  \/ LogsIn \/ FormatArrives \/ SessionOver
  \/ \E form \in {"short", "full", "bad"} : MetadataArrives(form)
  \/ MetadataExpires \/ Skips \/ FragmentArrives
  \/ \E form \in {"none", "short", "full", "bad"}, exact \in BOOLEAN, pic \in Picture :
       PictureArrives(form, exact, pic)

-----------------------------------------------------------------------------
(* What the parts of this module promise *)

\* A dependent picture follows the one it depends on, unless the device left
\* that one out and numbers nothing.
DependsOnShown ==
  shown.type = "p" =>
    \/ shown.after = "muxed"
    \/ shown.after = "skipped" /\ ~shown.told

\* Once a picture has been shown an IDR alone is enough after any error.
IdrSuffices == pipeline.started => pipeline.sets

-----------------------------------------------------------------------------
(* What makes them inductive *)

\* Until an IDR, or another intra picture, comes, no dependent one is shown.
Blocked == pipeline.waiting \/ ~pipeline.started \/ (receiver.on /\ receiver.awaiting)

\* The picture that is missing blocks those that depend on it, or the numbers
\* tell, if there are any.
Missing ==
  /\ newest \in {"missed", "rejected"} => Blocked
  /\ receiver.last \notin {NoNumber, 0} =>
       /\ counted /\ receiver.last < number
       /\ newest = "skipped" => receiver.last + 1 < number
  /\ ~login \/ ~pipeline.on => ~pipeline.started
  /\ pipeline.primed => pipeline.sets

PicturesIInv == PicturesTypeOK /\ Missing /\ DependsOnShown /\ IdrSuffices
=============================================================================

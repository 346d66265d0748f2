----------------------------- MODULE PcmIndirect -----------------------------
(***************************************************************************)
(* sound/pcm-indirect.h: a sound card whose own ring buffer the driver     *)
(* fills from (or empties into) the ring buffer the application sees.      *)
(*                                                                         *)
(* The callbacks run under the stream's lock, one at a time; the           *)
(* application and the card go on beside them.  The application counts in  *)
(* frames of PiFrame bytes, the record and the card in bytes: the card's   *)
(* pointer may be inside a frame, and a copy may end inside one.           *)
(* What the functions rely on is assumed: the application stays within its *)
(* buffer, the card is served before it runs dry (playback), and its       *)
(* pointer is read before it has gone round once.                          *)
(***************************************************************************)
EXTENDS Integers

CONSTANTS
    PiFrame,    \* runtime->frame_bits / 8
    PiHw,       \* hw_buffer_size
    PiQueue,    \* hw_queue_size
    PiSw,       \* sw_buffer_size
    PiBoundary  \* runtime->boundary, the frames at which appl_ptr wraps

ASSUME PiAssumption ==
    /\ PiFrame \in Nat \ {0} /\ PiSw \in Nat \ {0} /\ PiSw % PiFrame = 0
    /\ PiHw \in 1 .. PiSw /\ PiQueue \in 0 .. PiHw
    /\ PiBoundary \in Nat /\ PiBoundary * PiFrame >= 4 * PiSw
    /\ (PiBoundary * PiFrame) % PiSw = 0

VARIABLES
    pi_dir,     \* "playback" or "capture"
    pi_hw_data, pi_hw_io, pi_hw_ready,
    pi_sw_data, pi_sw_io, pi_sw_ready,
    pi_seen,    \* rec->appl_ptr, in frames
    pi_appl,    \* runtime->control->appl_ptr, in frames
    pi_pc,      \* "idle", "copy" in the loop of a transfer, "xrun"
    pi_card,    \* bytes the card has gone on since its pointer was last read
    pi_hwptr    \* the frame the core takes the card to be at, from what the
                \* pointer callback returned

pi_rec == <<pi_hw_data, pi_hw_io, pi_hw_ready, pi_sw_data, pi_sw_io, pi_sw_ready, pi_seen>>
pi_vars == <<pi_dir, pi_rec, pi_appl, pi_pc, pi_card, pi_hwptr>>

PiPlayback == pi_dir = "playback"
qsize == IF PiQueue = 0 THEN PiHw ELSE PiQueue
PiMin(S) == CHOOSE x \in S : \A y \in S : x <= y
frames_to_bytes(n) == n * PiFrame
bytes_to_frames(n) == n \div PiFrame
\* Distances in the three rings.
PiAhead(m, to, from) == (to - from) % m

\* The driver's prepare clears the record.
PiInit ==
    /\ pi_dir \in {"playback", "capture"}
    /\ pi_hw_data = 0 /\ pi_hw_io = 0 /\ pi_hw_ready = 0
    /\ pi_sw_data = 0 /\ pi_sw_io = 0 /\ pi_sw_ready = 0
    /\ pi_seen = 0 /\ pi_appl = 0 /\ pi_pc = "idle" /\ pi_card = 0 /\ pi_hwptr = 0

(***************************************************************************)
(* The application and the card                                            *)
(***************************************************************************)
\* Frames between the application and the position the core knows.
PiFill == IF PiPlayback THEN PiAhead(PiBoundary, pi_appl, pi_hwptr)
                        ELSE PiAhead(PiBoundary, pi_hwptr, pi_appl)

\* appl_ptr goes forward: as far as there is room, or data.
PiForward(n) ==
    /\ pi_pc # "xrun"
    /\ PiFill <= bytes_to_frames(PiSw)
    /\ n <= IF PiPlayback THEN bytes_to_frames(PiSw) - PiFill ELSE PiFill
    /\ pi_appl' = (pi_appl + n) % PiBoundary
    /\ UNCHANGED <<pi_dir, pi_rec, pi_pc, pi_card, pi_hwptr>>

\* snd_pcm_rewind, not back across the wrap-around, which the transfers do not
\* correct.
PiRewind(n) ==
    /\ pi_pc # "xrun" /\ n <= pi_appl
    /\ PiFill <= bytes_to_frames(PiSw)
    /\ n <= IF PiPlayback THEN PiFill ELSE bytes_to_frames(PiSw) - PiFill
    /\ pi_appl' = (pi_appl - n) % PiBoundary
    /\ UNCHANGED <<pi_dir, pi_rec, pi_pc, pi_card, pi_hwptr>>

\* The card's pointer is read before the card has gone round its ring, or round
\* the application's in whole frames: neither could be told from standing still.
PiCard(n) ==
    /\ pi_pc # "xrun" /\ pi_card + n < PiHw
    /\ (pi_sw_io % PiFrame) + pi_card + n < PiSw
    /\ PiPlayback => pi_card + n <= pi_hw_ready
    /\ pi_card' = pi_card + n
    /\ UNCHANGED <<pi_dir, pi_rec, pi_appl, pi_pc, pi_hwptr>>

(***************************************************************************)
(* snd_pcm_indirect_playback_transfer, snd_pcm_indirect_capture_transfer   *)
(***************************************************************************)
\* Wrong variant of PiDiff: a wrap-around is not noticed.
pi_diff_raw == pi_appl - pi_seen

\* diff, corrected when appl_ptr has wrapped.
PiDiff ==
    LET diff == pi_appl - pi_seen
    IN  IF diff < -(PiBoundary \div 2) THEN diff + PiBoundary ELSE diff

\* The part before the loop.
PiNotice ==
    /\ pi_sw_ready' = pi_sw_ready + (IF PiPlayback THEN 1 ELSE -1) * frames_to_bytes(PiDiff)
    /\ pi_seen' = pi_appl
    /\ pi_pc' = "copy"

\* The ack callback.
PiTransfer ==
    /\ pi_pc = "idle"
    /\ PiNotice
    /\ UNCHANGED <<pi_dir, pi_hw_data, pi_hw_io, pi_hw_ready, pi_sw_data, pi_sw_io, pi_appl, pi_card, pi_hwptr>>

\* The condition of the loop, and how much it copies: up to the next end.
PiMore == IF PiPlayback THEN pi_hw_ready < qsize /\ pi_sw_ready > 0
                        ELSE pi_hw_ready > 0 /\ pi_sw_ready < PiSw

\* Wrong variant of PiBytes: the card's ring is filled whatever it holds.
pi_bytes_unbounded ==
    PiMin({PiHw - pi_hw_data, PiSw - pi_sw_data} \cup
          IF PiPlayback THEN {pi_sw_ready} ELSE {PiSw - pi_sw_ready, pi_hw_ready})

PiBytes ==
    PiMin({PiHw - pi_hw_data, PiSw - pi_sw_data} \cup
          IF PiPlayback THEN {qsize - pi_hw_ready, pi_sw_ready}
                        ELSE {PiSw - pi_sw_ready, pi_hw_ready})

PiWrap(pos, size) == IF pos = size THEN 0 ELSE pos

PiCopy ==
    /\ pi_pc = "copy" /\ PiMore
    /\ pi_hw_data' = PiWrap(pi_hw_data + PiBytes, PiHw)
    /\ pi_sw_data' = PiWrap(pi_sw_data + PiBytes, PiSw)
    /\ pi_hw_ready' = IF PiPlayback THEN pi_hw_ready + PiBytes ELSE pi_hw_ready - PiBytes
    /\ pi_sw_ready' = IF PiPlayback THEN pi_sw_ready - PiBytes ELSE pi_sw_ready + PiBytes
    /\ UNCHANGED <<pi_dir, pi_hw_io, pi_sw_io, pi_seen, pi_appl, pi_pc, pi_card, pi_hwptr>>

\* The callback returns; the core stops the stream when the card has passed
\* the application.
PiCopied ==
    /\ pi_pc = "copy" /\ ~PiMore
    /\ pi_pc' = IF PiFill > bytes_to_frames(PiSw) THEN "xrun" ELSE "idle"
    /\ UNCHANGED <<pi_dir, pi_rec, pi_appl, pi_card, pi_hwptr>>

(***************************************************************************)
(* snd_pcm_indirect_playback_pointer, snd_pcm_indirect_capture_pointer     *)
(***************************************************************************)
\* Wrong variant of PiGone: it is not noticed that the card has gone round.
pi_gone_raw(ptr) == ptr - pi_hw_io

\* bytes = ptr - hw_io, corrected when the card has gone round.
PiGone(ptr) == IF ptr < pi_hw_io THEN ptr - pi_hw_io + PiHw ELSE ptr - pi_hw_io

\* Up to the call of ack, which is the transfer; the core moves its position
\* by as many frames as the return value did.
PiPointer ==
    LET ptr == (pi_hw_io + pi_card) % PiHw
        bytes == PiGone(ptr)
        sw_io == IF pi_sw_io + bytes >= PiSw THEN pi_sw_io + bytes - PiSw ELSE pi_sw_io + bytes
    IN  /\ pi_pc = "idle"
        /\ pi_hw_io' = ptr /\ pi_card' = 0
        /\ IF PiPlayback
             THEN pi_hw_ready' = pi_hw_ready - bytes
             ELSE pi_hw_ready' = pi_hw_ready + bytes /\ pi_hw_ready + bytes <= qsize
        /\ pi_sw_io' = sw_io
        /\ pi_hwptr' = (pi_hwptr + PiAhead(bytes_to_frames(PiSw), bytes_to_frames(sw_io),
                                           bytes_to_frames(pi_sw_io))) % PiBoundary
        /\ PiNotice
        /\ UNCHANGED <<pi_dir, pi_hw_data, pi_sw_data, pi_appl>>

\* SNDRV_PCM_POS_XRUN: the stream is stopped and prepared anew.
PiXrun ==
    LET ptr == (pi_hw_io + pi_card) % PiHw
    IN  /\ pi_pc = "idle" /\ ~PiPlayback /\ pi_hw_ready + PiGone(ptr) > qsize
        /\ pi_hw_io' = ptr /\ pi_card' = 0
        /\ pi_hw_ready' = pi_hw_ready + PiGone(ptr)
        /\ pi_pc' = "xrun"
        /\ UNCHANGED <<pi_dir, pi_hw_data, pi_sw_data, pi_sw_io, pi_sw_ready, pi_seen, pi_appl, pi_hwptr>>

PiPrepare ==
    /\ pi_pc = "xrun"
    /\ pi_hw_data' = 0 /\ pi_hw_io' = 0 /\ pi_hw_ready' = 0
    /\ pi_sw_data' = 0 /\ pi_sw_io' = 0 /\ pi_sw_ready' = 0
    /\ pi_seen' = 0 /\ pi_appl' = 0 /\ pi_pc' = "idle" /\ pi_card' = 0 /\ pi_hwptr' = 0
    /\ UNCHANGED pi_dir

PiNext ==
    \/ \E n \in 1 .. bytes_to_frames(PiSw) : PiForward(n) \/ PiRewind(n)
    \/ \E n \in 1 .. PiHw : PiCard(n)
    \/ PiTransfer \/ PiCopy \/ PiCopied \/ PiPointer \/ PiXrun \/ PiPrepare

PiSpec == PiInit /\ [][PiNext]_pi_vars

(***************************************************************************)
(* Properties                                                              *)
(***************************************************************************)
\* The offsets stay in their rings, and neither ring holds more than it can; a
\* rewind of a whole buffer counts the begun frame of a capture on top.
PiTypeOK ==
    /\ pi_dir \in {"playback", "capture"} /\ pi_pc \in {"idle", "copy", "xrun"}
    /\ pi_hw_data \in 0 .. PiHw - 1 /\ pi_hw_io \in 0 .. PiHw - 1
    /\ pi_sw_data \in 0 .. PiSw - 1 /\ pi_sw_io \in 0 .. PiSw - 1
    /\ {pi_seen, pi_appl, pi_hwptr} \subseteq 0 .. PiBoundary - 1
    /\ pi_card \in 0 .. PiHw - 1
    /\ pi_pc # "xrun" => pi_hw_ready \in 0 .. qsize
    /\ pi_sw_ready \in -PiSw .. PiSw + PiFrame - 1

\* Bytes from the card to the application's position rec->appl_ptr, or back from
\* it: less than nothing when the application has rewound into the frame the
\* card is in.  Half the boundary tells forward from back.
PiBetween ==
    LET frames == PiAhead(PiBoundary, pi_seen, pi_hwptr)
        signed == IF 2 * frames > PiBoundary THEN frames - PiBoundary ELSE frames
        bytes  == frames_to_bytes(signed) - (pi_sw_io % PiFrame)
    IN  IF PiPlayback THEN bytes ELSE -bytes

\* Nothing is lost, repeated or put in the wrong place: the two rings stay in
\* step.  What the card has ahead of it in its ring ends where the next byte
\* goes (comes from), the byte's place in the other ring is as far from
\* sw_io, and the two counts together are the bytes between the application
\* and the card, exactly, also when appl_ptr has wrapped and when the card is
\* inside a frame.
PiInStep ==
    pi_pc # "xrun" =>
        /\ pi_hw_ready + pi_sw_ready = PiBetween
        /\ IF PiPlayback
             THEN /\ PiAhead(PiHw, pi_hw_data, pi_hw_io) = pi_hw_ready % PiHw
                  /\ PiAhead(PiSw, pi_sw_data, pi_sw_io) = pi_hw_ready % PiSw
             ELSE /\ PiAhead(PiHw, pi_hw_io, pi_hw_data) = pi_hw_ready % PiHw
                  /\ PiAhead(PiSw, pi_sw_io, pi_sw_data) = pi_hw_ready % PiSw

\* A playback copy writes no byte the card has yet to play, and reads none from
\* the application's position on.
PiCopySafe ==
    PiPlayback /\ pi_pc = "copy" /\ PiMore =>
        LET card == (pi_hw_io + pi_card) % PiHw
        IN  /\ PiBytes > 0
            /\ \A i \in pi_hw_data .. pi_hw_data + PiBytes - 1 :
                  PiAhead(PiHw, i, card) >= pi_hw_ready - pi_card
            /\ \A i \in pi_sw_data .. pi_sw_data + PiBytes - 1 :
                  PiAhead(PiSw, i, pi_sw_io) < PiBetween
=============================================================================

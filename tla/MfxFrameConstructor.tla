------------------------- MODULE MfxFrameConstructor -------------------------
(***************************************************************************)
(* The frame constructor (c2_utils/src/mfx_frame_constructor.cpp) behind   *)
(* MfxC2BitstreamIn, as DoWork drives it: AppendFrame loads a sample, the  *)
(* decoder takes data from the front of GetMfxBitstream(), Unload keeps    *)
(* what is left.  After Reset (a flush, a stop, a change of the format)    *)
(* the stream goes on from another place, and the saved headers have to be *)
(* put in front of it when it does not bring its own.                      *)
(*                                                                         *)
(* A bitstream is a sequence of NAL units; a unit has a type and carries   *)
(* the number of the sample it came with.  A unit is taken as a whole, is  *)
(* longer than three bytes, and a buffer is as large as its content.       *)
(***************************************************************************)
EXTENDS Naturals, Sequences

CONSTANTS Codecs,    \* the classes of the constructor: "none", "avc", "hevc"
          Config,    \* per codec, the samples with FLAG_CODEC_CONFIG (sequences of types)
          Data,      \* per codec, the other samples
          MaxLoads,  \* bound: samples loaded in a behaviour
          MaxResets, \* bound: calls of Reset
          NoRoom     \* the allocations that may fail, a subset of {"header", "sample", "keep"}

VARIABLES
  codec,   \* the class CreateFrameConstructor made
  fc,      \* the members of MfxC2FrameConstructor and MfxC2AVCFrameConstructor
  phase,   \* DoWork: "idle", or "loaded" between AppendFrame and Unload
  loads, resets,     \* how many there were
  \* the ledger of the stream since the last seek
  owed,    \* the units loaded, with the headers that were put in front of them
  given,   \* the units that left the constructor: the decoder took them, or
  dropped, \* at these positions, a change of the format threw them away
  since,   \* how many had left at the last Reset
  clean,   \* no allocation failed, and no sample was given up
  seeking, \* at the last Reset there was a header to replay
  newest   \* the last sample with FLAG_CODEC_CONFIG, 0 if none
streamVars == <<codec, fc, phase, loads, resets, owed, given, dropped, since, clean, seeking, newest>>
ledgerVars == <<dropped, since>>

States == {"awaiting", "collecting", "waitSei", "obtained", "resetting"}
Fresh == [state |-> "awaiting", header |-> <<>>, sps |-> <<>>, pps |-> <<>>, sei |-> <<>>,
          buf |-> <<>>, in |-> <<>>, current |-> "null", inReset |-> FALSE]

Sample(types, n) == [i \in DOMAIN types |-> [type |-> types[i], load |-> n]]

-----------------------------------------------------------------------------
(* FindHeaders: the last SPS, PPS and SEI it sees, and found_sei *)

isSEI(type) == codec = "hevc" /\ type = "sei"
needWaitSEI(type) == codec = "hevc" /\ type # "slice"

\* A turn of the loop reads a start code, takes an SPS, then a PPS, then all the SEIs, and the
\* next one passes over whatever follows: a second SPS right after the first is not looked at.
Type(nals, k) == IF k <= Len(nals) THEN nals[k].type ELSE "end"
Passed(nals, k, type) == IF Type(nals, k) = type THEN k + 1 ELSE k
AfterPPS(nals, k) == Passed(nals, Passed(nals, k, "sps"), "pps")
AfterSEI(nals, k) == CHOOSE j \in AfterPPS(nals, k) .. Len(nals) + 1 :
                       /\ ~isSEI(Type(nals, j))
                       /\ \A i \in AfterPPS(nals, k) .. j - 1 : isSEI(Type(nals, i))
NextTurn(nals, k) == IF AfterSEI(nals, k) <= Len(nals) THEN AfterSEI(nals, k) + 1 ELSE Len(nals) + 1

Nothing == [sps |-> <<>>, pps |-> <<>>, sei |-> <<>>, foundSei |-> ~needWaitSEI("end")]

\* What is found from k on, with "later" found from the next turn on.
Turn(nals, k, later) ==
    LET p == Passed(nals, k, "sps")
        s == AfterPPS(nals, k)
        e == AfterSEI(nals, k)
        Latest(i, taken, rest) == IF taken /\ rest = <<>> THEN <<nals[i]>> ELSE rest
    IN [sps |-> Latest(k, p > k, later.sps), pps |-> Latest(p, s > p, later.pps),
        sei |-> Latest(e - 1, e > s, later.sei),
        foundSei |-> e > s \/ ~needWaitSEI(Type(nals, e)) \/ later.foundSei]

FindHeaders(nals) ==
    LET from[k \in 1 .. Len(nals) + 1] ==
            IF k = Len(nals) + 1 THEN Nothing ELSE Turn(nals, k, from[NextTurn(nals, k)])
    IN from[1]

\* Called by FindHeaders for everything it finds.
SaveSEI(f, found) == [f EXCEPT !.sei = IF found.sei = <<>> THEN @ ELSE found.sei]
SaveHeaders(f, found) ==
    [SaveSEI(f, found) EXCEPT !.sps = IF found.sps = <<>> THEN @ ELSE found.sps,
                              !.pps = IF found.pps = <<>> THEN @ ELSE found.pps]
Both(found) == found.sps # <<>> /\ found.pps # <<>>
AfterHeaders(found) == IF found.foundSei THEN "obtained" ELSE "waitSei"

-----------------------------------------------------------------------------
(* LoadHeader; "room" holds the allocations that succeed *)

\* Slip: the state moves on and the header is not put back.
ReplayNot(f, header, room) == [fc |-> [f EXCEPT !.state = "obtained"], ok |-> TRUE]

\* Put the saved header into m_bstBuf; the state moves on even when there is no room.
Replay(f, header, room) ==
    [fc |-> [f EXCEPT !.buf = IF "header" \in room THEN @ \o header ELSE @,
                      !.state = "obtained"],
     ok |-> header = <<>> \/ "header" \in room]

\* Nothing had to be allocated.
Fine(f) == [fc |-> f, ok |-> TRUE]

\* MfxC2FrameConstructor::LoadHeader
LoadHeaderBase(nals, flagged, room) ==
    CASE flagged /\ fc.state = "resetting" -> Fine([fc EXCEPT !.state = "obtained"])
      [] flagged /\ fc.state # "resetting" ->
            [fc |-> [fc EXCEPT !.header = IF "header" \in room THEN @ \o nals ELSE @,
                               !.state = IF @ = "awaiting" THEN "collecting" ELSE @],
             ok |-> "header" \in room]
      [] ~flagged /\ fc.state = "collecting" -> Fine([fc EXCEPT !.state = "obtained"])
      [] ~flagged /\ fc.state = "resetting" -> Replay(fc, fc.header, room)
      [] OTHER -> Fine(fc)

\* MfxC2AVCFrameConstructor::LoadHeader
LoadHeaderAVC(found, saved, flagged, room) ==
    CASE flagged ->
           Fine([saved EXCEPT !.state = IF Both(found) THEN AfterHeaders(found)
                                        ELSE IF @ = "awaiting" THEN "collecting" ELSE @])
      [] ~flagged /\ fc.state = "resetting" ->
           IF Both(found) THEN Fine([saved EXCEPT !.state = "obtained"])
           ELSE Replay(saved, saved.sps \o saved.pps, room)
      [] ~flagged /\ fc.state = "collecting" -> Fine([fc EXCEPT !.state = "obtained"])
      [] ~flagged /\ fc.state = "waitSei" ->
           Fine([saved EXCEPT !.state = IF Both(found) THEN AfterHeaders(found) ELSE @])
      [] OTHER -> Fine(fc)
LoadFoundAVC(found, flagged, room) == LoadHeaderAVC(found, SaveHeaders(fc, found), flagged, room)

LoadHeader(nals, flagged, room) == IF codec = "none" THEN LoadHeaderBase(nals, flagged, room)
                                   ELSE LoadFoundAVC(FindHeaders(nals), flagged, room)

\* Load_None: the sample is added to m_bstBuf when something is there, and used in place
\* (m_bstIn points at the caller's data) when not.
LoadBehind(f, ok, nals, room) ==
    IF ~ok \/ (f.buf # <<>> /\ "sample" \notin room)
    THEN [fc |-> [f EXCEPT !.current = "null"], ok |-> FALSE]
    ELSE Fine(IF f.buf # <<>> THEN [f EXCEPT !.buf = @ \o nals, !.current = "buf"]
              ELSE [f EXCEPT !.in = nals, !.current = "in"])
LoadNone(h, nals, room) == LoadBehind(h.fc, h.ok, nals, room)

-----------------------------------------------------------------------------
(* The operations *)

Init == /\ codec \in Codecs
        /\ fc = Fresh
        /\ phase = "idle" /\ loads = 0 /\ resets = 0
        /\ owed = <<>> /\ given = <<>> /\ dropped = {} /\ since = 0
        /\ clean = TRUE /\ seeking = FALSE /\ newest = 0

\* AppendFrame of a sample that has data.  (A work without a buffer, a buffer that cannot
\* be mapped and a buffer without data leave the constructor as it is.)
AppendFrame(types, flagged, room) ==
    /\ phase = "idle" /\ loads < MaxLoads
    /\ LET nals == Sample(types, loads + 1)
       IN \E l \in {LoadNone(LoadHeader(nals, flagged, room), nals, room)} :
            /\ fc' = l.fc
            /\ phase' = IF l.ok THEN "loaded" ELSE "idle"
            /\ owed' = owed \o (IF l.fc.current = "in" THEN nals
                                ELSE SubSeq(l.fc.buf, Len(fc.buf) + 1, Len(l.fc.buf)))
            /\ clean' = (clean /\ l.ok)
    /\ loads' = loads + 1
    /\ newest' = IF flagged THEN loads + 1 ELSE newest
    /\ UNCHANGED <<codec, resets, given, seeking, ledgerVars>>

\* GetMfxBitstream
Bitstream == IF fc.buf = <<>> /\ fc.in # <<>> THEN fc.in ELSE fc.buf

\* DecodeHeader or DecodeFrameAsync moves the offset of the bitstream.
Decode(n) ==
    LET rest == SubSeq(Bitstream, n + 1, Len(Bitstream))
    IN /\ phase = "loaded"
       /\ n \in 1 .. Len(Bitstream)
       /\ given' = given \o SubSeq(Bitstream, 1, n)
       /\ fc' = IF Bitstream = fc.buf THEN [fc EXCEPT !.buf = rest] ELSE [fc EXCEPT !.in = rest]
       /\ UNCHANGED <<codec, phase, loads, resets, owed, clean, seeking, newest, ledgerVars>>

\* BstBufSync: what is left of the input is copied to m_bstBuf.
BstBufSync(room) ==
    IF fc.current = "in" /\ fc.in # <<>>
    THEN [fc EXCEPT !.buf = IF room THEN fc.in ELSE @, !.in = <<>>, !.current = "null"]
    ELSE [fc EXCEPT !.current = "null"]

Unload(room) ==
    /\ phase = "loaded"
    /\ fc' = [BstBufSync(room) EXCEPT !.inReset = FALSE]
    /\ clean' = (clean /\ (room \/ fc.current # "in" \/ fc.in = <<>>))
    /\ phase' = "idle"
    /\ UNCHANGED <<codec, loads, resets, owed, given, seeking, newest, ledgerVars>>

\* The decoder could not be made or a surface could not be allocated: DoWork leaves the
\* loop and does not call Unload.
GiveUp == /\ phase = "loaded"
          /\ phase' = "idle" /\ clean' = FALSE
          /\ UNCHANGED <<codec, fc, loads, resets, owed, given, seeking, newest, ledgerVars>>

Header(f) == IF codec = "none" THEN f.header ELSE f.sps \o f.pps
Complete(header) ==
    \A type \in IF codec = "none" THEN {"header"} ELSE {"sps", "pps"} :
        \E i \in DOMAIN header : header[i].type = type

ResetConstructor ==
    [fc EXCEPT !.buf = <<>>, !.in = <<>>, !.current = "null", !.inReset = TRUE,
               !.state = IF @ = "awaiting" THEN @ ELSE "resetting"]

Reset == /\ resets < MaxResets
         /\ fc' = ResetConstructor
         /\ resets' = resets + 1
         /\ seeking' = (fc.state # "awaiting" /\ Complete(Header(fc)))
         /\ UNCHANGED <<codec, phase, loads, newest>>

\* The reset task of Flush, and DoStop.  The client takes up the stream at another place.
Seek == /\ phase = "idle"
        /\ Reset
        /\ owed' = <<>> /\ given' = <<>> /\ dropped' = {} /\ since' = 0 /\ clean' = TRUE

\* HandleFormatChange(need_reset) inside DoWork, after MFX_WRN_VIDEO_PARAM_CHANGED: the same
\* Reset, in the middle of the stream.  What is left of the sample in hand goes with it.
FormatChange ==
    /\ phase = "loaded" /\ codec # "none"
    /\ Complete(given) \/ resets > 0  \* the decoder knows a format already
    /\ Reset
    /\ given' = given \o Bitstream
    /\ dropped' = dropped \cup (Len(given) + 1 .. Len(given) + Len(Bitstream))
    /\ since' = Len(given) + Len(Bitstream)
    /\ UNCHANGED <<owed, clean>>

Load(room) == \/ \E types \in Config[codec] : AppendFrame(types, TRUE, room)
              \/ \E types \in Data[codec] : AppendFrame(types, FALSE, room)

\* BstBufRealloc and BstBufMalloc: what there may be room for.
Rooms == { {"header", "sample"} \ fail : fail \in SUBSET (NoRoom \ {"keep"}) }
KeepRoom == {TRUE, "keep" \notin NoRoom}

Next == \/ \E room \in Rooms : Load(room)
        \/ \E n \in 1 .. Len(Bitstream) : Decode(n)
        \/ \E room \in KeepRoom : Unload(room)
        \/ GiveUp
        \/ Seek
        \/ FormatChange

Spec == Init /\ [][Next]_streamVars

-----------------------------------------------------------------------------
(* Properties *)

IsStream(s) == \A i \in DOMAIN s : s[i].load \in 1 .. MaxLoads

\* Type correctness, with what the class keeps true of its three bitstreams: when the
\* data of the caller is in use, nothing is buffered ("here bst_Buf is empty").
StreamTypeOK ==
    /\ codec \in Codecs /\ phase \in {"idle", "loaded"}
    /\ fc.state \in States /\ fc.current \in {"null", "buf", "in"} /\ fc.inReset \in BOOLEAN
    /\ \A s \in {fc.header, fc.sps, fc.pps, fc.sei, fc.buf, fc.in, owed, given} : IsStream(s)
    /\ loads \in 0 .. MaxLoads /\ resets \in 0 .. MaxResets /\ newest \in 0 .. loads
    /\ clean \in BOOLEAN /\ seeking \in BOOLEAN
    /\ since \in 0 .. Len(given) /\ dropped \subseteq 1 .. since
    /\ fc.current = "in" => fc.buf = <<>>

\* Between two seeks, changes of the format included, nothing is repeated or reordered, and a
\* unit is lost only at a position in "dropped": what left the constructor, followed by what
\* the decoder will be given next, is what was loaded, with the headers put in front of the
\* first sample after a reset (Load_None, BstBufSync, GetMfxBitstream, Reset).
NothingLost == clean => owed = given \o Bitstream

\* After a seek and after a change of the format no picture reaches the decoder before a
\* header does: either the stream brought one or the saved one was put in front (LoadHeader
\* in the Resetting state).
HeaderAfterSeek ==
    clean /\ seeking =>
        \A i \in since + 1 .. Len(given) :
            given[i].type = "slice" => Complete(SubSeq(given, since + 1, i - 1))

\* What a reset puts aside to be replayed includes the header that arrived last
\* (SaveHeaders for H.264 and H.265).
LatestHeaderSaved ==
    codec # "none" /\ newest # 0 => \E i \in DOMAIN Header(fc) : Header(fc)[i].load >= newest

\* "loop repeats DecodeFrame on the same frame if DecodeFrame returns error which is repairable,
\* like resolution change", and the work "which caused resolution change ... should be used
\* again" (comments of DoWork): a change of the format drops nothing of the sample in hand.
FrameUsedAgain == dropped = {}
=============================================================================

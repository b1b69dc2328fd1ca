------------------------------ MODULE MjpegFrames ------------------------------
(***************************************************************************)
(* internal/service/mjpeghub.go, ReadMJPEGFrames: cutting ffmpeg's output  *)
(* into JPEG pictures.  The output comes in chunks that end anywhere, in   *)
(* the middle of a marker too; the reader waits when the channel of frames *)
(* is full.                                                                *)
(***************************************************************************)
EXTENDS Naturals, Sequences

CONSTANTS
  MaxStream,    \* bound: bytes ffmpeg writes
  ChunkSize,    \* mjpegReadChunkSize
  BufferSize,   \* mjpegMaxBufferSize
  FrameCap      \* mjpegFrameChanCap

ASSUME MjpegAssumption == {MaxStream, ChunkSize, BufferSize, FrameCap} \subseteq Nat \ {0}

(* A marker is FF followed by D8 (start) or D9 (end); 0 is any other byte. *)
Bytes == {"FF", "D8", "D9", "0"}

VARIABLES
  stream,   \* history: all that was read
  buf,
  mjAt,     \* "read", "cut" (looking for frames), "done"
  frames,   \* history: the frames sent
  cuts,     \* history: where in stream each of them began and ended
  queued,   \* how many of them nobody took yet
  overrun   \* history: the buffer was too large and bytes were dropped

mjVars == <<stream, buf, mjAt, frames, cuts, queued, overrun>>

MjpegTypeOK ==
  /\ stream \in Seq(Bytes) /\ Len(stream) <= MaxStream
  /\ buf \in Seq(Bytes)
  /\ mjAt \in {"read", "cut", "done"}
  /\ frames \in Seq(Seq(Bytes)) /\ cuts \in Seq(Nat \X Nat)
  /\ queued \in 0..FrameCap
  /\ overrun \in BOOLEAN

MjpegInit ==
  /\ stream = << >> /\ buf = << >> /\ mjAt = "read"
  /\ frames = << >> /\ cuts = << >> /\ queued = 0 /\ overrun = FALSE

(* The places of a marker in s, at from or later; bytes.Index: the first.  *)
Marks(s, second, from) ==
  {i \in from..(Len(s) - 1) : s[i] = "FF" /\ s[i + 1] = second}
First(places) == CHOOSE i \in places : \A j \in places : i <= j

Starts(s) == Marks(s, "D8", 1)
Ends(s)   == IF Starts(s) = {} THEN {} ELSE Marks(s, "D9", First(Starts(s)) + 2)

-------------------------------------------------------------------------------
ReadChunk ==
  /\ mjAt = "read"
  /\ \E n \in 1..ChunkSize : \E chunk \in [1..n -> Bytes] :
       /\ Len(stream) + n <= MaxStream
       /\ stream' = stream \o chunk
       /\ buf' = buf \o chunk
  /\ mjAt' = "cut"
  /\ UNCHANGED <<frames, cuts, queued, overrun>>

(* A whole picture is in the buffer: it is sent, and cut off. *)
SendFrame ==
  /\ mjAt = "cut"
  /\ Ends(buf) # {}
  /\ queued < FrameCap
  /\ LET start == First(Starts(buf))
         end   == First(Ends(buf))
         gone  == Len(stream) - Len(buf)
     IN  /\ cuts' = Append(cuts, <<gone + start, gone + end>>)
         /\ frames' = Append(frames, SubSeq(buf, start, end + 1))
         /\ buf' = SubSeq(buf, end + 2, Len(buf))
  /\ queued' = queued + 1
  /\ UNCHANGED <<stream, mjAt, overrun>>

(* Mutant: bytes before a start marker are dropped at once, half a marker  *)
(* among them.                                                             *)
DropEarly ==
  /\ mjAt = "cut"
  /\ Ends(buf) = {}
  /\ buf' = IF Starts(buf) = {} THEN << >> ELSE SubSeq(buf, First(Starts(buf)), Len(buf))
  /\ mjAt' = "read"
  /\ UNCHANGED <<stream, frames, cuts, queued, overrun>>

(* No whole picture: what lies before its start is dropped, and everything *)
(* when the buffer is too large.  Without a start the bytes stay, and of a *)
(* buffer that is too large the last one.                                  *)
KeepRest ==
  /\ mjAt = "cut"
  /\ Ends(buf) = {}
  /\ LET rest == IF Starts(buf) = {} THEN buf
                 ELSE SubSeq(buf, First(Starts(buf)), Len(buf))
     IN  /\ buf' = IF Len(rest) <= BufferSize THEN rest
                   ELSE IF Starts(buf) = {} THEN <<buf[Len(buf)]>> ELSE << >>
         /\ overrun' = (overrun \/ (Starts(buf) # {} /\ Len(rest) > BufferSize))
  /\ mjAt' = "read"
  /\ UNCHANGED <<stream, frames, cuts, queued>>

TakeFrame ==
  /\ queued > 0
  /\ queued' = queued - 1
  /\ UNCHANGED <<stream, buf, mjAt, frames, cuts, overrun>>

(* The viewer goes, or ffmpeg ends. *)
StopReading ==
  /\ mjAt # "done"
  /\ mjAt' = "done"
  /\ UNCHANGED <<stream, buf, frames, cuts, queued, overrun>>

MjpegNext == ReadChunk \/ SendFrame \/ KeepRest \/ TakeFrame \/ StopReading

MjpegSpec == MjpegInit /\ [][MjpegNext]_mjVars

-------------------------------------------------------------------------------
(* The first picture in s at place from or later: between a start marker   *)
(* and the first end marker after it.                                      *)
IsPicture(cut, s, from) ==
  /\ cut[1] \in Marks(s, "D8", from) /\ \A i \in Marks(s, "D8", from) : cut[1] <= i
  /\ cut[2] \in Marks(s, "D9", cut[1] + 2) /\ \A i \in Marks(s, "D9", cut[1] + 2) : cut[2] <= i

(* The place behind the n-th picture. *)
Behind(n) == IF n = 0 THEN 1 ELSE cuts[n][2] + 2

(* However the stream is cut into chunks, and however slow the viewer is,  *)
(* the frames are the pictures of the whole stream, one after the other    *)
(* and none left out, unless a picture is larger than the buffer.          *)
FramesAreThePictures ==
  mjAt = "read" /\ ~overrun =>
    /\ Len(cuts) = Len(frames)
    /\ \A n \in DOMAIN frames : /\ IsPicture(cuts[n], stream, Behind(n - 1))
                                /\ frames[n] = SubSeq(stream, cuts[n][1], cuts[n][2] + 1)
    /\ \A start \in Marks(stream, "D8", Behind(Len(frames))) : Marks(stream, "D9", start + 2) = {}
===============================================================================

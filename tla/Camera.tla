------------------------------- MODULE Camera -------------------------------
(***************************************************************************)
(* The program of examples/uvc_camera_stills (client/src/main.c): it waits *)
(* for a camera, takes SnapshotCount pictures in the best MJPEG profile    *)
(* and then in the best YUYV profile, and ends.                            *)
(*                                                                         *)
(* The camera library does not say how long a compressed frame is, so      *)
(* GetJpegSize() looks for its end in a buffer that still holds what was   *)
(* there before: earlier frames, or what malloc() returned.  The buffer is *)
(* therefore modelled byte by byte, and the scan step by step.  Picture    *)
(* conversion and file names are left out.  The camera is external: each   *)
(* call of the library may fail, and frames may be cut short, as the       *)
(* comment on MAX_HEIGHT_MJPEG warns.                                      *)
(***************************************************************************)
EXTENDS Naturals, Sequences

CONSTANTS
  Cameras,        \* the lists of profiles of the cameras one may plug in
  MaxHeight,      \* MAX_HEIGHT_MJPEG and MAX_HEIGHT_YUYV
  SnapshotCount,  \* SNAPSHOT_COUNT
  Jpegs,          \* the frames an MJPEG camera makes
  Leftovers       \* the bytes malloc() may return memory full of

Byte    == 0..255
Formats == {"MJPEG", "YUYV"}
Profile == [pFmt : Formats \cup {"other"}, resX : Nat, resY : Nat, bpp : Nat]

PAD == 255
ZERO == 0
SOI == 216
EOI == 217
TEM == 1
SOS == 218
RST == 208..215

(***************************************************************************)
(* A JPEG picture f, as the standard lays it out: M holds the indices of   *)
(* the 0xff bytes that begin its markers.  A marker is filled up, stands   *)
(* for itself, has a length and so many bytes, or begins a scan: data in   *)
(* which 0xff is followed by zero or belongs to a restart marker.  Two     *)
(* things the standard allows are left out: fill bytes before a restart    *)
(* marker, and 0xff in the header of a scan.                               *)
(***************************************************************************)
Quiet(f, from, to) == \A j \in from .. to : f[j] = PAD => f[j + 1] \in {ZERO} \cup RST

Marked(f, M) ==
  /\ 1 \in M /\ M \subseteq {k \in 1 .. Len(f) - 1 : f[k] = PAD}
  /\ \A k \in M :
       \/ f[k + 1] = PAD /\ k + 1 \in M
       \/ f[k + 1] \in {SOI, TEM} \cup RST /\ k + 2 \in M
       \/ f[k + 1] = EOI /\ k + 1 = Len(f)
       \/ /\ f[k + 1] = SOS
          /\ \E e \in M : /\ k + 2 <= e /\ Quiet(f, k + 2, e - 1)
                          /\ f[e + 1] \notin {ZERO} \cup RST
       \/ /\ f[k + 1] \notin {PAD, SOI, TEM, SOS, EOI} \cup RST
          /\ \E size \in 2 .. Len(f) : /\ size = f[k + 2] * 256 + f[k + 3]
                                       /\ k + 2 + size \in M

Markers(f) == CHOOSE M \in SUBSET {k \in 1 .. Len(f) - 1 : f[k] = PAD} : Marked(f, M)

\* A YUYV frame has four bytes for every two pixels of a line; what an MJPEG
\* camera makes are JPEG pictures.
ASSUME CameraAssumption ==
  /\ Cameras \subseteq Seq(Profile)
  /\ \A c \in Cameras : \A k \in DOMAIN c :
       c[k].pFmt = "YUYV" => c[k].bpp = 2 /\ (c[k].resX * c[k].resY) % 2 = 0
  /\ MaxHeight \in [Formats -> Nat]
  /\ SnapshotCount \in Nat \ {0}
  /\ Jpegs \subseteq Seq(Byte)
  /\ \A f \in Jpegs : \E M \in SUBSET {k \in 1 .. Len(f) - 1 : f[k] = PAD} : Marked(f, M)
  /\ Leftovers \subseteq Byte

VARIABLES
  pc,
  plugged,     \* the camera CameraEnumPorts() reports, or <<>>
  opened,      \* what is open: the library, a port, the stream
  refused,     \* what of it the library has failed to release
  selected,    \* the profile the camera is set to, 0 for none
  fmt,         \* the pass: the pixel format ConfigureCamera() is asked for
  n,           \* i of ConfigureCamera(), counted from 1
  best,        \* bestProfileIdx, 0 for none
  bestHeight,
  data,        \* the frame buffer, <<>> if none is allocated; indices from 0
  dataSize,
  snap,        \* i of MakeSnapshots()
  made,        \* the frame the camera made last
  frame,       \* what of it arrived in the buffer
  i,           \* i of GetJpegSize()
  outside,     \* the indices read that are not in the buffer
  file         \* the .jpg file written last and the frame it was made of

device == <<plugged, opened, refused, selected>>
search == <<fmt, n, best, bestHeight>>
buffer == <<data, dataSize, snap, made, frame>>
scan   == <<i, outside>>
vars   == <<pc, device, search, buffer, scan, file>>

Ended == pc \in {"success", "failure", "aborted"}

Init ==
  /\ pc = "init" /\ plugged = <<>> /\ opened = {} /\ refused = {} /\ selected = 0
  /\ fmt = "MJPEG" /\ n = 1 /\ best = 0 /\ bestHeight = 0
  /\ data = <<>> /\ dataSize = 0 /\ snap = 0 /\ made = <<>> /\ frame = <<>>
  /\ i = 0 /\ outside = {}
  /\ file = [of |-> <<>>, got |-> <<>>, bytes |-> <<>>]

-----------------------------------------------------------------------------
(***************************************************************************)
(* main() and CaptureCameraSnapshots().                                    *)
(***************************************************************************)

\* Someone plugs in a camera.
PlugIn ==
  /\ plugged = <<>> /\ plugged' \in Cameras
  /\ UNCHANGED <<pc, opened, refused, selected, search, buffer, scan, file>>

CameraInit ==
  /\ pc = "init"
  /\ \/ pc' = "wait" /\ opened' = {"library"}
     \/ pc' = "failure" /\ UNCHANGED opened
  /\ UNCHANGED <<plugged, refused, selected, search, buffer, scan, file>>

\* CameraFini() and the end of main().
Fini(code) == pc' = code /\ opened' = opened \ {"library"}

\* CameraEnumPorts() answers rcResourceNotFound until a camera is there.
WaitPort ==
  /\ pc = "wait"
  /\ \/ plugged # <<>> /\ pc' = "open" /\ UNCHANGED opened
     \/ Fini("failure")
  /\ UNCHANGED <<plugged, refused, selected, search, buffer, scan, file>>

OpenPort ==
  /\ pc = "open"
  /\ \/ pc' = "interrogate" /\ opened' = opened \cup {"port"}
     \/ Fini("failure")
  /\ UNCHANGED <<plugged, refused, selected, search, buffer, scan, file>>

\* InterrogateCamera() logs controls and profiles; whatever fails, it returns
\* rcOk, so that CaptureCameraSnapshots() never leaves with the port open.
InterrogateCamera ==
  /\ pc = "interrogate"
  /\ pc' = "enumerate"
  /\ UNCHANGED <<device, search, buffer, scan, file>>

\* The first pass is over, whatever came of it: the second one, or the end.
NextPass ==
  IF fmt = "MJPEG"
    THEN /\ fmt' = "YUYV" /\ n' = 1 /\ best' = 0 /\ bestHeight' = 0
         /\ pc' = "enumerate"
    ELSE pc' = "close" /\ UNCHANGED search

\* CameraClosePort(), whose result is the exit status, and CameraFini().
ClosePort ==
  /\ pc = "close"
  /\ \/ pc' = "success" /\ opened' = opened \ {"port", "library"} /\ UNCHANGED refused
     \/ Fini("failure") /\ refused' = refused \cup {"port"}
  /\ UNCHANGED <<plugged, selected, search, buffer, scan, file>>

-----------------------------------------------------------------------------
(***************************************************************************)
(* ConfigureCamera().                                                      *)
(***************************************************************************)

\* One profile: is it the best so far?
EnumProfile ==
  /\ pc = "enumerate" /\ n <= Len(plugged)
  /\ LET p == plugged[n] IN
       IF p.pFmt = fmt /\ p.resY <= MaxHeight[fmt] /\ p.resY > bestHeight
         THEN best' = n /\ bestHeight' = p.resY
         ELSE UNCHANGED <<best, bestHeight>>
  /\ n' = n + 1
  /\ UNCHANGED <<pc, device, fmt, buffer, scan, file>>

\* rcResourceNotFound ends the enumeration ...
EnumDone ==
  /\ pc = "enumerate" /\ n > Len(plugged)
  /\ IF best = 0 THEN NextPass ELSE pc' = "select" /\ UNCHANGED search
  /\ UNCHANGED <<device, buffer, scan, file>>

\* ... any other error the whole pass.
EnumFails ==
  /\ pc = "enumerate"
  /\ NextPass
  /\ UNCHANGED <<device, buffer, scan, file>>

SelectProfile ==
  /\ pc = "select"
  /\ \/ selected' = best /\ pc' = "info" /\ UNCHANGED search
     \/ NextPass /\ UNCHANGED selected
  /\ UNCHANGED <<plugged, opened, refused, buffer, scan, file>>

-----------------------------------------------------------------------------
(***************************************************************************)
(* MakeSnapshots().                                                        *)
(***************************************************************************)
info == plugged[selected]

Max1(x) == IF x = 0 THEN 1 ELSE x

\* CameraGetInfo() fails, or says what SelectProfile() has chosen.
GetInfo ==
  /\ pc = "info"
  /\ \/ info.pFmt \in Formats /\ pc' = "enable" /\ UNCHANGED search
     \/ NextPass
  /\ UNCHANGED <<device, buffer, scan, file>>

\* CameraEnable(), and the buffer for all frames of this pass.  Its size fits
\* 32 bits: a UVC width has 16, and the height is at most MaxHeight[fmt].
Enable ==
  /\ pc = "enable"
  /\ \/ /\ opened' = opened \cup {"stream"} /\ refused' = refused \ {"stream"}
        /\ dataSize' = info.resX * info.resY * Max1(info.bpp)
        /\ \E b \in Leftovers : data' = [k \in 0 .. dataSize' - 1 |-> b]
        /\ snap' = 0 /\ pc' = "read"
        /\ UNCHANGED search
     \/ NextPass /\ UNCHANGED <<opened, refused, data, dataSize, snap>>
  /\ UNCHANGED <<plugged, selected, made, frame, scan, file>>

\* Mistake: the camera goes on streaming while the next pass configures it.
NextSnapshotStreaming ==
  /\ snap' = snap + 1
  /\ IF snap' < SnapshotCount
       THEN pc' = "read" /\ UNCHANGED <<data, opened, refused, search>>
       ELSE data' = <<>> /\ UNCHANGED <<opened, refused>> /\ NextPass
  /\ UNCHANGED <<plugged, selected, dataSize>>

\* CameraDisable(): nothing is done about its failure.
Disable == \/ opened' = opened \ {"stream"} /\ UNCHANGED refused
           \/ refused' = refused \cup {"stream"} /\ UNCHANGED opened

\* The end of one round of the loop: the next picture, or free() and
\* CameraDisable().  A picture that could not be saved is only logged.
NextSnapshot ==
  /\ snap' = snap + 1
  /\ IF snap' < SnapshotCount
       THEN pc' = "read" /\ UNCHANGED <<data, opened, refused, search>>
       ELSE data' = <<>> /\ Disable /\ NextPass
  /\ UNCHANGED <<plugged, selected, dataSize>>

\* What a camera makes in the current profile; a YUYV frame fills the buffer.
FramesMade == IF info.pFmt = "MJPEG" THEN Jpegs
              ELSE {[k \in 1..dataSize |-> 16]}

\* CameraReadFrame() puts a frame, or as much of it as arrived and fits, at
\* the beginning of the buffer and leaves the rest of the buffer alone.
ReadFrame ==
  /\ pc = "read"
  /\ \E f \in FramesMade : \E k \in 0 .. Len(f) :
       /\ k <= dataSize
       /\ made' = f /\ frame' = SubSeq(f, 1, k)
       /\ data' = [j \in 0 .. dataSize - 1 |-> IF j < k THEN f[j + 1] ELSE data[j]]
  /\ pc' = IF info.pFmt = "MJPEG" THEN "marker" ELSE "convert"
  /\ i' = 0
  /\ UNCHANGED <<device, search, dataSize, snap, outside, file>>

ReadFrameFails ==
  /\ pc = "read"
  /\ NextSnapshot
  /\ UNCHANGED <<made, frame, scan, file>>

\* SaveYUYV() and YUYVToRGB(): two pixels of three bytes for every four bytes
\* of the buffer.  The asserts compare the sizes; the file may fail.
SaveYUYV ==
  /\ pc = "convert"
  /\ LET rgbSize == info.resX * info.resY * 3 IN
       IF /\ info.bpp = 2 /\ dataSize % 4 = 0 /\ rgbSize % 3 = 0
          /\ (dataSize \div 4) * 2 = rgbSize \div 3
         THEN NextSnapshot
         ELSE pc' = "aborted" /\ UNCHANGED <<device, search, data, dataSize, snap>>
  /\ UNCHANGED <<made, frame, scan, file>>

-----------------------------------------------------------------------------
(***************************************************************************)
(* GetJpegSize(): the outer loop looks at markers, the inner loop at the   *)
(* entropy-coded data that follows an SOS marker.                          *)
(***************************************************************************)
At(k) == IF k \in DOMAIN data THEN data[k] ELSE ZERO

\* Notes the bytes that are read outside the buffer.
Reads(indices) == outside' = outside \cup (indices \ DOMAIN data)

\* SaveMJPEG() has found no end of the picture: rcFail.
NoSize == NextSnapshot /\ UNCHANGED <<i, outside, made, frame, file>>

\* Bytes that stand for themselves, of one or both bytes of a marker.
SkipMarker ==
  /\ pc = "marker" /\ i < dataSize
  /\ At(i) \in {PAD, SOI, TEM} \cup RST
  /\ i' = i + 1 /\ Reads({i})
  /\ UNCHANGED <<pc, device, search, buffer, file>>

StartOfScan ==
  /\ pc = "marker" /\ i < dataSize
  /\ At(i) = SOS
  /\ i' = i + 1 /\ Reads({i})
  /\ pc' = "entropy"
  /\ UNCHANGED <<device, search, buffer, file>>

\* Mistakes: the length is not skipped; the marker itself is not.
SkipSegmentByte ==
  /\ pc = "marker" /\ i < dataSize
  /\ At(i) \notin {PAD, SOI, TEM, SOS, EOI} \cup RST
  /\ IF i + 1 + 2 >= dataSize
       THEN NoSize
       ELSE /\ i' = i + 1 /\ Reads({i})
            /\ UNCHANGED <<pc, device, search, buffer, file>>

SkipSegmentOnly ==
  /\ pc = "marker" /\ i < dataSize
  /\ At(i) \notin {PAD, SOI, TEM, SOS, EOI} \cup RST
  /\ IF i + 1 + 2 >= dataSize
       THEN NoSize
       ELSE /\ i' = i + At(i + 1) * 256 + At(i + 2)
            /\ Reads({i, i + 1, i + 2})
            /\ UNCHANGED <<pc, device, search, buffer, file>>

\* Any other byte is taken for a marker that is followed by a length.
SkipSegment ==
  /\ pc = "marker" /\ i < dataSize
  /\ At(i) \notin {PAD, SOI, TEM, SOS, EOI} \cup RST
  /\ IF i + 1 + 2 >= dataSize
       THEN NoSize
       ELSE /\ i' = i + 1 + At(i + 1) * 256 + At(i + 2)
            /\ Reads({i, i + 1, i + 2})
            /\ UNCHANGED <<pc, device, search, buffer, file>>

EndOfImage ==
  /\ pc = "marker" /\ i < dataSize
  /\ At(i) = EOI
  /\ i' = i + 1 /\ Reads({i})
  /\ pc' = "write"
  /\ UNCHANGED <<device, search, buffer, file>>

EndOfBuffer ==
  /\ pc = "marker" /\ i >= dataSize
  /\ NoSize

\* Mistake: the inner loop runs up to the last byte.
EntropyDataToTheEnd ==
  /\ pc = "entropy"
  /\ IF i < dataSize
       THEN /\ i' = i + 1
            /\ IF At(i) # PAD
                 THEN Reads({i}) /\ UNCHANGED pc
                 ELSE /\ Reads({i, i + 1})
                      /\ pc' = IF At(i + 1) \in {ZERO} \cup RST THEN pc ELSE "marker"
       ELSE pc' = "marker" /\ UNCHANGED <<i, outside>>
  /\ UNCHANGED <<device, search, buffer, file>>

\* A padding byte ends the data unless a zero or a restart marker follows; it
\* is looked at, but not passed.
EntropyData ==
  /\ pc = "entropy"
  /\ IF i + 1 < dataSize
       THEN /\ i' = i + 1
            /\ IF At(i) # PAD
                 THEN Reads({i}) /\ UNCHANGED pc
                 ELSE /\ Reads({i, i + 1})
                      /\ pc' = IF At(i + 1) \in {ZERO} \cup RST THEN pc ELSE "marker"
       ELSE pc' = "marker" /\ UNCHANGED <<i, outside>>
  /\ UNCHANGED <<device, search, buffer, file>>

\* SaveMJPEG() writes the first i bytes of the buffer, or fails to.
SaveMJPEG ==
  /\ pc = "write"
  /\ \/ file' = [of |-> made, got |-> frame,
                 bytes |-> [k \in 1..i |-> At(k - 1)]]
     \/ UNCHANGED file
  /\ NextSnapshot
  /\ UNCHANGED <<made, frame, scan>>

-----------------------------------------------------------------------------
GetJpegSize == \/ SkipMarker \/ StartOfScan \/ SkipSegment \/ EndOfImage
               \/ EndOfBuffer \/ EntropyData

Program ==
  \/ CameraInit \/ WaitPort \/ OpenPort \/ InterrogateCamera \/ ClosePort
  \/ EnumProfile \/ EnumDone \/ EnumFails \/ SelectProfile
  \/ GetInfo \/ Enable \/ ReadFrame \/ ReadFrameFails \/ SaveYUYV \/ SaveMJPEG
  \/ GetJpegSize

Next == Program \/ PlugIn \/ (Ended /\ UNCHANGED vars)

Spec == Init /\ [][Next]_vars

\* The program is one thread, and every call of the library returns.
FairSpec == Spec /\ WF_vars(Program)

-----------------------------------------------------------------------------
(***************************************************************************)
(* Properties.                                                             *)
(***************************************************************************)
Shooting == {"read", "convert", "marker", "entropy", "write"}

TypeOK ==
  /\ pc \in {"init", "wait", "open", "interrogate", "enumerate", "select", "info",
             "enable", "read", "convert", "marker", "entropy", "write", "close",
             "success", "failure", "aborted"}
  /\ plugged \in Cameras \cup {<<>>}
  /\ opened \subseteq {"library", "port", "stream"} /\ refused \subseteq {"port", "stream"}
  /\ fmt \in Formats /\ n \in Nat \ {0} /\ best \in Nat /\ selected \in Nat
  /\ bestHeight \in Nat /\ dataSize \in Nat /\ snap \in Nat /\ i \in Nat
  /\ outside \subseteq Nat

\* A picture whose frame arrived completely is saved as exactly that frame,
\* whatever the buffer held before: the end of the picture is found, and not a
\* byte pair inside it or after it.
SavedIsFrame == file.got = file.of => file.bytes = file.of

\* GetJpegSize() never reads a byte outside the buffer, whatever the camera has
\* put into it, and the asserts of SaveYUYV() and YUYVToRGB() never fail.
NoBadAccess == outside = {} /\ pc # "aborted"

\* On every path what was opened is released before the camera is configured again
\* or the program ends, and no buffer is left behind.  Only what the library has
\* failed to release stays open: a stream after CameraDisable(), whose result is
\* ignored, so that the next pass may find the camera still streaming, and a port
\* after CameraClosePort().
CleanSwitch ==
  /\ pc \in {"enumerate", "select", "close", "success", "failure"} =>
       data = <<>> /\ ("stream" \in opened => "stream" \in refused)
  /\ pc \in {"success", "failure"} => opened \subseteq refused
  /\ pc = "success" => opened \subseteq {"stream"}

\* Which profile the program works with: one of the plugged camera's, in a
\* format it can save.
ProfileInv ==
  /\ best # 0 => best \in DOMAIN plugged
  /\ pc \in {"select"} => best # 0
  /\ pc \in {"info", "enable"} \cup Shooting => selected \in DOMAIN plugged
  /\ pc \in {"enable"} \cup Shooting => info.pFmt \in Formats
  /\ pc = "convert" => info.pFmt # "MJPEG"

\* The buffer exists while the camera streams, and is as long as dataSize.
BufferInv ==
  /\ pc \in Shooting => /\ data \in [0 .. dataSize - 1 -> Byte]
                        /\ dataSize = info.resX * info.resY * Max1(info.bpp)
  /\ pc \notin Shooting => data = <<>>
  /\ "stream" \in opened => pc \in Shooting \/ "stream" \in refused

\* What has been opened when.
PortInv ==
  /\ pc \in {"init", "wait", "open", "success"} => "port" \notin opened
  /\ pc = "failure" /\ "port" \in opened => "port" \in refused
  /\ pc \in {"init", "success", "failure"} => "library" \notin opened

\* The inductive invariant behind NoBadAccess and CleanSwitch.
IInv == TypeOK /\ ProfileInv /\ BufferInv /\ PortInv /\ NoBadAccess

\* The scan has come to the first or the second byte of a marker of f,
AtMarker(f) == i + 1 \in Markers(f) \/ i \in Markers(f)

\* or it is before the marker that ends the entropy-coded data.
InEntropy(f) ==
  \E e \in Markers(f) : /\ i + 1 <= e /\ Quiet(f, i + 1, e - 1)
                        /\ f[e + 1] \notin {ZERO} \cup RST

\* If the frame in the buffer arrived completely, the scan is where a marker or
\* entropy-coded data of this frame begins or goes on.
FrameInv ==
  pc \in {"marker", "entropy", "write"} /\ frame = made =>
    /\ made \in Jpegs /\ Len(made) <= dataSize
    /\ \A k \in 1 .. Len(made) : data[k - 1] = made[k]
    /\ pc = "marker" => AtMarker(made)
    /\ pc = "entropy" => InEntropy(made)
    /\ pc = "write" => i = Len(made)

\* The inductive invariant behind SavedIsFrame.
FileInv == IInv /\ FrameInv /\ SavedIsFrame

\* Once a camera is there the program ends, whatever the frames look like: no
\* scan goes on for ever.
CameraEnds == (plugged # <<>>) ~> Ended
=============================================================================

---------------------------- MODULE CameraProofs ----------------------------
(***************************************************************************)
(* Proofs about Camera: for every list of profiles, every frame and every  *)
(* content of the buffer, the scan for the end of a picture stays inside   *)
(* the buffer, the asserts hold, and stream, buffer and port are released; *)
(* and every JPEG picture is saved as it was made.                         *)
(***************************************************************************)
EXTENDS Camera, SequenceTheorems, TLAPS

\* The sizes that the asserts of SaveYUYV() and YUYVToRGB() compare agree for
\* an even number of pixels of two bytes.
LEMMA YUYVSizes ==
  ASSUME NEW z \in Nat, z % 2 = 0
  PROVE  /\ (z * 2) % 4 = 0 /\ (z * 3) % 3 = 0
         /\ ((z * 2) \div 4) * 2 = (z * 3) \div 3
  OBVIOUS

\* The inductive invariant holds when the program starts.
LEMMA InitIInv == Init => IInv
  BY CameraAssumption
  DEF Init, IInv, TypeOK, ProfileInv, BufferInv, PortInv, NoBadAccess, Shooting, Formats

\* The camera's profiles, and what CameraGetInfo() says of the selected one.
LEMMA Profiles ==
  ASSUME TypeOK
  PROVE  /\ plugged \in Seq(Profile)
         /\ \A k \in DOMAIN plugged :
              /\ plugged[k].resX \in Nat /\ plugged[k].resY \in Nat
              /\ plugged[k].bpp \in Nat
              /\ plugged[k].pFmt = "YUYV" =>
                   plugged[k].bpp = 2 /\ (plugged[k].resX * plugged[k].resY) % 2 = 0
<1>1. CASE plugged = <<>>
  BY <1>1
<1>2. CASE plugged \in Cameras
  <2>1. plugged \in Seq(Profile)
    BY <1>2, CameraAssumption
  <2>2. \A k \in DOMAIN plugged : plugged[k] \in Profile
    BY <2>1
  <2> QED
    BY <1>2, <2>1, <2>2, CameraAssumption DEF Profile
<1> QED
  BY <1>1, <1>2 DEF TypeOK

\* The next pass of CaptureCameraSnapshots() begins, or its end is reached.
LEMMA NextPassTypes ==
  ASSUME IInv, NextPass
  PROVE  /\ pc' \in {"enumerate", "close"}
         /\ fmt' \in Formats /\ n' \in Nat \ {0} /\ best' \in Nat /\ bestHeight' \in Nat
         /\ best' # 0 => best' = best
  BY DEF IInv, TypeOK, NextPass, search, Formats

\* The steps of CaptureCameraSnapshots(), ConfigureCamera() and the camera's
\* appearance keep the invariant: no buffer is in use.
LEMMA ConfigureKeeps ==
  ASSUME IInv,
         \/ PlugIn \/ CameraInit \/ WaitPort \/ OpenPort \/ InterrogateCamera
         \/ ClosePort \/ EnumProfile \/ EnumDone \/ EnumFails \/ SelectProfile
         \/ GetInfo
  PROVE  IInv'
<1> USE CameraAssumption
    DEF IInv, TypeOK, ProfileInv, BufferInv, PortInv, NoBadAccess, Shooting,
        device, search, buffer, scan, info
<1>1. CASE PlugIn
  BY <1>1 DEF PlugIn
<1>2. CASE CameraInit
  BY <1>2 DEF CameraInit
<1>3. CASE WaitPort
  BY <1>3 DEF WaitPort, Fini
<1>4. CASE OpenPort
  BY <1>4 DEF OpenPort, Fini
<1>5. CASE InterrogateCamera
  BY <1>5 DEF InterrogateCamera
<1>6. CASE ClosePort
  BY <1>6 DEF ClosePort, Fini
<1>7. CASE EnumProfile
  <2>1. n \in DOMAIN plugged
    BY <1>7, Profiles DEF EnumProfile
  <2>2. plugged[n].resY \in Nat
    BY <2>1, Profiles
  <2> QED
    BY <1>7, <2>1, <2>2 DEF EnumProfile
<1>8. CASE EnumDone
  BY <1>8, NextPassTypes DEF EnumDone
<1>9. CASE EnumFails
  BY <1>9, NextPassTypes DEF EnumFails
<1>10. CASE SelectProfile
  BY <1>10, NextPassTypes DEF SelectProfile
<1>11. CASE GetInfo
  BY <1>11, NextPassTypes DEF GetInfo
<1> QED
  BY <1>1, <1>2, <1>3, <1>4, <1>5, <1>6, <1>7, <1>8, <1>9, <1>10, <1>11

\* The end of one round of MakeSnapshots() keeps the invariant, if the step it
\* belongs to leaves the scan alone.
LEMMA NextSnapshotKeeps ==
  ASSUME IInv, pc \in Shooting, NextSnapshot, UNCHANGED scan
  PROVE  IInv'
<1> USE DEF IInv, TypeOK, ProfileInv, BufferInv, PortInv, NoBadAccess, Shooting, scan, info
<1>1. CASE snap' < SnapshotCount
  <2>1. /\ pc' = "read" /\ snap' = snap + 1
        /\ UNCHANGED <<data, dataSize, opened, refused, plugged, selected, search>>
    BY <1>1 DEF NextSnapshot
  <2>2. TypeOK' /\ ProfileInv'
    BY <2>1 DEF search
  <2>3. BufferInv' /\ PortInv' /\ NoBadAccess'
    BY <2>1 DEF search
  <2> QED
    BY <2>2, <2>3
<1>2. CASE ~(snap' < SnapshotCount)
  <2>1. /\ NextPass /\ data' = <<>> /\ opened' \subseteq opened
        /\ "stream" \in opened' => "stream" \in refused'
        /\ refused \subseteq refused' /\ refused' \subseteq refused \cup {"stream"}
        /\ snap' = snap + 1 /\ UNCHANGED <<plugged, selected, dataSize>>
    BY <1>2 DEF NextSnapshot, Disable
  <2>2. TypeOK' /\ ProfileInv'
    BY <2>1, NextPassTypes
  <2>3. BufferInv' /\ PortInv' /\ NoBadAccess'
    BY <2>1, NextPassTypes
  <2> QED
    BY <2>2, <2>3
<1> QED
  BY <1>1, <1>2

\* The steps of MakeSnapshots() and of the two functions that save a picture
\* keep the invariant: the buffer has the size of the selected profile.
LEMMA SnapshotKeeps ==
  ASSUME IInv, Enable \/ ReadFrame \/ ReadFrameFails \/ SaveYUYV \/ SaveMJPEG
  PROVE  IInv'
<1> USE DEF IInv, TypeOK, ProfileInv, BufferInv, PortInv, NoBadAccess, Shooting,
            device, search, buffer, scan, info
<1>1. ASSUME pc \in {"enable"} \cup Shooting
      PROVE  /\ info.resX \in Nat /\ info.resY \in Nat /\ info.bpp \in Nat
             /\ info.pFmt = "YUYV" => info.bpp = 2 /\ (info.resX * info.resY) % 2 = 0
  BY <1>1, Profiles
<1>2. CASE Enable
  <2>1. CASE pc' = "read"
    <3>1. /\ pc = "enable" /\ opened' = opened \cup {"stream"} /\ snap' = 0
          /\ refused' = refused \ {"stream"}
          /\ dataSize' = info.resX * info.resY * Max1(info.bpp)
          /\ \E x \in Leftovers : data' = [k \in 0 .. dataSize' - 1 |-> x]
          /\ UNCHANGED <<plugged, selected, scan, search>>
      BY <1>2, <2>1, NextPassTypes DEF Enable
    <3>2. dataSize' \in Nat
      <4>1. info.resX * info.resY \in Nat /\ Max1(info.bpp) \in Nat
        BY <1>1, <3>1 DEF Max1
      <4> QED
        BY <3>1, <4>1
    <3>3. data' \in [0 .. dataSize' - 1 -> Byte]
      BY <3>1, CameraAssumption
    <3>4. TypeOK' /\ ProfileInv' /\ PortInv' /\ NoBadAccess'
      BY <2>1, <3>1, <3>2
    <3>5. BufferInv'
      BY <2>1, <3>1, <3>2, <3>3
    <3> QED
      BY <3>4, <3>5
  <2>2. CASE pc' # "read"
    <3>1. NextPass /\ UNCHANGED <<opened, refused, data, dataSize, snap>>
      BY <1>2, <2>2 DEF Enable
    <3> QED
      BY <1>2, <3>1, NextPassTypes DEF Enable
  <2> QED
    BY <2>1, <2>2
<1>3. CASE ReadFrame
  <2>0. PICK f \in FramesMade : \E k \in 0 .. Len(f) :
          data' = [j \in 0 .. dataSize - 1 |-> IF j < k THEN f[j + 1] ELSE data[j]]
    BY <1>3 DEF ReadFrame
  <2>1. PICK k \in 0 .. Len(f) :
          data' = [j \in 0 .. dataSize - 1 |-> IF j < k THEN f[j + 1] ELSE data[j]]
    BY <2>0
  <2>2. f \in Seq(Byte)
    BY CameraAssumption DEF FramesMade, Byte
  <2>3. data' \in [0 .. dataSize - 1 -> Byte]
    <3>1. data \in [0 .. dataSize - 1 -> Byte] /\ dataSize \in Nat
      BY <1>3 DEF ReadFrame
    <3>2. \A j \in 0 .. dataSize - 1 : (IF j < k THEN f[j + 1] ELSE data[j]) \in Byte
      BY <2>2, <3>1
    <3> QED
      BY <2>1, <3>2
  <2> QED
    BY <1>3, <2>3 DEF ReadFrame
<1>4. CASE ReadFrameFails
  BY <1>4, NextSnapshotKeeps DEF ReadFrameFails
<1>5. CASE SaveYUYV
  <2> DEFINE z == info.resX * info.resY
  <2>1. z \in Nat /\ z % 2 = 0 /\ info.bpp = 2 /\ dataSize = z * 2
    <3>1. pc = "convert" /\ info.pFmt = "YUYV"
      BY <1>5 DEF SaveYUYV, Formats
    <3>2. info.bpp = 2 /\ z % 2 = 0 /\ z \in Nat
      BY <1>1, <3>1
    <3>3. Max1(info.bpp) = 2
      BY <3>2 DEF Max1
    <3> QED
      BY <3>1, <3>2, <3>3
  <2>2. /\ dataSize % 4 = 0 /\ (z * 3) % 3 = 0
        /\ (dataSize \div 4) * 2 = (z * 3) \div 3
    <3> HIDE DEF z
    <3> QED
      BY <2>1, YUYVSizes
  <2>3. NextSnapshot
    BY <1>5, <2>1, <2>2 DEF SaveYUYV
  <2> QED
    BY <1>5, <2>3, NextSnapshotKeeps DEF SaveYUYV
<1>6. CASE SaveMJPEG
  BY <1>6, NextSnapshotKeeps DEF SaveMJPEG
<1> QED
  BY <1>2, <1>3, <1>4, <1>5, <1>6

\* What the scan reads is a byte.
LEMMA BytesAreNumbers ==
  ASSUME data \in [0 .. dataSize - 1 -> Byte]
  PROVE  \A k : At(k) \in Nat
<1> TAKE k
<1>0. \A x \in Byte : x \in Nat
  BY DEF Byte
<1>1. CASE k \in 0 .. dataSize - 1
  <2>1. At(k) = data[k] /\ data[k] \in Byte
    BY <1>1 DEF At
  <2> QED
    BY <1>0, <2>1
<1>2. CASE k \notin 0 .. dataSize - 1
  BY <1>2 DEF At, ZERO
<1> QED
  BY <1>1, <1>2

\* The steps of GetJpegSize() keep the invariant: every index they read is
\* below dataSize.
LEMMA ScanKeeps ==
  ASSUME IInv, GetJpegSize
  PROVE  IInv'
<1> USE DEF IInv, TypeOK, ProfileInv, BufferInv, PortInv, NoBadAccess, Shooting,
            device, search, buffer, scan, info, Reads
<1>1. CASE SkipMarker
  BY <1>1 DEF SkipMarker
<1>2. CASE StartOfScan
  BY <1>2 DEF StartOfScan
<1>3. CASE EndOfImage
  BY <1>3 DEF EndOfImage
<1>4. CASE EndOfBuffer
  BY <1>4, NextSnapshotKeeps DEF EndOfBuffer, NoSize
<1>5. CASE EntropyData
  BY <1>5 DEF EntropyData
<1>6. CASE SkipSegment
  <2>1. CASE i + 1 + 2 >= dataSize
    BY <1>6, <2>1, NextSnapshotKeeps DEF SkipSegment, NoSize
  <2>2. CASE ~(i + 1 + 2 >= dataSize)
    <3>1. /\ i' = i + 1 + At(i + 1) * 256 + At(i + 2)
          /\ outside' = outside \cup ({i, i + 1, i + 2} \ DOMAIN data)
          /\ pc = "marker" /\ UNCHANGED <<pc, device, search, buffer>>
      BY <1>6, <2>2 DEF SkipSegment
    <3>2. At(i + 1) \in Nat /\ At(i + 2) \in Nat
      BY <3>1, BytesAreNumbers
    <3>3. {i, i + 1, i + 2} \subseteq DOMAIN data
      BY <2>2, <3>1
    <3>4. i' \in Nat /\ outside' = {}
      BY <3>1, <3>2, <3>3
    <3> QED
      BY <3>1, <3>4
  <2> QED
    BY <2>1, <2>2
<1> QED
  BY <1>1, <1>2, <1>3, <1>4, <1>5, <1>6 DEF GetJpegSize

\* The inductive invariant holds in every state of the program.
THEOREM Invariance == Spec => []IInv
<1>1. IInv /\ [Next]_vars => IInv'
  <2> SUFFICES ASSUME IInv, [Next]_vars PROVE IInv'
    OBVIOUS
  <2>1. CASE UNCHANGED vars
    BY <2>1 DEF vars, device, search, buffer, scan, IInv, TypeOK, ProfileInv, BufferInv,
                PortInv, NoBadAccess, Shooting, info
  <2>2. CASE Next
    BY <2>1, <2>2, ConfigureKeeps, SnapshotKeeps, ScanKeeps DEF Next, Program
  <2> QED
    BY <2>1, <2>2
<1> QED
  BY InitIInv, <1>1, PTL DEF Spec

\* Type correctness of the camera program.
THEOREM TypeCorrect == Spec => []TypeOK
<1>1. IInv => TypeOK
  BY DEF IInv
<1> QED
  BY Invariance, <1>1, PTL

\* GetJpegSize() stays inside the buffer for every content of it, and no assert
\* of SaveYUYV() or YUYVToRGB() fails.
THEOREM AccessIsSound == Spec => []NoBadAccess
<1>1. IInv => NoBadAccess
  BY DEF IInv
<1> QED
  BY Invariance, <1>1, PTL

\* Whatever the library's calls return: the next pass and the end find nothing of
\* the camera in use, neither stream nor buffer nor port, that the library has
\* not refused to release when it was asked.
THEOREM Released == Spec => []CleanSwitch
<1>1. IInv => CleanSwitch
  BY DEF IInv, TypeOK, BufferInv, PortInv, CleanSwitch, Shooting
<1> QED
  BY Invariance, <1>1, PTL

-----------------------------------------------------------------------------
(***************************************************************************)
(* What is saved of a frame.                                               *)
(***************************************************************************)

\* What the scan needs to know of a JPEG picture and of its markers.
LEMMA Picture ==
  ASSUME NEW f \in Jpegs
  PROVE  /\ Marked(f, Markers(f)) /\ f \in Seq(Byte) /\ Len(f) \in Nat
         /\ \A k \in Markers(f) : k \in Nat /\ 1 <= k /\ k + 1 <= Len(f) /\ f[k] = PAD
<1>1. Marked(f, Markers(f)) /\ f \in Seq(Byte)
  BY CameraAssumption DEF Markers
<1>2. Len(f) \in Nat
  BY <1>1
<1>3. \A k \in Markers(f) : k \in 1 .. Len(f) - 1 /\ f[k] = PAD
  BY <1>1 DEF Marked
<1>4. \A k \in 1 .. Len(f) - 1 : k \in Nat /\ 1 <= k /\ k + 1 <= Len(f)
  BY <1>2
<1> QED BY <1>1, <1>2, <1>3, <1>4

\* A frame that arrived completely lies at the beginning of the buffer.
LEMMA Laid ==
  ASSUME IInv, FrameInv, pc \in {"marker", "entropy", "write"}, frame = made
  PROVE  /\ made \in Jpegs /\ Len(made) <= dataSize /\ dataSize \in Nat /\ i \in Nat
         /\ \A j \in Nat : j < dataSize => j \in DOMAIN data
         /\ \A j \in Nat : j < Len(made) => At(j) = made[j + 1]
<1>1. /\ made \in Jpegs /\ Len(made) <= dataSize /\ dataSize \in Nat /\ i \in Nat
      /\ DOMAIN data = 0 .. dataSize - 1
      /\ \A k \in 1 .. Len(made) : data[k - 1] = made[k]
  BY DEF IInv, TypeOK, BufferInv, FrameInv, Shooting
<1>2. Len(made) \in Nat
  BY <1>1, Picture
<1>3. ASSUME NEW j \in Nat, j < Len(made)
      PROVE  At(j) = made[j + 1]
  <2>1. j + 1 \in 1 .. Len(made) /\ (j + 1) - 1 = j /\ j \in 0 .. dataSize - 1
    BY <1>1, <1>2, <1>3
  <2>2. data[(j + 1) - 1] = made[j + 1]
    BY <1>1, <2>1
  <2> QED BY <1>1, <2>1, <2>2 DEF At
<1> QED BY <1>1, <1>3

\* At the first byte of a marker the scan goes on to the second; what follows
\* depends on that.
LEMMA MarkerSteps ==
  ASSUME IInv, FrameInv, SkipMarker \/ StartOfScan \/ EndOfImage
  PROVE  FrameInv'
<1> SUFFICES ASSUME frame = made
             PROVE  /\ pc' = "marker" => AtMarker(made)'
                    /\ pc' = "entropy" => InEntropy(made)'
                    /\ pc' = "write" => i' = Len(made)
  <2>1. pc = "marker" /\ UNCHANGED <<data, dataSize, made, frame>>
    BY DEF SkipMarker, StartOfScan, EndOfImage, buffer
  <2> QED BY <2>1 DEF FrameInv, AtMarker, InEntropy
<1> DEFINE M == Markers(made)
<1>1. /\ pc = "marker" /\ i' = i + 1 /\ UNCHANGED made
      /\ \/ At(i) \in {PAD, SOI, TEM} \cup RST /\ pc' = "marker"
         \/ At(i) = SOS /\ pc' = "entropy"
         \/ At(i) = EOI /\ pc' = "write"
  BY DEF SkipMarker, StartOfScan, EndOfImage, buffer
<1>2. made \in Jpegs /\ i \in Nat /\ \A j \in Nat : j < Len(made) => At(j) = made[j + 1]
  BY <1>1, Laid
<1>3. /\ Marked(made, M) /\ Len(made) \in Nat
      /\ \A k \in M : k \in Nat /\ 1 <= k /\ k + 1 <= Len(made) /\ made[k] = PAD
  BY <1>2, Picture
<1>4. i + 1 \in M \/ i \in M
  BY <1>1 DEF FrameInv, AtMarker
<1>5. CASE i + 1 \in M
  <2>1. At(i) = PAD
    <3>1. i < Len(made)
      BY <1>2, <1>3, <1>5
    <3> QED BY <1>2, <1>3, <1>5, <3>1
  <2>2. pc' = "marker"
    BY <1>1, <2>1 DEF PAD, SOS, EOI
  <2> QED BY <1>1, <1>5, <2>2 DEF AtMarker
<1>6. CASE i \in M
  <2>1. At(i) = made[i + 1]
    <3>1. i < Len(made)
      BY <1>2, <1>3, <1>6
    <3> QED BY <1>2, <3>1
  <2>2. \/ made[i + 1] = PAD /\ i + 1 \in M
        \/ made[i + 1] \in {SOI, TEM} \cup RST /\ i + 2 \in M
        \/ made[i + 1] = EOI /\ i + 1 = Len(made)
        \/ /\ made[i + 1] = SOS
           /\ \E e \in M : /\ i + 2 <= e /\ Quiet(made, i + 2, e - 1)
                           /\ made[e + 1] \notin {ZERO} \cup RST
        \/ made[i + 1] \notin {PAD, SOI, TEM, SOS, EOI} \cup RST
    BY <1>3, <1>6 DEF Marked
  <2>3. i' + 1 = i + 2
    BY <1>1, <1>2
  <2>4. CASE At(i) \in {PAD, SOI, TEM} \cup RST /\ pc' = "marker"
    <3>1. made[i + 1] \notin {SOS, EOI}
      BY <2>1, <2>4 DEF PAD, SOI, TEM, SOS, EOI, RST
    <3>2. i + 1 \in M \/ i + 2 \in M
      BY <2>1, <2>2, <2>4, <3>1
    <3> QED BY <1>1, <2>3, <2>4, <3>2 DEF AtMarker
  <2>5. CASE At(i) = SOS /\ pc' = "entropy"
    <3>1. \E e \in M : /\ i + 2 <= e /\ Quiet(made, i + 2, e - 1)
                       /\ made[e + 1] \notin {ZERO} \cup RST
      BY <2>1, <2>2, <2>5 DEF PAD, SOI, TEM, SOS, EOI, RST
    <3> QED BY <1>1, <2>3, <2>5, <3>1 DEF InEntropy
  <2>6. CASE At(i) = EOI /\ pc' = "write"
    <3>1. i + 1 = Len(made)
      BY <2>1, <2>2, <2>6 DEF PAD, SOI, TEM, SOS, EOI, RST
    <3> QED BY <1>1, <2>6, <3>1
  <2> QED BY <1>1, <2>4, <2>5, <2>6
<1> QED BY <1>4, <1>5, <1>6

\* A segment of the picture is skipped as a whole.
LEMMA SegmentStep ==
  ASSUME IInv, FrameInv, SkipSegment, ~(i + 1 + 2 >= dataSize)
  PROVE  FrameInv'
<1> SUFFICES ASSUME frame = made PROVE AtMarker(made)'
  <2>1. pc = "marker" /\ pc' = "marker" /\ UNCHANGED <<data, dataSize, made, frame>>
    BY DEF SkipSegment, buffer
  <2> QED BY <2>1 DEF FrameInv, AtMarker, InEntropy
<1> DEFINE M == Markers(made)
<1>1. /\ pc = "marker" /\ i' = i + 1 + At(i + 1) * 256 + At(i + 2) /\ UNCHANGED made
      /\ At(i) \notin {PAD, SOI, TEM, SOS, EOI} \cup RST
  BY DEF SkipSegment, buffer
<1>2. made \in Jpegs /\ i \in Nat /\ \A j \in Nat : j < Len(made) => At(j) = made[j + 1]
  BY <1>1, Laid
<1>3. /\ Marked(made, M) /\ Len(made) \in Nat
      /\ \A k \in M : k \in Nat /\ 1 <= k /\ k + 1 <= Len(made) /\ made[k] = PAD
  BY <1>2, Picture
<1>4. i \in M
  <2>1. i + 1 \in M => At(i) = PAD
    <3> SUFFICES ASSUME i + 1 \in M PROVE At(i) = PAD
      OBVIOUS
    <3>1. i < Len(made)
      BY <1>2, <1>3
    <3> QED BY <1>2, <1>3, <3>1
  <2> QED BY <1>1, <2>1 DEF FrameInv, AtMarker
<1>5. At(i) = made[i + 1]
  <2>1. i < Len(made)
    BY <1>2, <1>3, <1>4
  <2> QED BY <1>2, <2>1
<1>6. PICK size \in 2 .. Len(made) : /\ size = made[i + 2] * 256 + made[i + 3]
                                     /\ i + 2 + size \in M
  BY <1>1, <1>3, <1>4, <1>5 DEF Marked
<1>7. /\ i + 1 \in Nat /\ i + 1 < Len(made) /\ (i + 1) + 1 = i + 2
      /\ i + 2 \in Nat /\ i + 2 < Len(made) /\ (i + 2) + 1 = i + 3
  <2>1. i + 2 + size + 1 <= Len(made) /\ size \in Nat /\ size >= 2
    BY <1>3, <1>6
  <2> QED BY <1>2, <1>3, <2>1
<1>8. At(i + 1) = made[i + 2] /\ At(i + 2) = made[i + 3]
  BY <1>2, <1>7
<1>9. i' + 1 = i + 2 + size
  <2>1. At(i + 1) \in Nat /\ At(i + 2) \in Nat
    BY <1>1, BytesAreNumbers DEF IInv, BufferInv, Shooting
  <2> DEFINE x == At(i + 1)
             y == At(i + 2)
  <2>2. x \in Nat /\ y \in Nat /\ i' = i + 1 + x * 256 + y /\ size = x * 256 + y
    BY <1>1, <1>6, <1>8, <2>1
  <2> HIDE DEF x, y
  <2> QED BY <1>2, <2>2
<1> QED BY <1>1, <1>6, <1>9 DEF AtMarker

\* The entropy-coded data ends at the marker where it ends in the picture.
LEMMA EntropyStep ==
  ASSUME IInv, FrameInv, EntropyData
  PROVE  FrameInv'
<1> SUFFICES ASSUME frame = made
             PROVE  /\ pc' = "marker" => AtMarker(made)'
                    /\ pc' = "entropy" => InEntropy(made)'
  <2>1. /\ pc = "entropy" /\ pc' \in {"marker", "entropy"}
        /\ UNCHANGED <<data, dataSize, made, frame>>
    BY DEF EntropyData, buffer
  <2> QED BY <2>1 DEF FrameInv, AtMarker, InEntropy
<1> DEFINE M == Markers(made)
<1>1. pc = "entropy" /\ UNCHANGED made
  BY DEF EntropyData, buffer
<1>2. /\ made \in Jpegs /\ i \in Nat /\ \A j \in Nat : j < Len(made) => At(j) = made[j + 1]
      /\ Len(made) <= dataSize /\ dataSize \in Nat
  BY <1>1, Laid
<1>3. /\ Marked(made, M) /\ Len(made) \in Nat
      /\ \A k \in M : k \in Nat /\ 1 <= k /\ k + 1 <= Len(made) /\ made[k] = PAD
  BY <1>2, Picture
<1>4. PICK e \in M : /\ i + 1 <= e /\ Quiet(made, i + 1, e - 1)
                     /\ made[e + 1] \notin {ZERO} \cup RST
  BY <1>1 DEF FrameInv, InEntropy
<1>5. e \in Nat /\ e + 1 <= Len(made) /\ made[e] = PAD
  BY <1>3
<1>6. /\ i + 1 < dataSize /\ i < Len(made) /\ i + 1 < Len(made) /\ i + 1 \in Nat
      /\ (i + 1) + 1 = i + 2
  BY <1>2, <1>3, <1>4, <1>5
<1>7. At(i) = made[i + 1] /\ At(i + 1) = made[i + 2]
  BY <1>2, <1>6
<1>8. /\ i' = i + 1
      /\ pc' = IF At(i) # PAD \/ At(i + 1) \in {ZERO} \cup RST THEN "entropy" ELSE "marker"
  BY <1>1, <1>6 DEF EntropyData
<1>9. CASE i + 1 = e
  <2>1. pc' = "marker"
    BY <1>4, <1>5, <1>6, <1>7, <1>8, <1>9
  <2> QED BY <1>1, <1>8, <1>9, <2>1 DEF AtMarker
<1>10. CASE i + 1 # e
  <2>1. i + 1 \in (i + 1) .. (e - 1) /\ i' + 1 <= e
    BY <1>2, <1>4, <1>5, <1>8, <1>10
  <2>2. made[i + 1] = PAD => made[i + 2] \in {ZERO} \cup RST
    BY <1>4, <1>6, <2>1 DEF Quiet
  <2>3. pc' = "entropy"
    BY <1>7, <1>8, <2>2
  <2>4. \A j \in (i' + 1) .. (e - 1) : j \in (i + 1) .. (e - 1)
    BY <1>2, <1>5, <1>8
  <2>5. Quiet(made, i' + 1, e - 1)
    BY <1>4, <2>4 DEF Quiet
  <2> QED BY <1>1, <1>4, <2>1, <2>3, <2>5 DEF InEntropy
<1> QED BY <1>9, <1>10

\* A frame is read, completely or not.
LEMMA ReadStep ==
  ASSUME IInv, ReadFrame
  PROVE  FrameInv'
<1>1. PICK f \in FramesMade : \E k \in 0 .. Len(f) :
        /\ k <= dataSize /\ made' = f /\ frame' = SubSeq(f, 1, k)
        /\ data' = [j \in 0 .. dataSize - 1 |-> IF j < k THEN f[j + 1] ELSE data[j]]
  BY DEF ReadFrame
<1>2. PICK k \in 0 .. Len(f) :
        /\ k <= dataSize /\ made' = f /\ frame' = SubSeq(f, 1, k)
        /\ data' = [j \in 0 .. dataSize - 1 |-> IF j < k THEN f[j + 1] ELSE data[j]]
  BY <1>1
<1>3. /\ pc' = (IF info.pFmt = "MJPEG" THEN "marker" ELSE "convert") /\ i' = 0
      /\ dataSize' = dataSize /\ dataSize \in Nat
  BY DEF ReadFrame, IInv, TypeOK
<1> SUFFICES ASSUME pc' = "marker", frame' = made'
             PROVE  /\ f \in Jpegs /\ Len(f) <= dataSize /\ 1 \in Markers(f)
                    /\ \A j \in 1 .. Len(f) : data'[j - 1] = f[j]
  BY <1>2, <1>3 DEF FrameInv, AtMarker
<1>4. f \in Jpegs
  BY <1>3 DEF FramesMade
<1>5. f \in Seq(Byte) /\ Len(f) \in Nat /\ 1 \in Markers(f)
  BY <1>4, Picture DEF Marked
<1>6. k = Len(f)
  <2>1. Len(SubSeq(f, 1, k)) = k
    BY <1>5, SubSeqProperties
  <2> QED BY <1>2, <2>1
<1>7. ASSUME NEW j \in 1 .. Len(f) PROVE data'[j - 1] = f[j]
  <2>1. j - 1 \in 0 .. dataSize - 1 /\ j - 1 < k /\ (j - 1) + 1 = j
    BY <1>2, <1>3, <1>5, <1>6
  <2> QED BY <1>2, <2>1
<1> QED BY <1>2, <1>4, <1>5, <1>6, <1>7

\* A round of MakeSnapshots() ends: nothing is scanned.
LEMMA RoundEnds ==
  ASSUME NextSnapshot
  PROVE  FrameInv'
  BY DEF NextSnapshot, NextPass, FrameInv

\* The file is written with the length the scan has found.
LEMMA WriteStep ==
  ASSUME FileInv, SaveMJPEG
  PROVE  SavedIsFrame'
<1>1. CASE UNCHANGED file
  BY <1>1 DEF FileInv, SavedIsFrame
<1>2. CASE file' = [of |-> made, got |-> frame, bytes |-> [k \in 1 .. i |-> At(k - 1)]]
  <2> SUFFICES ASSUME frame = made PROVE [k \in 1 .. i |-> At(k - 1)] = made
    BY <1>2 DEF SavedIsFrame
  <2>1. IInv /\ FrameInv /\ pc = "write" /\ i = Len(made)
    BY DEF FileInv, SaveMJPEG, FrameInv
  <2>2. made \in Jpegs /\ \A j \in Nat : j < Len(made) => At(j) = made[j + 1]
    BY <2>1, Laid
  <2>3. made \in Seq(Byte) /\ Len(made) \in Nat
    BY <2>2, Picture
  <2>4. ASSUME NEW k \in 1 .. Len(made) PROVE At(k - 1) = made[k]
    <3>1. k - 1 \in Nat /\ k - 1 < Len(made) /\ (k - 1) + 1 = k
      BY <2>3
    <3> QED BY <2>2, <3>1
  <2> QED BY <2>1, <2>3, <2>4
<1> QED BY <1>1, <1>2 DEF SaveMJPEG

\* Every step of the program keeps the invariant of the frame and its file.
LEMMA FileStep ==
  ASSUME FileInv, IInv', [Next]_vars
  PROVE  FileInv'
<1>0. IInv /\ FrameInv /\ SavedIsFrame
  BY DEF FileInv
<1>1. CASE UNCHANGED vars
  BY <1>0, <1>1 DEF vars, buffer, scan, FileInv, FrameInv, SavedIsFrame, AtMarker, InEntropy
<1>2. CASE \/ PlugIn \/ CameraInit \/ WaitPort \/ OpenPort \/ InterrogateCamera \/ ClosePort
           \/ EnumProfile \/ EnumDone \/ EnumFails \/ SelectProfile \/ GetInfo \/ Enable
  <2>1. SavedIsFrame'
    BY <1>0, <1>2 DEF PlugIn, CameraInit, WaitPort, OpenPort, InterrogateCamera, ClosePort,
       EnumProfile, EnumDone, EnumFails, SelectProfile, GetInfo, Enable, SavedIsFrame
  <2>2. CASE PlugIn
    BY <1>0, <2>2 DEF PlugIn, buffer, scan, FrameInv, AtMarker, InEntropy, FileInv, SavedIsFrame
  <2>3. CASE ~PlugIn
    <3>1. pc' \notin {"marker", "entropy", "write"}
      BY <1>2, <2>3 DEF CameraInit, WaitPort, OpenPort, InterrogateCamera, ClosePort,
         EnumProfile, EnumDone, EnumFails, SelectProfile, GetInfo, Enable, NextPass, Fini
    <3> QED BY <2>1, <3>1 DEF FileInv, FrameInv
  <2> QED BY <2>2, <2>3
<1>3. CASE ReadFrame
  BY <1>0, <1>3, ReadStep DEF ReadFrame, FileInv, SavedIsFrame
<1>4. CASE ReadFrameFails
  BY <1>0, <1>4, RoundEnds DEF ReadFrameFails, FileInv, SavedIsFrame
<1>5. CASE SaveYUYV
  <2>1. CASE NextSnapshot
    BY <1>0, <1>5, <2>1, RoundEnds DEF SaveYUYV, FileInv, SavedIsFrame
  <2>2. CASE pc' = "aborted"
    BY <1>0, <1>5, <2>2 DEF SaveYUYV, FileInv, SavedIsFrame, FrameInv
  <2> QED BY <1>5, <2>1, <2>2 DEF SaveYUYV
<1>6. CASE SaveMJPEG
  BY <1>6, RoundEnds, WriteStep DEF SaveMJPEG, FileInv
<1>7. CASE SkipMarker \/ StartOfScan \/ EndOfImage
  BY <1>0, <1>7, MarkerSteps DEF SkipMarker, StartOfScan, EndOfImage, FileInv, SavedIsFrame
<1>8. CASE SkipSegment
  <2>1. CASE i + 1 + 2 >= dataSize
    BY <1>0, <1>8, <2>1, RoundEnds DEF SkipSegment, NoSize, FileInv, SavedIsFrame
  <2>2. CASE ~(i + 1 + 2 >= dataSize)
    BY <1>0, <1>8, <2>2, SegmentStep DEF SkipSegment, FileInv, SavedIsFrame
  <2> QED BY <2>1, <2>2
<1>9. CASE EndOfBuffer
  BY <1>0, <1>9, RoundEnds DEF EndOfBuffer, NoSize, FileInv, SavedIsFrame
<1>10. CASE EntropyData
  BY <1>0, <1>10, EntropyStep DEF EntropyData, FileInv, SavedIsFrame
<1> QED
  BY <1>1, <1>2, <1>3, <1>4, <1>5, <1>6, <1>7, <1>8, <1>9, <1>10
  DEF Next, Program, GetJpegSize

\* Every picture that arrived completely is saved as it was made, for all JPEG
\* pictures that Marked describes, whatever the buffer held before and holds
\* after them: SaveMJPEG() writes as many bytes as the picture has.
THEOREM Saved == Spec => []SavedIsFrame
<1>1. Init => FileInv
  BY InitIInv DEF Init, FileInv, FrameInv, SavedIsFrame
<1>2. FileInv /\ IInv' /\ [Next]_vars => FileInv'
  BY FileStep
<1>3. FileInv => SavedIsFrame
  BY DEF FileInv
<1> QED
  BY <1>1, <1>2, <1>3, Invariance, PTL DEF Spec
=============================================================================

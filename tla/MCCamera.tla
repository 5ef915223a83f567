------------------------------ MODULE MCCamera ------------------------------
(***************************************************************************)
(* Small instances of Camera: cameras of up to three frames in one or two  *)
(* formats, with rates below, at and above the target and equal ones, one  *)
(* to three settings in and out of order, with endpoints passed over, and  *)
(* descriptors that fit the buffer, just, or not.                          *)
(***************************************************************************)
EXTENDS Camera

V10 == 256
V11 == 272
V15 == 336

Mjpeg(formatIdx, idx, rate) == [format |-> "UVC_VS_FORMAT_MJPEG",
                                formatIdx |-> formatIdx, idx |-> idx, maxRate |-> rate]
Raw(formatIdx, idx, rate) == [format |-> "UVC_VS_FORMAT_UNCOMPRESSED",
                              formatIdx |-> formatIdx, idx |-> idx, maxRate |-> rate]

Rates == 1..4
FrameLists == {<<Mjpeg(1, 1, a), Mjpeg(1, 2, b), Raw(2, 1, c)>> : a, b, c \in Rates}
              \cup {<<Raw(1, 1, a), Mjpeg(2, 1, b)>> : a, b \in Rates}
              \cup {<<Raw(1, 1, a), Raw(1, 2, b)>> : a, b \in Rates}

CameraOf(version, frames, settings, others) ==
  [length |-> 1, version |-> version, iface |-> 1, frames |-> frames,
   settings |-> settings, others |-> others]

\* Every list of frames, and every other trait with one list.
OneList == <<Mjpeg(1, 1, 2), Mjpeg(1, 2, 3), Raw(2, 1, 3)>>
Traits == {CameraOf(v, OneList, s, o) : v \in {V10, V11, V15},
             s \in {<<2>>, <<1, 2, 2>>, <<2, 1>>}, o \in {"none", "association", "interface"}}
One == CameraOf(V10, OneList, <<1, 2>>, "none")
AllCameras ==
  {CameraOf(V10, f, <<1, 2>>, "none") : f \in FrameLists}
  \cup Traits
  \cup {[One EXCEPT !.settings = s] : s \in {<<>>, <<0>>, <<0, 2>>, <<2, 0>>}}
  \cup {[One EXCEPT !.version = v, !.iface = 2] : v \in {V10, V15}}
  \cup {[One EXCEPT !.length = n] : n \in {2, 3}}

\* What a broken transfer may leave: nothing of the video function, or fewer
\* frames and settings than the camera has.
CutShort == {CameraOf(V10, <<>>, <<>>, "cut"),
             CameraOf(V10, <<Mjpeg(1, 1, 2)>>, <<1>>, "cut"),
             [CameraOf(V15, <<Mjpeg(1, 2, 3)>>, <<1, 2>>, "cut") EXCEPT !.iface = 2]}

CalmPort == [spaced |-> TRUE, steady |-> TRUE, clean |-> TRUE, same |-> TRUE, supported |-> TRUE]
OneTrouble == {CalmPort} \cup {[CalmPort EXCEPT ![f] = FALSE] : f \in DOMAIN CalmPort}
CalmOnly == {CalmPort}
=============================================================================

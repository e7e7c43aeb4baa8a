------------------------------ MODULE MCCamera ------------------------------
(***************************************************************************)
(* An instance of Camera for TLC.                                          *)
(***************************************************************************)
EXTENDS Camera

P(f, x, y, b) == [pFmt |-> f, resX |-> x, resY |-> y, bpp |-> b]

\* A camera that offers both formats in several sizes, one with YUYV frames
\* that are too tall, and one with neither format.
CamerasUsed == {<<P("YUYV", 2, 1, 2), P("MJPEG", 3, 1, 0), P("MJPEG", 7, 2, 0), P("MJPEG", 9, 9, 0)>>,
                <<P("YUYV", 2, 2, 2)>>,
                <<P("other", 2, 1, 1)>>}

Heights == [MJPEG |-> 2, YUYV |-> 1]

\* A segment that holds an end-of-image marker; entropy-coded data with a
\* restart marker, a stuffed zero and a byte 0xd9; a fill byte before a marker.
JpegsUsed ==
  {<<255, 216, 255, 224, 0, 4, 255, 217, 255, 218, 0, 2, 255, 217>>,
   <<255, 216, 255, 218, 0, 2, 255, 208, 217, 255, 0, 255, 217>>,
   <<255, 216, 255, 255, 218, 0, 2, 7, 255, 255, 217>>}
=============================================================================

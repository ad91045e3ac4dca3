---------------------------- MODULE MCUvcCapture ----------------------------
(* UvcCapture for TLC: a camera with two sizes and MJPEG at 5 frames a      *)
(* second, asked for 5 and for 7; conversions of images of 4 to 16 pixels.  *)
EXTENDS UvcCapture

MCModes == {<<"YUYV", <<640, 480>>, 5>>, <<"YUYV", <<320, 240>>, 5>>,
            <<"MJPEG", <<640, 480>>, 5>>}
MCSizes == {<<2, 2>>, <<4, 2>>, <<6, 2>>, <<4, 4>>}
MCStill == <<640, 480>>

=============================================================================

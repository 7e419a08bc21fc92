--------------------------- MODULE MCCameraHints ---------------------------
(* Constants for TLC that a configuration file cannot write. *)
EXTENDS CameraHints

\* Opening holds the launch boost; a capture asks for more time than it gets.
MCHints == {<<"CAMERA_LAUNCH", 0>>, <<"CAMERA_SHOT", 3>>}
=============================================================================

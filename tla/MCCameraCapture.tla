-------------------------- MODULE MCCameraCapture ---------------------------
(* Instances of CameraCapture for TLC. *)
EXTENDS CameraCapture

SomeSizes == 1..3
=============================================================================

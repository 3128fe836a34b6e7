---------------------------- MODULE MCStreamClient ----------------------------
(* Small instances of StreamClient for TLC. *)
EXTENDS StreamClient

OneEvent == <<1>>
OneEach == <<1, 1>>

\* Two events in the last pass, for their order beside what older ones left.
TwoInTheLast == <<1, 1, 2>>
==============================================================================

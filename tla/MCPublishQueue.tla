---------------------------- MODULE MCPublishQueue ----------------------------
(* Small instances of StatusPublisher and PublishQueue for TLC.              *)
EXTENDS StatusPublisher
=============================================================================

----------------------------- MODULE MCShutdown -----------------------------
(* The options of the runs of Shutdown.                                    *)
EXTENDS Shutdown

(* ConcurrentManager with ComMPIFully needs no run of its own: it does     *)
(* what AmpharosManager does when the tree gives no verdict.               *)
SoundModes == {[fully |-> TRUE, ampharos |-> TRUE], [fully |-> FALSE, ampharos |-> FALSE]}
CollectiveTree == {[fully |-> FALSE, ampharos |-> TRUE]}
AnyMode == [fully : BOOLEAN, ampharos : {FALSE}]
=============================================================================

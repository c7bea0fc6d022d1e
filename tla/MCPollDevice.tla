---------------------------- MODULE MCPollDevice ----------------------------
(* Instances of PollDevice for TLC.                                        *)
EXTENDS PollDeviceInv, TLC

\* The readers of a crowd are alike: same calls, same signals.
ReaderSymmetry == Permutations(Readers)
=============================================================================
